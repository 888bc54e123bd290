------------------------ MODULE SentenceBufferProofs ------------------------
(***************************************************************************)
(* SentenceBuffer's invariants hold for replies of every length: what the  *)
(* sentences and the rest keep of the buffer, and where the rest starts,   *)
(* follows by induction over the positions at which splitting goes on.     *)
(***************************************************************************)
EXTENDS SentenceBuffer, SubsequenceProofs

-----------------------------------------------------------------------------
(* Pieces of a sequence.                                                    *)

LEMMA PieceType ==
  ASSUME NEW S, NEW s \in Seq(S), NEW a \in 1..(Len(s) + 1), NEW b \in 0..Len(s)
  PROVE  /\ SubSeq(s, a, b) \in Seq(S)
         /\ Len(SubSeq(s, a, b)) = IF a <= b THEN b - a + 1 ELSE 0
         /\ \A i \in 1..Len(SubSeq(s, a, b)) : SubSeq(s, a, b)[i] = s[a + i - 1]
<1>1. Len(s) \in Nat /\ \A i \in a..b : s[i] \in S
  BY LenProperties, ElementOfSeq
<1>2. /\ SubSeq(s, a, b) \in Seq(S)
      /\ Len(SubSeq(s, a, b)) = IF a <= b THEN b - a + 1 ELSE 0
      /\ \A i \in 1..(b - a + 1) : SubSeq(s, a, b)[i] = s[a + i - 1]
  BY <1>1, SubSeqProperties
<1> QED BY <1>1, <1>2

LEMMA PieceAll == ASSUME NEW S, NEW s \in Seq(S) PROVE SubSeq(s, 1, Len(s)) = s
BY LenProperties

\* Adjacent pieces join.
LEMMA PieceCat ==
  ASSUME NEW S, NEW s \in Seq(S), NEW a \in 1..(Len(s) + 1),
         NEW m \in (a - 1)..Len(s), NEW b \in m..Len(s)
  PROVE  SubSeq(s, a, b) = Cat(SubSeq(s, a, m), SubSeq(s, m + 1, b))
<1> DEFINE u == SubSeq(s, a, m)
           v == SubSeq(s, m + 1, b)
           w == SubSeq(s, a, b)
<1>1. /\ Len(s) \in Nat /\ a \in Nat /\ m \in Nat /\ b \in Nat
      /\ m \in 0..Len(s) /\ b \in 0..Len(s) /\ m + 1 \in 1..(Len(s) + 1)
      /\ 1 <= a /\ a <= m + 1 /\ m <= b
  BY LenProperties
<1>2. /\ u \in Seq(S) /\ Len(u) = m - a + 1
      /\ \A i \in 1..Len(u) : u[i] = s[a + i - 1]
  BY <1>1, PieceType
<1>3. /\ v \in Seq(S) /\ Len(v) = b - m
      /\ \A i \in 1..Len(v) : v[i] = s[(m + 1) + i - 1]
  BY <1>1, PieceType
<1>4. /\ w \in Seq(S) /\ Len(w) = b - a + 1
      /\ \A i \in 1..Len(w) : w[i] = s[a + i - 1]
  BY <1>1, PieceType
<1> HIDE DEF u, v, w
<1>5. /\ Cat(u, v) \in Seq(S) /\ Len(Cat(u, v)) = Len(u) + Len(v)
      /\ \A i \in 1..(Len(u) + Len(v)) :
           Cat(u, v)[i] = IF i <= Len(u) THEN u[i] ELSE v[i - Len(u)]
  BY <1>2, <1>3, ConcatProperties DEF Cat
<1>6. \A i \in 1..Len(w) : w[i] = Cat(u, v)[i]
  <2> SUFFICES ASSUME NEW i \in 1..Len(w) PROVE w[i] = Cat(u, v)[i]
    OBVIOUS
  <2>1. i \in Nat /\ 1 <= i /\ i <= b - a + 1 /\ i \in 1..(Len(u) + Len(v))
    BY <1>1, <1>2, <1>3, <1>4
  <2>2. CASE i <= Len(u)
    BY <1>1, <1>2, <1>4, <1>5, <2>1, <2>2
  <2>3. CASE ~(i <= Len(u))
    <3>1. i - Len(u) \in 1..Len(v)
      BY <1>1, <1>2, <1>3, <2>1, <2>3
    <3>2. v[i - Len(u)] = s[(m + 1) + (i - Len(u)) - 1]
      BY <1>3, <3>1
    <3>3. (m + 1) + (i - Len(u)) - 1 = a + i - 1
      BY <1>1, <1>2, <2>1
    <3> QED BY <1>4, <1>5, <2>1, <2>3, <3>2, <3>3
  <2> QED BY <2>2, <2>3
<1>7. Len(w) = Len(Cat(u, v))
  BY <1>1, <1>2, <1>3, <1>4, <1>5
<1>8. w = Cat(u, v)
  BY <1>4, <1>5, <1>6, <1>7, SeqEqual
<1> QED BY <1>8 DEF u, v, w

-----------------------------------------------------------------------------
(* Skipping.                                                                *)

\* k is where skipping the classes from i on stops.
Stops(raw, i, classes, k) ==
  /\ k \in i..(Len(raw) + 1)
  /\ \A m \in i..(k - 1) : raw[m][1] \in classes
  /\ k <= Len(raw) => raw[k][1] \notin classes

LEMMA SkipStops ==
  ASSUME NEW S, NEW raw \in Seq(S), NEW i \in 1..(Len(raw) + 1), NEW classes
  PROVE  Stops(raw, i, classes, Skip(raw, i, classes))
<1> DEFINE past == {j \in i..Len(raw) : raw[j][1] \notin classes}
           k == Skip(raw, i, classes)
<1>0. Len(raw) \in Nat /\ i \in Nat /\ i <= Len(raw) + 1
  BY LenProperties
<1>1. CASE past = {}
  <2>1. k = Len(raw) + 1
    BY <1>1 DEF Skip
  <2>2. \A m \in i..Len(raw) : raw[m][1] \in classes
    BY <1>1
  <2> HIDE DEF k
  <2> QED BY <1>0, <2>1, <2>2 DEF Stops, k
<1>2. CASE past # {}
  <2>1. \E j \in past : \A m \in past : j <= m
    <3>1. past \subseteq Nat
      BY <1>0
    <3> HIDE DEF past
    <3> QED BY <1>2, <3>1, LeastNat
  <2>2. k \in past /\ \A m \in past : k <= m
    <3>1. k = CHOOSE j \in past : \A m \in past : j <= m
      BY <1>2 DEF Skip
    <3> HIDE DEF past, k
    <3> QED BY <2>1, <3>1
  <2> HIDE DEF k
  <2>3. \A m \in i..(k - 1) : raw[m][1] \in classes
    BY <1>0, <2>2
  <2>4. k \in i..Len(raw) /\ raw[k][1] \notin classes
    BY <2>2
  <2> QED BY <1>0, <2>3, <2>4 DEF Stops, k
<1> QED BY <1>1, <1>2

LEMMA StopsOnce ==
  ASSUME NEW S, NEW raw \in Seq(S), NEW i \in 1..(Len(raw) + 1), NEW classes,
         NEW k, NEW l, Stops(raw, i, classes, k), Stops(raw, i, classes, l)
  PROVE  k = l
<1>1. Len(raw) \in Nat /\ k \in Nat /\ l \in Nat
  BY LenProperties DEF Stops
<1>2. ~(k < l)
  BY <1>1 DEF Stops
<1>3. ~(l < k)
  BY <1>1 DEF Stops
<1> QED BY <1>1, <1>2, <1>3

-----------------------------------------------------------------------------
(* What is not space.                                                       *)

SolidChars == {c \in Chars : ~IsSpace(c)}

LEMMA SolidType ==
  ASSUME NEW text \in Seq(Chars) PROVE Solid(text) \in Seq(Chars)
BY OnlyType DEF Solid

LEMMA SolidCat ==
  ASSUME NEW s \in Seq(Chars), NEW t \in Seq(Chars)
  PROVE  Solid(Cat(s, t)) = Cat(Solid(s), Solid(t))
BY OnlyCat DEF Solid

LEMMA SolidEmpty == Solid(<<>>) = <<>>
BY OnlyEmpty DEF Solid

LEMMA SolidNone ==
  ASSUME NEW text \in Seq(Chars), \A i \in 1..Len(text) : IsSpace(text[i])
  PROVE  Solid(text) = <<>>
<1>1. \A i \in 1..Len(text) : text[i] \notin SolidChars
  BY DEF SolidChars
<1> QED BY <1>1, OnlyNone DEF Solid, SolidChars

-----------------------------------------------------------------------------
(* Trimming.                                                                *)

\* What trimming leaves goes from a to b.
IsTrim(text, a, b) ==
  /\ a \in 1..(Len(text) + 1)
  /\ b \in 0..Len(text)
  /\ \A i \in 1..(a - 1) : IsSpace(text[i])
  /\ \A i \in (b + 1)..Len(text) : IsSpace(text[i])
  /\ \/ a <= b /\ ~IsSpace(text[a]) /\ ~IsSpace(text[b])
     \/ a = Len(text) + 1 /\ b = 0
  /\ TrimSpace(text) = SubSeq(text, a, b)

LEMMA ReverseType ==
  ASSUME NEW S, NEW s \in Seq(S)
  PROVE  /\ Reverse(s) \in Seq(S)
         /\ Len(Reverse(s)) = Len(s)
         /\ \A i \in 1..Len(s) : Reverse(s)[i] = s[(Len(s) - i) + 1]
<1>1. Len(s) \in Nat /\ \A i \in 1..Len(s) : s[(Len(s) - i) + 1] \in S
  BY LenProperties, ElementOfSeq
<1> QED BY <1>1 DEF Reverse

LEMMA TrimFacts ==
  ASSUME NEW text \in Seq(Chars) PROVE \E a, b : IsTrim(text, a, b)
<1> DEFINE L == Len(text)
           r == Reverse(text)
           a == Skip(text, 1, Spaces)
           k == Skip(r, 1, Spaces)
           b == L + 1 - k
<1>1. L \in Nat /\ 1 \in 1..(L + 1)
  BY LenProperties
<1>2. /\ r \in Seq(Chars) /\ Len(r) = L
      /\ \A i \in 1..L : r[i] = text[(L - i) + 1]
  BY ReverseType
<1>3. Stops(text, 1, Spaces, a)
  BY <1>1, SkipStops
<1>4. Stops(r, 1, Spaces, k)
  <2> HIDE DEF r
  <2> QED BY <1>1, <1>2, SkipStops
<1>5. TrimSpace(text) = SubSeq(text, a, b)
  BY DEF TrimSpace, SkipSpaces
<1> HIDE DEF a, k, r
<1>6. /\ a \in 1..(L + 1) /\ \A i \in 1..(a - 1) : IsSpace(text[i])
      /\ a <= L => ~IsSpace(text[a])
  BY <1>1, <1>3 DEF Stops, IsSpace
<1>7. /\ k \in 1..(L + 1) /\ \A i \in 1..(k - 1) : IsSpace(r[i])
      /\ k <= L => ~IsSpace(r[k])
  BY <1>1, <1>2, <1>4 DEF Stops, IsSpace
<1>8. b \in 0..L /\ \A i \in (b + 1)..L : IsSpace(text[i])
  <2>1. b \in 0..L
    BY <1>1, <1>7
  <2>2. ASSUME NEW i \in (b + 1)..L PROVE IsSpace(text[i])
    <3>1. /\ (L - i) + 1 \in 1..(k - 1) /\ (L - i) + 1 \in 1..L
          /\ (L - ((L - i) + 1)) + 1 = i
      BY <1>1, <1>7, <2>1
    <3>2. r[(L - i) + 1] = text[i]
      BY <1>2, <3>1
    <3> QED BY <1>7, <3>1, <3>2
  <2> QED BY <2>1, <2>2
<1>9. b # 0 => ~IsSpace(text[b])
  <2> SUFFICES ASSUME b # 0 PROVE ~IsSpace(text[b])
    OBVIOUS
  <2>1. k <= L /\ k \in 1..L /\ (L - k) + 1 = b
    BY <1>1, <1>7, <1>8
  <2>2. r[k] = text[b]
    BY <1>2, <2>1
  <2> QED BY <1>7, <2>1, <2>2
<1>10. \/ a <= b /\ ~IsSpace(text[a]) /\ ~IsSpace(text[b])
       \/ a = L + 1 /\ b = 0
  <2> HIDE DEF b
  <2>1. CASE a = L + 1
    <3>1. b # 0 => b \in 1..(a - 1)
      BY <1>1, <1>8, <2>1
    <3> QED BY <1>6, <1>9, <2>1, <3>1
  <2>2. CASE a # L + 1
    <3>1. a <= L /\ a \in Nat /\ a >= 1
      BY <1>1, <1>6, <2>2
    <3>2. a <= b
      <4>1. ~(a <= b) => a \in (b + 1)..L
        BY <1>1, <1>8, <3>1
      <4> QED BY <1>6, <1>8, <3>1, <4>1
    <3>3. b # 0
      BY <1>8, <3>1, <3>2
    <3> QED BY <1>6, <1>9, <3>1, <3>2, <3>3
  <2> QED BY <2>1, <2>2
<1> HIDE DEF b
<1>11. IsTrim(text, a, b)
  BY <1>5, <1>6, <1>8, <1>10 DEF IsTrim
<1> QED BY <1>11

LEMMA TrimType ==
  ASSUME NEW text \in Seq(Chars) PROVE TrimSpace(text) \in Seq(Chars)
<1>1. PICK a, b : IsTrim(text, a, b)
  BY TrimFacts
<1>2. a \in 1..(Len(text) + 1) /\ b \in 0..Len(text)
  BY <1>1 DEF IsTrim
<1>3. SubSeq(text, a, b) \in Seq(Chars)
  BY <1>2, PieceType
<1> QED BY <1>1, <1>3 DEF IsTrim

\* Trimming takes nothing but space.
LEMMA TrimSolid ==
  ASSUME NEW text \in Seq(Chars) PROVE Solid(TrimSpace(text)) = Solid(text)
<1> DEFINE L == Len(text)
<1>0. L \in Nat
  BY LenProperties
<1>1. PICK a, b : IsTrim(text, a, b)
  BY TrimFacts
<1>2. a \in 1..(L + 1) /\ b \in 0..L /\ TrimSpace(text) = SubSeq(text, a, b)
  BY <1>1 DEF IsTrim
<1>3. CASE a <= b
  <2> DEFINE u == SubSeq(text, 1, a - 1)
             v == SubSeq(text, a, b)
             w == SubSeq(text, b + 1, L)
  <2>1. /\ 1 \in 1..(L + 1) /\ a - 1 \in 0..L /\ a \in 1..(L + 1)
        /\ b \in 0..L /\ b + 1 \in 1..(L + 1) /\ L \in 0..L
        /\ a - 1 \in (1 - 1)..L /\ L \in (a - 1)..L /\ b \in (a - 1)..L
        /\ L \in b..L /\ (a - 1) + 1 = a
    BY <1>0, <1>2, <1>3
  <2>2. SubSeq(text, 1, L) = Cat(u, SubSeq(text, (a - 1) + 1, L))
    BY <2>1, PieceCat
  <2>3. SubSeq(text, a, L) = Cat(v, w)
    BY <2>1, PieceCat
  <2>4. text = Cat(u, Cat(v, w))
    <3>1. SubSeq(text, 1, L) = text
      BY PieceAll
    <3>2. SubSeq(text, (a - 1) + 1, L) = SubSeq(text, a, L)
      BY <2>1
    <3> QED BY <2>2, <2>3, <3>1, <3>2, Zenon
  <2>5. /\ u \in Seq(Chars)
        /\ Len(u) = IF 1 <= a - 1 THEN (a - 1) - 1 + 1 ELSE 0
        /\ \A i \in 1..Len(u) : u[i] = text[1 + i - 1]
    BY <2>1, PieceType
  <2>6. v \in Seq(Chars)
    BY <2>1, PieceType
  <2>7. /\ w \in Seq(Chars)
        /\ Len(w) = IF b + 1 <= L THEN L - (b + 1) + 1 ELSE 0
        /\ \A i \in 1..Len(w) : w[i] = text[(b + 1) + i - 1]
    BY <2>1, PieceType
  <2> HIDE DEF u, v, w
  <2>8. Solid(u) = <<>>
    <3>1. \A i \in 1..Len(u) : IsSpace(u[i])
      <4>1. \A i \in 1..Len(u) : 1 + i - 1 \in 1..(a - 1)
        BY <1>0, <1>2, <2>5
      <4>2. \A i \in 1..(a - 1) : IsSpace(text[i])
        BY <1>1 DEF IsTrim
      <4> QED BY <2>5, <4>1, <4>2
    <3> QED BY <2>5, <3>1, SolidNone
  <2>9. Solid(w) = <<>>
    <3>1. \A i \in 1..Len(w) : IsSpace(w[i])
      <4>1. \A i \in 1..Len(w) : (b + 1) + i - 1 \in (b + 1)..L
        BY <1>0, <1>2, <2>7
      <4>2. \A i \in (b + 1)..L : IsSpace(text[i])
        BY <1>1 DEF IsTrim
      <4> QED BY <2>7, <4>1, <4>2
    <3> QED BY <2>7, <3>1, SolidNone
  <2>10. Solid(Cat(u, Cat(v, w))) = Cat(Solid(u), Cat(Solid(v), Solid(w)))
    <3>1. Cat(v, w) \in Seq(Chars)
      BY <2>6, <2>7, CatType
    <3>2. Solid(Cat(u, Cat(v, w))) = Cat(Solid(u), Solid(Cat(v, w)))
      BY <2>5, <3>1, SolidCat
    <3> QED BY <2>6, <2>7, <3>2, SolidCat
  <2>11. Cat(<<>>, Cat(Solid(v), <<>>)) = Solid(v)
    <3>1. Solid(v) \in Seq(Chars)
      BY <2>6, SolidType
    <3>2. Cat(Solid(v), <<>>) = Solid(v) /\ Cat(<<>>, Solid(v)) = Solid(v)
      BY <3>1, CatEmpty
    <3> QED BY <3>2, Zenon
  <2>12. Solid(text) = Solid(v)
    BY <2>4, <2>8, <2>9, <2>10, <2>11, Zenon
  <2> QED BY <1>2, <2>12 DEF v
<1>4. CASE ~(a <= b)
  <2>1. b = 0 /\ \A i \in (b + 1)..L : IsSpace(text[i])
    BY <1>1, <1>4 DEF IsTrim
  <2>2. \A i \in 1..L : IsSpace(text[i])
    BY <2>1
  <2>3. Solid(text) = <<>>
    BY <2>2, SolidNone
  <2>4. SubSeq(text, a, b) = <<>>
    <3>1. a \in Int /\ b \in Int /\ b < a
      BY <1>0, <1>2, <1>4
    <3> QED BY <3>1, SubSeqEmpty
  <2>5. Solid(SubSeq(text, a, b)) = <<>>
    BY <2>4, SolidEmpty, Zenon
  <2> QED BY <1>2, <2>3, <2>5
<1> QED BY <1>3, <1>4

\* What has no space at its ends stays as it is.
LEMMA TrimSame ==
  ASSUME NEW t \in Seq(Chars),
         t = <<>> \/ (~IsSpace(t[1]) /\ ~IsSpace(t[Len(t)]))
  PROVE  TrimSpace(t) = t
<1> DEFINE L == Len(t)
<1>0. L \in Nat
  BY LenProperties
<1>1. PICK a, b : IsTrim(t, a, b)
  BY TrimFacts
<1>2. a \in 1..(L + 1) /\ b \in 0..L /\ TrimSpace(t) = SubSeq(t, a, b)
  BY <1>1 DEF IsTrim
<1>3. a = 1
  <2>1. CASE t = <<>>
    <3>1. L = 0
      BY <2>1
    <3> QED BY <1>2, <3>1
  <2>2. CASE t # <<>>
    <3>1. L # 0
      BY <2>2, EmptySeq
    <3>2. a # 1 => 1 \in 1..(a - 1)
      BY <1>0, <1>2
    <3>3. ~IsSpace(t[1])
      BY <2>2
    <3> QED BY <1>1, <3>2, <3>3 DEF IsTrim
  <2> QED BY <2>1, <2>2
<1>4. b = L
  <2>1. CASE t = <<>>
    <3>1. L = 0
      BY <2>1
    <3> QED BY <1>2, <3>1
  <2>2. CASE t # <<>>
    <3>1. L # 0
      BY <2>2, EmptySeq
    <3>2. b # L => L \in (b + 1)..L
      BY <1>0, <1>2
    <3>3. ~IsSpace(t[L])
      BY <2>2
    <3> QED BY <1>1, <3>2, <3>3 DEF IsTrim
  <2> QED BY <2>1, <2>2
<1>5. SubSeq(t, 1, L) = t
  BY PieceAll
<1> QED BY <1>2, <1>3, <1>4, <1>5

LEMMA TrimTwice ==
  ASSUME NEW text \in Seq(Chars)
  PROVE  TrimSpace(TrimSpace(text)) = TrimSpace(text)
<1> DEFINE t == TrimSpace(text)
<1>0. Len(text) \in Nat
  BY LenProperties
<1>1. PICK a, b : IsTrim(text, a, b)
  BY TrimFacts
<1>2. /\ a \in 1..(Len(text) + 1) /\ b \in 0..Len(text)
      /\ t = SubSeq(text, a, b)
  BY <1>1 DEF IsTrim
<1>3. /\ t \in Seq(Chars) /\ Len(t) = IF a <= b THEN b - a + 1 ELSE 0
      /\ \A i \in 1..Len(t) : t[i] = text[a + i - 1]
  BY <1>2, PieceType
<1> HIDE DEF t
<1>4. t = <<>> \/ (~IsSpace(t[1]) /\ ~IsSpace(t[Len(t)]))
  <2>1. CASE ~(a <= b)
    BY <1>3, <2>1, EmptySeq
  <2>2. CASE a <= b
    <3>1. /\ 1 \in 1..Len(t) /\ Len(t) \in 1..Len(t)
          /\ a + 1 - 1 = a /\ a + Len(t) - 1 = b
      BY <1>0, <1>2, <1>3, <2>2
    <3>2. t[1] = text[a] /\ t[Len(t)] = text[b]
      BY <1>3, <3>1
    <3>3. ~IsSpace(text[a]) /\ ~IsSpace(text[b])
      <4>1. a # Len(text) + 1 \/ b # 0
        BY <1>0, <1>2, <2>2
      <4> QED BY <1>1, <4>1 DEF IsTrim
    <3> QED BY <3>2, <3>3
  <2> QED BY <2>1, <2>2
<1>5. TrimSpace(t) = t
  BY <1>3, <1>4, TrimSame
<1> QED BY <1>5 DEF t

-----------------------------------------------------------------------------
(* Sentences.                                                               *)

\* What may be spoken: no blank text, no space at the ends.
Speakable == {t \in Seq(Chars) \ {<<>>} : TrimSpace(t) = t}

LEMMA SpeakableSeq ==
  ASSUME NEW out \in Seq(Speakable)
  PROVE  out \in Seq(Seq(Chars)) /\ out \in Seq(Seq(Chars) \ {<<>>})
<1>1. Speakable \subseteq Seq(Chars) /\ Speakable \subseteq Seq(Chars) \ {<<>>}
  BY DEF Speakable
<1> QED BY <1>1, SeqMonotonic

LEMMA SentenceFacts ==
  ASSUME NEW text \in Seq(Chars)
  PROVE  /\ Sentence(text) \in Seq(Speakable)
         /\ Solid(FlattenSeq(Sentence(text))) = Solid(text)
<1> DEFINE t == TrimSpace(text)
<1>1. t \in Seq(Chars) /\ TrimSpace(t) = t /\ Solid(t) = Solid(text)
  BY TrimType, TrimTwice, TrimSolid
<1>2. Sentence(text) = IF t = <<>> THEN <<>> ELSE One(t)
  BY DEF Sentence, One
<1> HIDE DEF t
<1>3. CASE t = <<>>
  <2>1. Sentence(text) = <<>>
    BY <1>2, <1>3
  <2>2. Solid(<<>>) = Solid(text)
    BY <1>1, <1>3
  <2>3. <<>> \in Seq(Speakable)
    OBVIOUS
  <2> QED BY <2>1, <2>2, <2>3, FlattenEmpty, Zenon
<1>4. CASE t # <<>>
  <2>1. Sentence(text) = One(t)
    BY <1>2, <1>4
  <2>2. t \in Speakable
    BY <1>1, <1>4 DEF Speakable
  <2>3. One(t) \in Seq(Speakable)
    BY <2>2 DEF One
  <2>4. FlattenSeq(One(t)) = t
    BY <1>1, FlattenOne
  <2> QED BY <1>1, <2>1, <2>3, <2>4, Zenon
<1> QED BY <1>3, <1>4

\* A sentence that may be spoken has something to say.
LEMMA SpeakableSolid ==
  ASSUME NEW left \in Seq(Speakable), Solid(FlattenSeq(left)) = <<>>
  PROVE  left = <<>>
<1> SUFFICES ASSUME left # <<>> PROVE FALSE
  OBVIOUS
<1> DEFINE h == Head(left)
           r == Tail(left)
<1>1. h \in Speakable /\ r \in Seq(Speakable) /\ left = Cat(One(h), r)
  BY CatHeadTail
<1> HIDE DEF h, r
<1>2. h \in Seq(Chars) /\ h # <<>> /\ TrimSpace(h) = h
  BY <1>1 DEF Speakable
<1>3. r \in Seq(Seq(Chars)) /\ One(h) \in Seq(Seq(Chars))
  BY <1>1, <1>2, SpeakableSeq DEF One
<1>4. Solid(FlattenSeq(left)) = Cat(Solid(h), Solid(FlattenSeq(r)))
  <2>1. FlattenSeq(Cat(One(h), r)) = Cat(FlattenSeq(One(h)), FlattenSeq(r))
    BY <1>3, FlattenCat
  <2>2. FlattenSeq(One(h)) = h
    BY <1>2, FlattenOne
  <2>3. FlattenSeq(r) \in Seq(Chars)
    BY <1>3, FlattenType
  <2>4. Solid(Cat(h, FlattenSeq(r))) = Cat(Solid(h), Solid(FlattenSeq(r)))
    BY <1>2, <2>3, SolidCat
  <2> QED BY <1>1, <2>1, <2>2, <2>4, Zenon
<1>5. Solid(h) \in Seq(Chars) /\ Solid(FlattenSeq(r)) \in Seq(Chars)
  BY <1>2, <1>3, FlattenType, SolidType
<1>6. Len(Solid(h)) > 0
  <2> DEFINE c == Head(h)
             s == Tail(h)
  <2>1. c \in Chars /\ s \in Seq(Chars) /\ h = Cat(One(c), s) /\ c = h[1]
    BY <1>2, CatHeadTail
  <2> HIDE DEF c, s
  <2>2. ~IsSpace(c)
    <3>1. PICK a, b : IsTrim(h, a, b)
      BY <1>2, TrimFacts
    <3>2. /\ a \in 1..(Len(h) + 1) /\ b \in 0..Len(h)
          /\ SubSeq(h, a, b) = h
      BY <1>2, <3>1 DEF IsTrim
    <3>3. Len(h) \in Nat /\ Len(h) > 0
      BY <1>2, LenProperties, EmptySeq
    <3>4. Len(SubSeq(h, a, b)) = IF a <= b THEN b - a + 1 ELSE 0
      BY <1>2, <3>2, PieceType
    <3>5. a = 1 /\ a <= b
      BY <3>2, <3>3, <3>4
    <3>6. ~IsSpace(h[a])
      <4>1. a # Len(h) + 1
        BY <3>3, <3>5
      <4> QED BY <3>1, <4>1 DEF IsTrim
    <3> QED BY <2>1, <3>5, <3>6
  <2>3. Only(One(c), SolidChars) = One(c)
    BY <2>1, <2>2, OnlyOne DEF SolidChars
  <2>4. One(c) \in Seq(Chars)
    BY <2>1 DEF One
  <2>5. Solid(h) = Cat(One(c), Solid(s))
    <3>1. Solid(Cat(One(c), s)) = Cat(Solid(One(c)), Solid(s))
      BY <2>1, <2>4, SolidCat
    <3> QED BY <2>1, <2>3, <3>1, Zenon DEF Solid, SolidChars
  <2>6. Solid(s) \in Seq(Chars) /\ Len(Solid(s)) \in Nat
    BY <2>1, SolidType, LenProperties
  <2>7. Len(Cat(One(c), Solid(s))) = Len(One(c)) + Len(Solid(s))
    BY <2>4, <2>6, ConcatProperties DEF Cat
  <2>8. Len(One(c)) = 1
    BY DEF One
  <2> QED BY <2>5, <2>6, <2>7, <2>8
<1>7. Len(Cat(Solid(h), Solid(FlattenSeq(r))))
        = Len(Solid(h)) + Len(Solid(FlattenSeq(r)))
  BY <1>5, ConcatProperties DEF Cat
<1>8. Len(Solid(FlattenSeq(left))) > 0
  BY <1>4, <1>5, <1>6, <1>7, LenProperties
<1> QED BY <1>8

-----------------------------------------------------------------------------
(* Splitting.                                                               *)

\* No sentence ends at start or later.
NoEnd(raw, flush, start) == \A i \in Ends(raw, flush) : i < start

NextStart(raw, flush, start) == SkipSpaces(raw, EndFrom(raw, flush, start))

\* Between the end of a sentence and the start of the next is space.
LEMMA EndFacts ==
  ASSUME NEW raw \in Seq(Chars), NEW flush, NEW start \in 1..(Len(raw) + 1),
         ~NoEnd(raw, flush, start)
  PROVE  /\ EndFrom(raw, flush, start) \in (start + 1)..(Len(raw) + 1)
         /\ NextStart(raw, flush, start)
              \in EndFrom(raw, flush, start)..(Len(raw) + 1)
         /\ \A m \in EndFrom(raw, flush, start)..
                     (NextStart(raw, flush, start) - 1) : IsSpace(raw[m])
<1> DEFINE L == Len(raw)
           T == {k \in Ends(raw, flush) : k >= start}
           i == CHOOSE k \in Ends(raw, flush) :
                  k >= start /\ \A m \in Ends(raw, flush) : m >= start => k <= m
           e == EndFrom(raw, flush, start)
           k == NextStart(raw, flush, start)
<1>1. L \in Nat /\ start \in Nat /\ start >= 1
  BY LenProperties
<1>2. Ends(raw, flush) \subseteq 1..L
  BY DEF Ends
<1>3. T # {} /\ T \subseteq Nat
  BY <1>1, <1>2 DEF NoEnd
<1>4. PICK n \in T : \A m \in T : n <= m
  <2> HIDE DEF T
  <2> QED BY <1>3, LeastNat
<1>5. i \in Ends(raw, flush) /\ i >= start
  <2>1. \E j \in Ends(raw, flush) :
          j >= start /\ \A m \in Ends(raw, flush) : m >= start => j <= m
    BY <1>4
  <2> QED BY <2>1
<1>6. e = SkipClosers(raw, i + 1)
  BY DEF EndFrom
<1> HIDE DEF i, e, k
<1>7. i + 1 \in 1..(L + 1)
  BY <1>1, <1>2, <1>5
<1>8. Stops(raw, i + 1, {"closer"}, e)
  BY <1>6, <1>7, SkipStops DEF SkipClosers
<1>9. e \in (start + 1)..(L + 1)
  BY <1>1, <1>2, <1>5, <1>8 DEF Stops
<1>10. Stops(raw, e, Spaces, k)
  <2>1. e \in 1..(L + 1)
    BY <1>1, <1>9
  <2>2. k = Skip(raw, e, Spaces)
    BY DEF k, e, NextStart, SkipSpaces
  <2> QED BY <2>1, <2>2, SkipStops
<1> QED BY <1>9, <1>10 DEF Stops, IsSpace, e, k

\* What splitting returns.
Splits(raw) == [out : Seq(Speakable), start : 1..(Len(raw) + 1)]

\* The local function of SplitSentences.
SplitOf(raw, flush) ==
  CHOOSE split : split =
    [start \in 1..(Len(raw) + 1) |->
        IF \A i \in Ends(raw, flush) : i < start
        THEN IF flush
             THEN [out |-> Sentence(SubSeq(raw, start, Len(raw))),
                   start |-> Len(raw) + 1]
             ELSE [out |-> <<>>, start |-> start]
        ELSE LET end == EndFrom(raw, flush, start)
                 rest == split[SkipSpaces(raw, end)]
             IN  [out |-> Sentence(SubSeq(raw, start, end - 1)) \o rest.out,
                  start |-> rest.start]]

\* The text of the sentence that starts at start, and the result when it is
\* the last.
Before(raw, flush, start) == SubSeq(raw, start, EndFrom(raw, flush, start) - 1)

Final(raw, flush, start) ==
  IF flush
  THEN [out |-> Sentence(SubSeq(raw, start, Len(raw))), start |-> Len(raw) + 1]
  ELSE [out |-> <<>>, start |-> start]

\* Its equations.
IsSplit(f, raw, flush) ==
  \A s \in 1..(Len(raw) + 1) :
    f[s] = IF NoEnd(raw, flush, s) THEN Final(raw, flush, s)
           ELSE [out |-> Cat(Sentence(Before(raw, flush, s)),
                             f[NextStart(raw, flush, s)].out),
                 start |-> f[NextStart(raw, flush, s)].start]

LEMMA SplitTypes ==
  ASSUME NEW raw \in Seq(Chars), NEW flush \in BOOLEAN,
         NEW s \in 1..(Len(raw) + 1)
  PROVE  /\ Final(raw, flush, s) \in Splits(raw)
         /\ ~NoEnd(raw, flush, s) =>
              Sentence(Before(raw, flush, s)) \in Seq(Speakable)
<1>0. Len(raw) \in Nat /\ Len(raw) + 1 \in 1..(Len(raw) + 1)
      /\ Len(raw) \in 0..Len(raw)
  BY LenProperties
<1>1. Final(raw, flush, s) \in Splits(raw)
  <2>1. Sentence(SubSeq(raw, s, Len(raw))) \in Seq(Speakable)
    BY <1>0, PieceType, SentenceFacts
  <2>2. <<>> \in Seq(Speakable)
    OBVIOUS
  <2> QED BY <1>0, <2>1, <2>2, Zenon DEF Final, Splits
<1>2. ASSUME ~NoEnd(raw, flush, s)
      PROVE  Sentence(Before(raw, flush, s)) \in Seq(Speakable)
  <2>1. EndFrom(raw, flush, s) \in (s + 1)..(Len(raw) + 1)
    BY <1>2, EndFacts
  <2>2. EndFrom(raw, flush, s) - 1 \in 0..Len(raw)
    BY <1>0, <2>1
  <2>3. Before(raw, flush, s) \in Seq(Chars)
    BY <2>2, PieceType DEF Before
  <2> QED BY <2>3, SentenceFacts
<1> QED BY <1>1, <1>2

LEMMA SplitExists ==
  ASSUME NEW raw \in Seq(Chars), NEW flush \in BOOLEAN
  PROVE  \E f \in [1..(Len(raw) + 1) -> Splits(raw)] : IsSplit(f, raw, flush)
<1> DEFINE N == Len(raw) + 1
           V == Splits(raw)
           none == [out |-> <<>>, start |-> 1]
           F == [s \in 1..N |-> [v \in V |->
                   IF NoEnd(raw, flush, s) THEN Final(raw, flush, s)
                   ELSE [out |-> Cat(Sentence(Before(raw, flush, s)), v.out),
                         start |-> v.start]]]
           next == [s \in 1..N |-> IF NoEnd(raw, flush, s) THEN N + 1
                                   ELSE NextStart(raw, flush, s)]
<1>1. N \in Nat /\ 1 \in 1..N
  BY LenProperties
<1>2. none \in V
  <2>1. <<>> \in Seq(Speakable)
    OBVIOUS
  <2> QED BY <1>1, <2>1, Zenon DEF Splits
<1>3. \A s \in 1..N : ~NoEnd(raw, flush, s) =>
        NextStart(raw, flush, s) \in (s + 1)..N
  <2> SUFFICES ASSUME NEW s \in 1..N, ~NoEnd(raw, flush, s)
               PROVE  NextStart(raw, flush, s) \in (s + 1)..N
    OBVIOUS
  <2>1. /\ EndFrom(raw, flush, s) \in (s + 1)..N
        /\ NextStart(raw, flush, s) \in EndFrom(raw, flush, s)..N
    BY EndFacts
  <2> QED BY <1>1, <2>1
<1>4. F \in Steps(N, V)
  <2>1. ASSUME NEW s \in 1..N, NEW v \in V, ~NoEnd(raw, flush, s)
        PROVE  [out |-> Cat(Sentence(Before(raw, flush, s)), v.out),
                start |-> v.start] \in V
    <3>1. v.out \in Seq(Speakable) /\ v.start \in 1..N
      BY DEF Splits
    <3>2. Sentence(Before(raw, flush, s)) \in Seq(Speakable)
      BY <2>1, SplitTypes
    <3>3. Cat(Sentence(Before(raw, flush, s)), v.out) \in Seq(Speakable)
      BY <3>1, <3>2, CatType
    <3> QED BY <3>1, <3>3, Zenon DEF Splits
  <2>2. \A s \in 1..N : Final(raw, flush, s) \in V
    BY SplitTypes
  <2> HIDE DEF V, N
  <2> QED BY <2>1, <2>2, Zenon DEF Steps
<1>5. next \in Jumps(N)
  <2> HIDE DEF N
  <2> QED BY <1>1, <1>3 DEF Jumps
<1>6. PICK f \in [1..N -> V] : \A s \in 1..N :
        f[s] = F[s][IF next[s] <= N THEN f[next[s]] ELSE none]
  <2> HIDE DEF F, V, N, none, next
  <2> QED BY <1>1, <1>2, <1>4, <1>5, LaterRecursion
<1>7. \A s \in 1..N :
        f[s] = IF NoEnd(raw, flush, s) THEN Final(raw, flush, s)
               ELSE [out |-> Cat(Sentence(Before(raw, flush, s)),
                                 f[NextStart(raw, flush, s)].out),
                     start |-> f[NextStart(raw, flush, s)].start]
  <2> SUFFICES ASSUME NEW s \in 1..N
               PROVE  f[s] = IF NoEnd(raw, flush, s) THEN Final(raw, flush, s)
                             ELSE [out |-> Cat(Sentence(Before(raw, flush, s)),
                                             f[NextStart(raw, flush, s)].out),
                                   start |-> f[NextStart(raw, flush, s)].start]
    OBVIOUS
  <2> HIDE DEF V, N, none
  <2>1. CASE NoEnd(raw, flush, s)
    <3>1. ~(next[s] <= N)
      BY <1>1, <2>1
    <3>2. f[s] = F[s][none]
      BY <1>6, <3>1, Zenon
    <3>3. F[s][none] = Final(raw, flush, s)
      BY <1>2, <2>1, Zenon
    <3> QED BY <2>1, <3>2, <3>3
  <2>2. CASE ~NoEnd(raw, flush, s)
    <3> DEFINE k == NextStart(raw, flush, s)
    <3>1. next[s] = k /\ k \in 1..N /\ k <= N
      BY <1>1, <1>3, <2>2
    <3> HIDE DEF k
    <3>2. f[s] = F[s][f[k]]
      BY <1>6, <3>1, Zenon
    <3>3. f[k] \in V
      BY <3>1
    <3>4. F[s][f[k]] = [out |-> Cat(Sentence(Before(raw, flush, s)), f[k].out),
                        start |-> f[k].start]
      BY <2>2, <3>3, Zenon
    <3> QED BY <2>2, <3>2, <3>4, Zenon DEF k
  <2> QED BY <2>1, <2>2
<1>8. IsSplit(f, raw, flush)
  BY <1>7, Zenon DEF IsSplit
<1> QED BY <1>8

LEMMA SplitOfDef ==
  ASSUME NEW raw \in Seq(Chars), NEW flush \in BOOLEAN
  PROVE  /\ SplitSentences(raw, flush) = SplitOf(raw, flush)[1]
         /\ IsSplit(SplitOf(raw, flush), raw, flush)
<1> DEFINE Rec(split) ==
    [start \in 1..(Len(raw) + 1) |->
        IF \A i \in Ends(raw, flush) : i < start
        THEN IF flush
             THEN [out |-> Sentence(SubSeq(raw, start, Len(raw))),
                   start |-> Len(raw) + 1]
             ELSE [out |-> <<>>, start |-> start]
        ELSE LET end == EndFrom(raw, flush, start)
                 rest == split[SkipSpaces(raw, end)]
             IN  [out |-> Sentence(SubSeq(raw, start, end - 1)) \o rest.out,
                  start |-> rest.start]]
<1>1. PICK f \in [1..(Len(raw) + 1) -> Splits(raw)] : IsSplit(f, raw, flush)
  BY SplitExists
<1>2. f = Rec(f)
  <2>1. \A s \in 1..(Len(raw) + 1) : f[s] = Rec(f)[s]
    BY <1>1, Zenon DEF IsSplit, NoEnd, Final, Cat, Before, NextStart
  <2> HIDE DEF Rec
  <2>2. DOMAIN Rec(f) = 1..(Len(raw) + 1)
    BY Zenon DEF Rec
  <2>3. Rec(f) = [s \in 1..(Len(raw) + 1) |-> Rec(f)[s]]
    BY Zenon DEF Rec
  <2> QED BY <2>1, <2>3
<1>3. SplitOf(raw, flush) = Rec(SplitOf(raw, flush))
  BY <1>2, Zenon DEF SplitOf
<1> DEFINE o == SplitOf(raw, flush)
<1>4. IsSplit(o, raw, flush)
  <2> HIDE DEF o
  <2>1. o = Rec(o)
    BY <1>3 DEF o
  <2>2. \A s \in 1..(Len(raw) + 1) : o[s] = Rec(o)[s]
    BY <2>1, Zenon
  <2> QED BY <2>2, Zenon
      DEF IsSplit, NoEnd, Final, Cat, Before, NextStart
<1>5. SplitSentences(raw, flush) = o[1]
  BY DEF SplitSentences, SplitOf
<1> QED BY <1>4, <1>5

-----------------------------------------------------------------------------
(* What splitting keeps.                                                    *)

\* From s on: the sentences and the rest are the text, but for its spaces, and
\* no sentence ends in the rest.
Keeps(raw, flush, s, r) ==
  /\ r \in Splits(raw)
  /\ s <= r.start
  /\ Cat(Solid(FlattenSeq(r.out)), Solid(SubSeq(raw, r.start, Len(raw))))
       = Solid(SubSeq(raw, s, Len(raw)))
  /\ flush => r.start = Len(raw) + 1
  /\ ~flush => NoEnd(raw, flush, r.start)

LEMMA KeepsFinal ==
  ASSUME NEW raw \in Seq(Chars), NEW flush \in BOOLEAN,
         NEW s \in 1..(Len(raw) + 1), NoEnd(raw, flush, s)
  PROVE  Keeps(raw, flush, s, Final(raw, flush, s))
<1> DEFINE L == Len(raw)
           text == SubSeq(raw, s, L)
           r == Final(raw, flush, s)
<1>0. L \in Nat /\ L \in 0..L /\ L + 1 \in 1..(L + 1)
  BY LenProperties
<1>1. r \in Splits(raw)
  BY SplitTypes
<1>2. text \in Seq(Chars) /\ Solid(text) \in Seq(Chars)
  BY <1>0, PieceType, SolidType
<1>3. CASE flush
  <2>1. r.out = Sentence(text) /\ r.start = L + 1
    BY <1>3 DEF Final
  <2>2. Solid(FlattenSeq(Sentence(text))) = Solid(text)
    BY <1>2, SentenceFacts
  <2>3. Solid(SubSeq(raw, L + 1, L)) = <<>>
    <3>1. SubSeq(raw, L + 1, L) = <<>>
      BY <1>0, SubSeqEmpty
    <3> QED BY <3>1, SolidEmpty, Zenon
  <2>4. Cat(Solid(text), <<>>) = Solid(text)
    BY <1>2, CatEmpty
  <2>5. Cat(Solid(FlattenSeq(r.out)), Solid(SubSeq(raw, r.start, L))) = Solid(text)
    BY <2>1, <2>2, <2>3, <2>4, Zenon
  <2>6. s <= r.start
    BY <1>0, <2>1
  <2> HIDE DEF r
  <2> QED BY <1>1, <1>3, <2>1, <2>5, <2>6 DEF Keeps, r
<1>4. CASE ~flush
  <2>1. r.out = <<>> /\ r.start = s
    BY <1>4 DEF Final
  <2>2. Cat(<<>>, Solid(text)) = Solid(text)
    BY <1>2, CatEmpty
  <2>3. Cat(Solid(FlattenSeq(r.out)), Solid(SubSeq(raw, r.start, L))) = Solid(text)
    BY <2>1, <2>2, FlattenEmpty, SolidEmpty, Zenon
  <2>4. s <= r.start
    BY <1>0, <2>1
  <2> HIDE DEF r
  <2> QED BY <1>1, <1>4, <2>1, <2>3, <2>4 DEF Keeps, r
<1> QED BY <1>3, <1>4

\* Text, the spaces after it, and what follows.
LEMMA SolidPieces ==
  ASSUME NEW raw \in Seq(Chars), NEW s \in 1..(Len(raw) + 1),
         NEW e \in s..(Len(raw) + 1), NEW k \in e..(Len(raw) + 1),
         \A m \in e..(k - 1) : IsSpace(raw[m])
  PROVE  /\ SubSeq(raw, s, e - 1) \in Seq(Chars)
         /\ SubSeq(raw, k, Len(raw)) \in Seq(Chars)
         /\ Solid(SubSeq(raw, s, Len(raw)))
              = Cat(Solid(SubSeq(raw, s, e - 1)), Solid(SubSeq(raw, k, Len(raw))))
<1> DEFINE L == Len(raw)
           u == SubSeq(raw, s, e - 1)
           v == SubSeq(raw, e, k - 1)
           w == SubSeq(raw, k, L)
<1>1. /\ L \in Nat /\ s \in Nat /\ e \in Nat /\ k \in Nat
      /\ e \in 1..(L + 1) /\ k \in 1..(L + 1)
      /\ e - 1 \in 0..L /\ k - 1 \in 0..L /\ L \in 0..L
      /\ e - 1 \in (s - 1)..L /\ L \in (e - 1)..L /\ k - 1 \in (e - 1)..L
      /\ L \in (k - 1)..L /\ (e - 1) + 1 = e /\ (k - 1) + 1 = k
  BY LenProperties
<1>2. SubSeq(raw, s, L) = Cat(u, SubSeq(raw, (e - 1) + 1, L))
  BY <1>1, PieceCat
<1>3. SubSeq(raw, e, L) = Cat(v, SubSeq(raw, (k - 1) + 1, L))
  BY <1>1, PieceCat
<1>4. SubSeq(raw, s, L) = Cat(u, Cat(v, w))
  BY <1>1, <1>2, <1>3, Zenon
<1>5. u \in Seq(Chars) /\ w \in Seq(Chars)
  BY <1>1, PieceType
<1>6. /\ v \in Seq(Chars)
      /\ Len(v) = IF e <= k - 1 THEN (k - 1) - e + 1 ELSE 0
      /\ \A i \in 1..Len(v) : v[i] = raw[e + i - 1]
  BY <1>1, PieceType
<1> HIDE DEF u, v, w
<1>7. Solid(v) = <<>>
  <2>1. \A i \in 1..Len(v) : e + i - 1 \in e..(k - 1)
    BY <1>1, <1>6
  <2>2. \A i \in 1..Len(v) : IsSpace(v[i])
    BY <1>6, <2>1
  <2> QED BY <1>6, <2>2, SolidNone
<1>8. Solid(Cat(v, w)) = Solid(w)
  <2>1. Solid(Cat(v, w)) = Cat(Solid(v), Solid(w))
    BY <1>5, <1>6, SolidCat
  <2>2. Cat(<<>>, Solid(w)) = Solid(w)
    BY <1>5, SolidType, CatEmpty
  <2> QED BY <1>7, <2>1, <2>2, Zenon
<1>9. Solid(Cat(u, Cat(v, w))) = Cat(Solid(u), Solid(w))
  <2>1. Cat(v, w) \in Seq(Chars)
    BY <1>5, <1>6, CatType
  <2>2. Solid(Cat(u, Cat(v, w))) = Cat(Solid(u), Solid(Cat(v, w)))
    BY <1>5, <2>1, SolidCat
  <2> QED BY <1>8, <2>2
<1>10. Solid(SubSeq(raw, s, L)) = Cat(Solid(u), Solid(w))
  BY <1>4, <1>9, Zenon
<1> QED BY <1>5, <1>10 DEF u, w

LEMMA KeepsStep ==
  ASSUME NEW raw \in Seq(Chars), NEW flush \in BOOLEAN,
         NEW s \in 1..(Len(raw) + 1), ~NoEnd(raw, flush, s),
         NEW v, Keeps(raw, flush, NextStart(raw, flush, s), v)
  PROVE  Keeps(raw, flush, s,
               [out |-> Cat(Sentence(Before(raw, flush, s)), v.out),
                start |-> v.start])
<1> DEFINE L == Len(raw)
           e == EndFrom(raw, flush, s)
           k == NextStart(raw, flush, s)
           text == Before(raw, flush, s)
           one == Sentence(text)
           rest == Solid(SubSeq(raw, v.start, L))
           r == [out |-> Cat(one, v.out), start |-> v.start]
<1>0. L \in Nat
  BY LenProperties
<1>1. /\ e \in (s + 1)..(L + 1) /\ k \in e..(L + 1)
      /\ \A m \in e..(k - 1) : IsSpace(raw[m])
  BY EndFacts
<1>2. /\ e \in s..(L + 1) /\ s < k
  BY <1>0, <1>1
<1>3. /\ v.out \in Seq(Speakable) /\ v.start \in 1..(L + 1) /\ k <= v.start
      /\ Cat(Solid(FlattenSeq(v.out)), rest) = Solid(SubSeq(raw, k, L))
      /\ flush => v.start = L + 1
      /\ ~flush => NoEnd(raw, flush, v.start)
  BY Zenon DEF Keeps, Splits
<1> HIDE DEF e, k
<1>4. /\ text \in Seq(Chars)
      /\ Solid(SubSeq(raw, s, L)) = Cat(Solid(text), Solid(SubSeq(raw, k, L)))
  BY <1>1, <1>2, SolidPieces DEF Before, e
<1> HIDE DEF text
<1>5. one \in Seq(Speakable) /\ Solid(FlattenSeq(one)) = Solid(text)
  BY <1>4, SentenceFacts
<1> HIDE DEF one
<1>6. Cat(one, v.out) \in Seq(Speakable)
  BY <1>3, <1>5, CatType
<1>7. Solid(FlattenSeq(Cat(one, v.out))) = Cat(Solid(text), Solid(FlattenSeq(v.out)))
  <2>1. one \in Seq(Seq(Chars)) /\ v.out \in Seq(Seq(Chars))
    BY <1>3, <1>5, SpeakableSeq
  <2>2. FlattenSeq(Cat(one, v.out)) = Cat(FlattenSeq(one), FlattenSeq(v.out))
    BY <2>1, FlattenCat
  <2>3. FlattenSeq(one) \in Seq(Chars) /\ FlattenSeq(v.out) \in Seq(Chars)
    BY <2>1, FlattenType
  <2>4. Solid(Cat(FlattenSeq(one), FlattenSeq(v.out)))
          = Cat(Solid(FlattenSeq(one)), Solid(FlattenSeq(v.out)))
    BY <2>3, SolidCat
  <2> QED BY <1>5, <2>2, <2>4, Zenon
<1>8. /\ Solid(text) \in Seq(Chars)
      /\ Solid(FlattenSeq(v.out)) \in Seq(Chars)
      /\ rest \in Seq(Chars)
  <2>1. L \in 0..L
    BY <1>0
  <2>2. SubSeq(raw, v.start, L) \in Seq(Chars)
    BY <1>3, <2>1, PieceType
  <2>3. FlattenSeq(v.out) \in Seq(Chars)
    BY <1>3, SpeakableSeq, FlattenType
  <2> QED BY <1>4, <2>2, <2>3, SolidType
<1> HIDE DEF rest
<1>9. Cat(Cat(Solid(text), Solid(FlattenSeq(v.out))), rest)
        = Cat(Solid(text), Cat(Solid(FlattenSeq(v.out)), rest))
  BY <1>8, CatAssoc
<1>10. Cat(Solid(FlattenSeq(Cat(one, v.out))), rest) = Solid(SubSeq(raw, s, L))
  BY <1>3, <1>4, <1>7, <1>9, Zenon
<1>11. r.out = Cat(one, v.out) /\ r.start = v.start
  OBVIOUS
<1>12. r \in Splits(raw)
  BY <1>3, <1>6, Zenon DEF Splits
<1>13. s <= v.start
  BY <1>0, <1>1, <1>2, <1>3
<1> HIDE DEF r
<1>14. Cat(Solid(FlattenSeq(r.out)), Solid(SubSeq(raw, r.start, L)))
         = Solid(SubSeq(raw, s, L))
  BY <1>10, <1>11, Zenon DEF rest
<1>15. Keeps(raw, flush, s, r)
  BY <1>3, <1>11, <1>12, <1>13, <1>14 DEF Keeps
<1> QED BY <1>15 DEF r, one, text

LEMMA SplitKeeps ==
  ASSUME NEW raw \in Seq(Chars), NEW flush \in BOOLEAN
  PROVE  Keeps(raw, flush, 1, SplitSentences(raw, flush))
<1> DEFINE L == Len(raw)
           f == SplitOf(raw, flush)
           T == {n \in Nat : \A s \in 1..(L + 1) :
                               L + 1 < s + n => Keeps(raw, flush, s, f[s])}
<1>0. L \in Nat /\ 1 \in 1..(L + 1)
  BY LenProperties
<1>1. SplitSentences(raw, flush) = f[1] /\ IsSplit(f, raw, flush)
  BY SplitOfDef
<1> HIDE DEF f
<1>2. 0 \in T
  BY <1>0
<1>3. ASSUME NEW n \in Nat, n \in T PROVE n + 1 \in T
  <2> SUFFICES ASSUME NEW s \in 1..(L + 1), L + 1 < s + (n + 1)
               PROVE  Keeps(raw, flush, s, f[s])
    OBVIOUS
  <2>1. CASE NoEnd(raw, flush, s)
    <3>1. f[s] = Final(raw, flush, s)
      BY <1>1, <2>1 DEF IsSplit
    <3>2. Keeps(raw, flush, s, Final(raw, flush, s))
      BY <2>1, KeepsFinal
    <3> QED BY <3>1, <3>2
  <2>2. CASE ~NoEnd(raw, flush, s)
    <3> DEFINE k == NextStart(raw, flush, s)
    <3>1. /\ EndFrom(raw, flush, s) \in (s + 1)..(L + 1)
          /\ k \in EndFrom(raw, flush, s)..(L + 1)
      BY <2>2, EndFacts
    <3>2. k \in 1..(L + 1) /\ L + 1 < k + n
      BY <1>0, <3>1
    <3>3. Keeps(raw, flush, k, f[k])
      BY <1>3, <3>2
    <3>4. f[s] = [out |-> Cat(Sentence(Before(raw, flush, s)), f[k].out),
                  start |-> f[k].start]
      BY <1>1, <2>2, Zenon DEF IsSplit
    <3>5. Keeps(raw, flush, s,
                [out |-> Cat(Sentence(Before(raw, flush, s)), f[k].out),
                 start |-> f[k].start])
      BY <2>2, <3>3, KeepsStep
    <3> QED BY <3>4, <3>5, Zenon
  <2> QED BY <2>1, <2>2
<1> HIDE DEF T
<1>4. Nat \subseteq T
  BY <1>2, <1>3, NatInduct
<1>5. L + 1 \in T /\ L + 1 < 1 + (L + 1)
  BY <1>0, <1>4
<1>6. Keeps(raw, flush, 1, f[1])
  BY <1>0, <1>5 DEF T
<1> QED BY <1>1, <1>6

-----------------------------------------------------------------------------
(* The rest of a buffer.                                                    *)

\* An end of a sentence in the rest is one in the buffer.
LEMMA RestHasNoEnd ==
  ASSUME NEW raw \in Seq(Chars), NEW p \in 1..(Len(raw) + 1),
         NoEnd(raw, FALSE, p)
  PROVE  NoEnd(SubSeq(raw, p, Len(raw)), FALSE, 1)
<1> DEFINE L == Len(raw)
           t == SubSeq(raw, p, L)
<1>0. L \in Nat /\ p \in Nat /\ L \in 0..L /\ 1 <= p /\ p <= L + 1
  BY LenProperties
<1>1. /\ t \in Seq(Chars) /\ Len(t) = (L - p) + 1
      /\ \A i \in 1..Len(t) : t[i] = raw[p + i - 1]
  BY <1>0, PieceType
<1> HIDE DEF t
<1>2. ASSUME NEW i \in Ends(t, FALSE) PROVE FALSE
  <2> DEFINE j == SkipClosers(t, i + 1)
             q == p + i - 1
             k == p + j - 1
  <2>1. /\ i \in 1..Len(t) /\ IsSentenceEnd(t[i])
        /\ j > Len(t) \/ IsSpace(t[j])
    BY DEF Ends, Boundary
  <2>2. i + 1 \in 1..(Len(t) + 1)
    BY <1>0, <1>1, <2>1
  <2>3. Stops(t, i + 1, {"closer"}, j)
    BY <1>1, <2>2, SkipStops DEF SkipClosers
  <2> HIDE DEF j
  <2>4. j \in (i + 1)..(Len(t) + 1)
    BY <2>3 DEF Stops
  <2>5. /\ p \in Nat /\ i \in Nat /\ j \in Nat /\ Len(t) \in Nat
        /\ 1 <= i /\ i < j /\ j <= Len(t) + 1
        /\ q \in 1..L /\ q + 1 \in 1..(L + 1) /\ p <= q
    <3>1. Len(t) \in Nat /\ Len(t) = (L - p) + 1 /\ i \in 1..Len(t)
      BY <1>0, <1>1, <2>1
    <3> QED BY <1>0, <2>4, <3>1
  <2>6. Stops(raw, q + 1, {"closer"}, k)
    <3>1. k \in (q + 1)..(L + 1)
      <4>1. Len(t) = (L - p) + 1
        BY <1>1
      <4> QED BY <1>0, <2>5, <4>1
    <3>2. ASSUME NEW m \in (q + 1)..(k - 1) PROVE raw[m][1] \in {"closer"}
      <4> DEFINE d == m - p + 1
      <4>0. m \in Int /\ (p + i - 1) + 1 <= m /\ m <= (p + j - 1) - 1
        BY <2>5
      <4>1. /\ d \in (i + 1)..(j - 1) /\ d \in 1..Len(t)
            /\ p + d - 1 = m
        BY <2>5, <4>0
      <4> HIDE DEF d
      <4>2. t[d] = raw[m]
        BY <1>1, <4>1
      <4> QED BY <2>3, <4>1, <4>2 DEF Stops
    <3>3. ASSUME k <= L PROVE raw[k][1] \notin {"closer"}
      <4>1. j <= Len(t) /\ j \in 1..Len(t)
        <5>1. Len(t) = (L - p) + 1
          BY <1>1
        <5> QED BY <1>0, <2>5, <3>3, <5>1
      <4>2. t[j] = raw[k]
        BY <1>1, <4>1
      <4> QED BY <2>3, <4>1, <4>2 DEF Stops
    <3> HIDE DEF q, k
    <3> QED BY <3>1, <3>2, <3>3 DEF Stops
  <2>7. SkipClosers(raw, q + 1) = k
    <3>1. Stops(raw, q + 1, {"closer"}, SkipClosers(raw, q + 1))
      BY <2>5, SkipStops DEF SkipClosers
    <3> HIDE DEF q, k
    <3> QED BY <2>5, <2>6, <3>1, StopsOnce
  <2>8. k > L \/ IsSpace(raw[k])
    <3>1. CASE j > Len(t)
      <4>1. Len(t) = (L - p) + 1
        BY <1>1
      <4> QED BY <1>0, <2>5, <3>1, <4>1
    <3>2. CASE ~(j > Len(t))
      <4>1. j \in 1..Len(t)
        BY <2>5, <3>2
      <4>2. t[j] = raw[k]
        BY <1>1, <4>1
      <4> QED BY <2>1, <3>2, <4>2
    <3> QED BY <3>1, <3>2
  <2>9. t[i] = raw[q]
    BY <1>1, <2>1
  <2> HIDE DEF q, k
  <2>10. q \in Ends(raw, FALSE)
    BY <2>1, <2>5, <2>7, <2>8, <2>9 DEF Ends, Boundary
  <2>11. q < p
    BY <2>10 DEF NoEnd
  <2> QED BY <1>0, <2>5, <2>11
<1> QED BY <1>2 DEF NoEnd, t

LEMMA NoEndNoSentence ==
  ASSUME NEW raw \in Seq(Chars), NoEnd(raw, FALSE, 1)
  PROVE  SplitSentences(raw, FALSE).out = <<>>
<1>1. /\ SplitSentences(raw, FALSE) = SplitOf(raw, FALSE)[1]
      /\ IsSplit(SplitOf(raw, FALSE), raw, FALSE)
  BY SplitOfDef
<1>2. 1 \in 1..(Len(raw) + 1)
  BY LenProperties
<1>3. SplitSentences(raw, FALSE) = Final(raw, FALSE, 1)
  BY <1>1, <1>2, Zenon DEF IsSplit
<1>4. Final(raw, FALSE, 1) = [out |-> <<>>, start |-> 1]
  BY DEF Final
<1>5. [out |-> <<>>, start |-> 1].out = <<>>
  OBVIOUS
<1> QED BY <1>3, <1>4, <1>5, Zenon

-----------------------------------------------------------------------------
(* The invariants.                                                          *)

Inv == TypeOK /\ NothingLost /\ NoSentenceWaits /\ SpeechFollowsReply

\* What Inv says of the sequences, in the terms of the lemmas.
Kept ==
  /\ buf \in Seq(Chars)
  /\ received \in Seq(Chars)
  /\ spoken \in Seq(Speakable)
  /\ flushed \in BOOLEAN
  /\ ~flushed => Cat(Solid(FlattenSeq(spoken)), Solid(buf)) = Solid(received)
  /\ ~flushed => SplitSentences(buf, FALSE).out = <<>>
  /\ IsPrefix(Solid(FlattenSeq(spoken)), Solid(received))

LEMMA SpeakableIff ==
  ASSUME NEW out
  PROVE  out \in Seq(Speakable)
           <=> /\ out \in Seq(Seq(Chars) \ {<<>>})
               /\ \A i \in 1..Len(out) : out[i] # <<>> /\ out[i] = TrimSpace(out[i])
<1>1. ASSUME out \in Seq(Speakable)
      PROVE  /\ out \in Seq(Seq(Chars) \ {<<>>})
             /\ \A i \in 1..Len(out) :
                  out[i] # <<>> /\ out[i] = TrimSpace(out[i])
  <2>1. \A i \in 1..Len(out) : out[i] \in Speakable
    BY <1>1, ElementOfSeq
  <2>2. \A i \in 1..Len(out) : out[i] # <<>> /\ out[i] = TrimSpace(out[i])
    BY <2>1, Zenon DEF Speakable
  <2> QED BY <1>1, <2>2, SpeakableSeq
<1>2. ASSUME out \in Seq(Seq(Chars) \ {<<>>}),
             \A i \in 1..Len(out) : out[i] # <<>> /\ out[i] = TrimSpace(out[i])
      PROVE  out \in Seq(Speakable)
  <2>1. \A i \in 1..Len(out) : out[i] \in Seq(Chars) \ {<<>>}
    BY <1>2, ElementOfSeq
  <2>2. \A i \in 1..Len(out) : out[i] \in Speakable
    BY <1>2, <2>1, Zenon DEF Speakable
  <2>3. Len(out) \in Nat /\ out = [i \in 1..Len(out) |-> out[i]]
    BY <1>2, LenProperties
  <2> QED BY <2>2, <2>3
<1> QED BY <1>1, <1>2

LEMMA InvIsKept == Inv <=> Kept
BY SpeakableIff, Zenon
   DEF Inv, Kept, TypeOK, NothingLost, NoSentenceWaits, SpeechFollowsReply, Cat

-----------------------------------------------------------------------------
(* They are inductive.                                                      *)

LEMMA ChunkType ==
  ASSUME received \in Seq(Chars), NEW chunk \in Chunk
  PROVE  chunk \in Seq(Chars)
<1>1. MaxLen \in Nat /\ Len(received) \in Nat
  BY MaxLenIsNat, LenProperties
<1>2. PICK n \in 1..(MaxLen - Len(received)), class \in [1..MaxLen -> Classes] :
        chunk = [i \in 1..n |-> <<class[i], Len(received) + i>>]
  BY DEF Chunk
<1>3. ASSUME NEW i \in 1..n PROVE <<class[i], Len(received) + i>> \in Chars
  <2>1. i \in 1..MaxLen /\ Len(received) + i \in 1..MaxLen
    BY <1>1
  <2>2. class[i] \in Classes
    BY <2>1
  <2> QED BY <2>1, <2>2 DEF Chars
<1>4. n \in Nat
  BY <1>1
<1> QED BY <1>2, <1>3, <1>4

LEMMA KeptInit == Init => Kept
<1> SUFFICES ASSUME Init PROVE Kept
  OBVIOUS
<1> DEFINE none == <<>>
<1>1. buf = none /\ received = none /\ spoken = none /\ flushed = FALSE
  BY DEF Init
<1>2. none \in Seq(Chars) /\ none \in Seq(Speakable) /\ Len(none) = 0
  OBVIOUS
<1>3. FlattenSeq(none) = none /\ Solid(none) = none
  BY FlattenEmpty, SolidEmpty
<1> HIDE DEF none
<1>4. Cat(none, none) = none /\ IsPrefix(none, none)
  <2>1. Cat(none, none) = none
    BY <1>2, CatEmpty DEF none
  <2>2. IsPrefix(none, Cat(none, none))
    BY <1>2, CatPrefix
  <2> QED BY <2>1, <2>2
<1>5. SplitSentences(none, FALSE).out = <<>>
  <2>1. NoEnd(none, FALSE, 1)
    BY <1>2 DEF NoEnd, Ends
  <2> QED BY <1>2, <2>1, NoEndNoSentence
<1> QED BY <1>1, <1>2, <1>3, <1>4, <1>5, Zenon DEF Kept

LEMMA KeptPush ==
  ASSUME Kept, NEW chunk \in Chunk, Push(chunk)
  PROVE  Kept'
<1> DEFINE raw == Cat(buf, chunk)
           split == SplitSentences(raw, FALSE)
           rest == SubSeq(raw, split.start, Len(raw))
           said == Solid(FlattenSeq(spoken))
           says == Solid(FlattenSeq(split.out))
<1>1. /\ ~flushed /\ flushed' = flushed
      /\ spoken' = Cat(spoken, split.out)
      /\ buf' = rest
      /\ received' = Cat(received, chunk)
  BY Zenon DEF Push, Cat
<1>2. /\ buf \in Seq(Chars) /\ received \in Seq(Chars)
      /\ spoken \in Seq(Speakable)
      /\ Cat(said, Solid(buf)) = Solid(received)
  BY <1>1 DEF Kept
<1>3. chunk \in Seq(Chars)
  BY <1>2, ChunkType
<1>4. raw \in Seq(Chars) /\ Cat(received, chunk) \in Seq(Chars)
  BY <1>2, <1>3, CatType
<1> HIDE DEF raw
<1>5. Keeps(raw, FALSE, 1, split)
  BY <1>4, SplitKeeps
<1>6. SubSeq(raw, 1, Len(raw)) = raw
  BY <1>4, PieceAll
<1>7. /\ split.out \in Seq(Speakable) /\ split.start \in 1..(Len(raw) + 1)
      /\ Cat(says, Solid(rest)) = Solid(raw)
      /\ NoEnd(raw, FALSE, split.start)
  BY <1>5, <1>6, Zenon DEF Keeps, Splits
<1>8. rest \in Seq(Chars)
  <2>1. Len(raw) \in 0..Len(raw)
    BY <1>4, LenProperties
  <2> QED BY <1>4, <1>7, <2>1, PieceType
<1>9. SplitSentences(rest, FALSE).out = <<>>
  <2>1. NoEnd(rest, FALSE, 1)
    BY <1>4, <1>7, RestHasNoEnd
  <2> HIDE DEF rest
  <2> QED BY <1>8, <2>1, NoEndNoSentence
<1>10. Cat(spoken, split.out) \in Seq(Speakable)
  BY <1>2, <1>7, CatType
<1>11. Solid(FlattenSeq(Cat(spoken, split.out))) = Cat(said, says)
  <2>1. spoken \in Seq(Seq(Chars)) /\ split.out \in Seq(Seq(Chars))
    BY <1>2, <1>7, SpeakableSeq
  <2>2. FlattenSeq(Cat(spoken, split.out))
          = Cat(FlattenSeq(spoken), FlattenSeq(split.out))
    BY <2>1, FlattenCat
  <2>3. FlattenSeq(spoken) \in Seq(Chars) /\ FlattenSeq(split.out) \in Seq(Chars)
    BY <2>1, FlattenType
  <2>4. Solid(Cat(FlattenSeq(spoken), FlattenSeq(split.out)))
          = Cat(Solid(FlattenSeq(spoken)), Solid(FlattenSeq(split.out)))
    BY <2>3, SolidCat
  <2> QED BY <2>2, <2>4, Zenon
<1>12. /\ said \in Seq(Chars) /\ says \in Seq(Chars) /\ Solid(rest) \in Seq(Chars)
       /\ Solid(buf) \in Seq(Chars) /\ Solid(chunk) \in Seq(Chars)
  BY <1>2, <1>3, <1>7, <1>8, SpeakableSeq, FlattenType, SolidType
<1>13. Solid(raw) = Cat(Solid(buf), Solid(chunk))
  BY <1>2, <1>3, SolidCat DEF raw
<1>14. Solid(Cat(received, chunk)) = Cat(Solid(received), Solid(chunk))
  BY <1>2, <1>3, SolidCat
<1> HIDE DEF split, rest, said, says
<1>15. Cat(Cat(said, says), Solid(rest)) = Solid(Cat(received, chunk))
  <2>1. Cat(Cat(said, says), Solid(rest)) = Cat(said, Cat(says, Solid(rest)))
    BY <1>12, CatAssoc
  <2>2. Cat(Cat(said, Solid(buf)), Solid(chunk))
          = Cat(said, Cat(Solid(buf), Solid(chunk)))
    BY <1>12, CatAssoc
  <2> QED BY <1>2, <1>7, <1>13, <1>14, <2>1, <2>2, Zenon
<1>16. IsPrefix(Cat(said, says), Solid(Cat(received, chunk)))
  <2>1. Cat(said, says) \in Seq(Chars)
    BY <1>12, CatType
  <2>2. IsPrefix(Cat(said, says), Cat(Cat(said, says), Solid(rest)))
    BY <1>12, <2>1, CatPrefix
  <2> QED BY <1>15, <2>2
<1>17. flushed' \in BOOLEAN
  BY <1>1 DEF Kept
<1> QED BY <1>1, <1>4, <1>8, <1>9, <1>10, <1>11, <1>15, <1>16, <1>17, Zenon DEF Kept

\* What Flush leaves unspoken: all parts but the first.
LEMMA FlushLeaves ==
  ASSUME Kept, Flush
  PROVE  /\ spoken' \in Seq(Speakable)
         /\ \E left \in Seq(Speakable) :
              /\ Solid(received)
                   = Cat(Solid(FlattenSeq(spoken')), Solid(FlattenSeq(left)))
              /\ left = <<>> <=> Len(SplitSentences(buf, TRUE).out) <= 1
<1> DEFINE split == SplitSentences(buf, TRUE)
           parts == split.out
           said == Solid(FlattenSeq(spoken))
           all == Solid(FlattenSeq(parts))
           Left(left) ==
             /\ Solid(received)
                  = Cat(Solid(FlattenSeq(spoken')), Solid(FlattenSeq(left)))
             /\ left = <<>> <=> Len(parts) <= 1
<1>1. /\ ~flushed
      /\ spoken' = IF parts = <<>> THEN spoken ELSE Append(spoken, Head(parts))
  BY Zenon DEF Flush
<1>2. /\ buf \in Seq(Chars) /\ received \in Seq(Chars)
      /\ spoken \in Seq(Speakable)
      /\ Cat(said, Solid(buf)) = Solid(received)
  BY <1>1 DEF Kept
<1>3. Keeps(buf, TRUE, 1, split)
  BY <1>2, SplitKeeps
<1>4. parts \in Seq(Speakable) /\ all = Solid(buf)
  <2>1. /\ parts \in Seq(Speakable) /\ split.start = Len(buf) + 1
        /\ Cat(all, Solid(SubSeq(buf, split.start, Len(buf))))
             = Solid(SubSeq(buf, 1, Len(buf)))
    BY <1>3, Zenon DEF Keeps, Splits
  <2>2. Solid(SubSeq(buf, Len(buf) + 1, Len(buf))) = <<>>
    <3>1. Len(buf) \in Nat
      BY <1>2, LenProperties
    <3>2. SubSeq(buf, Len(buf) + 1, Len(buf)) = <<>>
      BY <3>1, SubSeqEmpty
    <3> QED BY <3>2, SolidEmpty, Zenon
  <2>3. SubSeq(buf, 1, Len(buf)) = buf
    BY <1>2, PieceAll
  <2>4. all \in Seq(Chars)
    BY <2>1, SpeakableSeq, FlattenType, SolidType
  <2>5. Cat(all, <<>>) = all
    BY <2>4, CatEmpty
  <2> QED BY <2>1, <2>2, <2>3, <2>5, Zenon
<1>5. CASE parts = <<>>
  <2>1. spoken' = spoken
    BY <1>1, <1>5, Zenon
  <2> DEFINE none == <<>>
  <2>2. none \in Seq(Speakable) /\ none = <<>> /\ Len(none) = 0
    OBVIOUS
  <2>3. Len(parts) <= 1
    <3> HIDE DEF split, parts
    <3>1. Len(parts) = 0
      BY <1>5
    <3> QED BY <3>1
  <2>4. all = Solid(FlattenSeq(none))
    BY <1>5, Zenon
  <2>5. Left(none)
    BY <1>2, <1>4, <2>1, <2>2, <2>3, <2>4, Zenon
  <2> HIDE DEF none, Left
  <2>6. \E left \in Seq(Speakable) : Left(left)
    BY <2>2, <2>5
  <2>7. spoken' \in Seq(Speakable)
    BY <1>2, <2>1, Zenon
  <2> QED BY <2>6, <2>7, Zenon DEF Left
<1>6. CASE parts # <<>>
  <2> DEFINE h == Head(parts)
             r == Tail(parts)
  <2>1. r = <<>> <=> Len(parts) <= 1
    <3> HIDE DEF parts
    <3>1. Len(r) = Len(parts) - 1 /\ Len(parts) \in Nat /\ r \in Seq(Speakable)
      BY <1>4, <1>6, HeadTailProperties, LenProperties
    <3>2. Len(parts) # 0
      BY <1>4, <1>6, EmptySeq
    <3>3. r = <<>> <=> Len(r) = 0
      BY <3>1, EmptySeq
    <3> HIDE DEF r
    <3> QED BY <3>1, <3>2, <3>3
  <2>2. spoken' = Append(spoken, h)
    BY <1>1, <1>6, Zenon
  <2> HIDE DEF split, parts
  <2>3. h \in Speakable /\ r \in Seq(Speakable) /\ parts = Cat(One(h), r)
    BY <1>4, <1>6, CatHeadTail
  <2> HIDE DEF h, r
  <2>4. /\ h \in Seq(Chars) /\ One(h) \in Seq(Seq(Chars))
        /\ r \in Seq(Seq(Chars)) /\ spoken \in Seq(Seq(Chars))
    <3>1. h \in Seq(Chars)
      BY <2>3 DEF Speakable
    <3> QED BY <1>2, <2>3, <3>1, SpeakableSeq DEF One
  <2>5. FlattenSeq(parts) = Cat(h, FlattenSeq(r))
    <3>1. FlattenSeq(Cat(One(h), r)) = Cat(FlattenSeq(One(h)), FlattenSeq(r))
      BY <2>4, FlattenCat
    <3> QED BY <2>3, <2>4, <3>1, FlattenOne
  <2>6. /\ FlattenSeq(r) \in Seq(Chars) /\ FlattenSeq(spoken) \in Seq(Chars)
        /\ Solid(h) \in Seq(Chars) /\ Solid(FlattenSeq(r)) \in Seq(Chars)
        /\ said \in Seq(Chars)
    BY <2>4, FlattenType, SolidType
  <2>7. all = Cat(Solid(h), Solid(FlattenSeq(r)))
    BY <2>4, <2>5, <2>6, SolidCat
  <2>8. Solid(FlattenSeq(Append(spoken, h))) = Cat(said, Solid(h))
    <3>1. FlattenSeq(Append(spoken, h)) = Cat(FlattenSeq(spoken), h)
      BY <2>4, FlattenAppend
    <3>2. Solid(Cat(FlattenSeq(spoken), h)) = Cat(said, Solid(h))
      BY <2>4, <2>6, SolidCat
    <3> QED BY <3>1, <3>2, Zenon
  <2> HIDE DEF said, all
  <2>9. Solid(received) = Cat(Cat(said, Solid(h)), Solid(FlattenSeq(r)))
    <3>1. Cat(Cat(said, Solid(h)), Solid(FlattenSeq(r)))
            = Cat(said, Cat(Solid(h), Solid(FlattenSeq(r))))
      BY <2>6, CatAssoc
    <3> QED BY <1>2, <1>4, <2>7, <3>1, Zenon
  <2>10. spoken' \in Seq(Speakable)
    BY <1>2, <2>2, <2>3, AppendProperties
  <2>11. Left(r)
    BY <2>1, <2>2, <2>8, <2>9, Zenon DEF r, h
  <2> HIDE DEF Left
  <2>12. \E left \in Seq(Speakable) : Left(left)
    BY <2>3, <2>11
  <2> QED BY <2>10, <2>12, Zenon DEF Left, parts, split
<1> QED BY <1>5, <1>6

LEMMA KeptFlush == ASSUME Kept, Flush PROVE Kept'
<1>1. /\ spoken' \in Seq(Speakable)
      /\ flushed' = TRUE /\ buf' = <<>> /\ received' = received
      /\ received \in Seq(Chars)
  BY FlushLeaves, Zenon DEF Flush, Kept
<1>2. PICK left \in Seq(Speakable) :
        Solid(received) = Cat(Solid(FlattenSeq(spoken')), Solid(FlattenSeq(left)))
  BY FlushLeaves
<1>3. /\ Solid(FlattenSeq(spoken')) \in Seq(Chars)
      /\ Solid(FlattenSeq(left)) \in Seq(Chars)
  BY <1>1, SpeakableSeq, FlattenType, SolidType
<1>4. IsPrefix(Solid(FlattenSeq(spoken')), Solid(received))
  BY <1>2, <1>3, CatPrefix
<1>5. buf' \in Seq(Chars)
  <2>1. <<>> \in Seq(Chars)
    OBVIOUS
  <2> QED BY <1>1, <2>1, Zenon
<1> QED BY <1>1, <1>4, <1>5, Zenon DEF Kept

LEMMA KeptStep == Kept /\ [Next]_vars => Kept'
<1> SUFFICES ASSUME Kept, [Next]_vars PROVE Kept'
  OBVIOUS
<1>1. ASSUME NEW chunk \in Chunk, Push(chunk) PROVE Kept'
  BY <1>1, KeptPush
<1>2. CASE Flush
  BY <1>2, KeptFlush
<1>3. CASE UNCHANGED vars
  BY <1>3, Zenon DEF vars, Kept
<1>4. CASE Done
  BY <1>3, <1>4 DEF Done
<1> QED BY <1>1, <1>2, <1>3, <1>4 DEF Next

\* In every state of every reply: Inv.
THEOREM Invariant == Spec => []Inv
<1>1. Spec => []Kept
  BY KeptInit, KeptStep, PTL DEF Spec
<1> QED BY <1>1, InvIsKept, PTL

\* The buffer, the reply and the sentences are sequences of characters, and no
\* sentence is blank: Flush speaks nothing rather than an empty text.
THEOREM TypeCorrect == Spec => []TypeOK
<1>1. Inv => TypeOK
  BY DEF Inv
<1> QED BY <1>1, Invariant, PTL

\* While the reply streams, sentences and buffer together are the reply,
\* however it is cut into chunks: extract writes back all it did not return.
THEOREM StreamingLosesNothing == Spec => []NothingLost
<1>1. Inv => NothingLost
  BY DEF Inv
<1> QED BY <1>1, Invariant, PTL

\* After every Push the buffer holds no complete sentence.
THEOREM StreamingDelaysNothing == Spec => []NoSentenceWaits
<1>1. Inv => NoSentenceWaits
  BY DEF Inv
<1> QED BY <1>1, Invariant, PTL

\* Whatever was spoken, the part Flush returns included, is a beginning of the
\* reply in trimmed sentences.
THEOREM CallerHearsBeginning == Spec => []SpeechFollowsReply
<1>1. Inv => SpeechFollowsReply
  BY DEF Inv
<1> QED BY <1>1, Invariant, PTL

\* Flush speaks the rest of the reply if splitting leaves one part of it at
\* most, and drops the other parts in every other case.
THEOREM FlushDropsLaterParts == Spec => FlushSpeaksOnePart
<1>1. Kept /\ [Next]_vars
        => [Flush => (FlushSpeaksTheRest'
                        <=> Len(SplitSentences(buf, TRUE).out) <= 1)]_vars
  <2> SUFFICES ASSUME Kept, Flush
               PROVE  FlushSpeaksTheRest'
                        <=> Len(SplitSentences(buf, TRUE).out) <= 1
    OBVIOUS
  <2>1. /\ spoken' \in Seq(Speakable) /\ flushed' = TRUE
        /\ received' = received
    BY FlushLeaves, Zenon DEF Flush
  <2>2. PICK left \in Seq(Speakable) :
          /\ Solid(received)
               = Cat(Solid(FlattenSeq(spoken')), Solid(FlattenSeq(left)))
          /\ left = <<>> <=> Len(SplitSentences(buf, TRUE).out) <= 1
    BY FlushLeaves
  <2> DEFINE says == Solid(FlattenSeq(spoken'))
             lost == Solid(FlattenSeq(left))
  <2>3. says \in Seq(Chars) /\ lost \in Seq(Chars)
    BY <2>1, SpeakableSeq, FlattenType, SolidType
  <2>4. FlushSpeaksTheRest' <=> says = Solid(received)
    BY <2>1, Zenon DEF FlushSpeaksTheRest
  <2>5. lost = <<>> <=> left = <<>>
    BY SpeakableSolid, FlattenEmpty, SolidEmpty, Zenon
  <2> HIDE DEF says, lost
  <2>6. says = Cat(says, lost) <=> lost = <<>>
    <3>1. Cat(says, <<>>) = says
      BY <2>3, CatEmpty
    <3>2. Len(Cat(says, lost)) = Len(says) + Len(lost)
      BY <2>3, ConcatProperties DEF Cat
    <3>3. says = Cat(says, lost) => Len(lost) = 0
      BY <2>3, <3>2, LenProperties
    <3>4. Len(lost) = 0 => lost = <<>>
      BY <2>3, EmptySeq
    <3> QED BY <3>1, <3>3, <3>4, Zenon
  <2> QED BY <2>2, <2>4, <2>5, <2>6, Zenon DEF says, lost
<1>2. Spec => []Kept
  BY InvIsKept, Invariant, PTL
<1> QED BY <1>1, <1>2, PTL DEF Spec, FlushSpeaksOnePart
=============================================================================

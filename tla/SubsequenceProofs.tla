------------------------- MODULE SubsequenceProofs --------------------------
(***************************************************************************)
(* What the proofs about sequences of chunks and characters rest on:       *)
(* induction over the natural numbers and over sequences, stated for sets, *)
(* the equations of two recursive functions (Only, FlattenSeq) and how     *)
(* they distribute over Append and \o.                                     *)
(***************************************************************************)
EXTENDS Subsequence, SequencesExt, SequenceTheorems, WellFoundedInduction,
        TLAPS

\* Every set of natural numbers with an element has a least one.
LEMMA LeastNat ==
  ASSUME NEW T, T \subseteq Nat, T # {}
  PROVE  \E n \in T : \A m \in T : n <= m
<1>1. IsWellFoundedOn(OpToRel(<, Nat), Nat)
  BY NatLessThanWellFounded
<1>2. PICK n \in T : \A m \in T : ~(<<m, n>> \in OpToRel(<, Nat))
  BY <1>1, WFMin, Zenon
<1>3. \A m \in T : ~(m < n)
  BY <1>2 DEF OpToRel
<1> QED BY <1>3

\* A set with 0 and the successors of its elements holds every number.
LEMMA NatInduct ==
  ASSUME NEW T, 0 \in T, \A n \in Nat : n \in T => n + 1 \in T
  PROVE  Nat \subseteq T
<1> SUFFICES ASSUME Nat \ T # {} PROVE FALSE
  OBVIOUS
<1>1. PICK n \in Nat \ T : \A m \in Nat \ T : n <= m
  BY LeastNat
<1>2. n # 0 /\ n - 1 \in Nat
  BY <1>1
<1>3. n - 1 \in T
  BY <1>1, <1>2
<1>4. (n - 1) + 1 \in T
  BY <1>2, <1>3
<1> QED BY <1>1, <1>4

\* A set with <<>> and what Append makes of its elements holds every sequence.
LEMMA SeqInduct ==
  ASSUME NEW S, NEW T, <<>> \in T,
         \A s \in Seq(S), e \in S : s \in T => Append(s, e) \in T
  PROVE  Seq(S) \subseteq T
<1> DEFINE N == {n \in Nat : \A s \in Seq(S) : Len(s) = n => s \in T}
<1>1. 0 \in N
  <2>1. \A s \in Seq(S) : Len(s) = 0 => s = <<>>
    BY EmptySeq
  <2> QED BY <2>1
<1>2. ASSUME NEW n \in Nat, n \in N PROVE n + 1 \in N
  <2>1. ASSUME NEW s \in Seq(S), Len(s) = n + 1 PROVE s \in T
    <3> DEFINE r == SubSeq(s, 1, n)
    <3>1. r \in Seq(S) /\ Len(r) = n /\ s[n + 1] \in S
      BY <2>1, LenProperties, SubSeqProperties, ElementOfSeq
    <3>2. s = Append(r, s[n + 1])
      BY <2>1, LenProperties, AppendProperties, SeqEqual
    <3>3. r \in T
      BY <1>2, <3>1
    <3> QED BY <3>1, <3>2, <3>3
  <2> QED BY <2>1
<1>3. Nat \subseteq N
  <2> HIDE DEF N
  <2> QED BY <1>1, <1>2, NatInduct
<1>4. ASSUME NEW s \in Seq(S) PROVE s \in T
  BY <1>3, LenProperties
<1> QED BY <1>4

-----------------------------------------------------------------------------
(* Concatenation and one-element sequences under names of their own: the    *)
(* SMT translation spells \o and <<e>> out, element by element, and then    *)
(* finds no instance of an equation between sequences.                      *)

Cat(s, t) == s \o t
One(e) == <<e>>

LEMMA CatType ==
  ASSUME NEW S, NEW s \in Seq(S), NEW t \in Seq(S)
  PROVE  Cat(s, t) \in Seq(S)
BY ConcatProperties DEF Cat

LEMMA CatAssoc ==
  ASSUME NEW S, NEW s \in Seq(S), NEW t \in Seq(S), NEW u \in Seq(S)
  PROVE  Cat(Cat(s, t), u) = Cat(s, Cat(t, u))
BY DEF Cat

LEMMA CatEmpty ==
  ASSUME NEW S, NEW s \in Seq(S)
  PROVE  Cat(s, <<>>) = s /\ Cat(<<>>, s) = s
BY ConcatEmptySeq DEF Cat

LEMMA CatOne ==
  ASSUME NEW S, NEW s \in Seq(S), NEW e \in S
  PROVE  One(e) \in Seq(S) /\ Append(s, e) = Cat(s, One(e))
BY DEF Cat, One

LEMMA CatHeadTail ==
  ASSUME NEW S, NEW s \in Seq(S), s # <<>>
  PROVE  Head(s) \in S /\ Tail(s) \in Seq(S) /\ s = Cat(One(Head(s)), Tail(s))
<1>1. /\ Head(s) \in S /\ Head(s) = s[1] /\ Tail(s) \in Seq(S)
      /\ Len(Tail(s)) = Len(s) - 1 /\ Len(s) \in Nat
      /\ \A i \in 1..(Len(s) - 1) : Tail(s)[i] = s[i + 1]
  BY HeadTailProperties, LenProperties
<1> DEFINE h == Head(s)
           r == Tail(s)
<1> HIDE DEF h, r
<1>2. h \in S /\ r \in Seq(S) /\ <<h>> \o r \in Seq(S) /\ Len(<<h>> \o r) = Len(s)
  BY <1>1 DEF h, r
<1>3. \A i \in 1..Len(s) : s[i] = (<<h>> \o r)[i]
  BY <1>1, <1>2 DEF h, r
<1>4. s = <<h>> \o r
  BY <1>2, <1>3, SeqEqual
<1> QED BY <1>1, <1>4 DEF h, r, Cat, One

-----------------------------------------------------------------------------
(* Functions defined by recursion over the positions of a sequence.         *)

\* Functions from a position and the value before it to the value there.
Steps(n, V) == [1..n -> [V -> V]]

\* Each value may depend on the one before it.
LEMMA PrefixRecursion ==
  ASSUME NEW V, NEW n \in Nat, NEW base \in V, NEW F \in Steps(n, V)
  PROVE  \E f \in [0..n -> V] :
           f[0] = base /\ \A i \in 1..n : f[i] = F[i][f[i - 1]]
<1> DEFINE Good(f, k) ==
             f[0] = base /\ \A i \in 1..k : f[i] = F[i][f[i - 1]]
           T == {k \in Nat : k <= n => \E f \in [0..k -> V] : Good(f, k)}
<1>1. 0 \in T
  <2>1. [i \in 0..0 |-> base] \in [0..0 -> V]
    OBVIOUS
  <2>2. Good([i \in 0..0 |-> base], 0)
    OBVIOUS
  <2> QED BY <2>1, <2>2
<1>2. ASSUME NEW k \in Nat, k \in T PROVE k + 1 \in T
  <2> SUFFICES ASSUME k + 1 <= n
               PROVE  \E f \in [0..(k + 1) -> V] : Good(f, k + 1)
    OBVIOUS
  <2>1. PICK f \in [0..k -> V] : Good(f, k)
    BY <1>2
  <2> DEFINE g == [i \in 0..(k + 1) |->
                     IF i = k + 1 THEN F[k + 1][f[k]] ELSE f[i]]
  <2>2. F[k + 1][f[k]] \in V
    BY DEF Steps
  <2>3. g \in [0..(k + 1) -> V]
    BY <2>2
  <2>4. \A i \in 0..k : g[i] = f[i]
    OBVIOUS
  <2>5. g[k + 1] = F[k + 1][f[k]]
    OBVIOUS
  <2> HIDE DEF g
  <2>6. Good(g, k + 1)
    <3>1. g[0] = base
      BY <2>1, <2>4
    <3>2. ASSUME NEW i \in 1..(k + 1) PROVE g[i] = F[i][g[i - 1]]
      <4>1. CASE i = k + 1
        BY <2>4, <2>5, <4>1
      <4>2. CASE i # k + 1
        <5>1. i \in 1..k /\ i - 1 \in 0..k
          BY <4>2
        <5> QED BY <5>1, <2>1, <2>4
      <4> QED BY <4>1, <4>2
    <3> QED BY <3>1, <3>2
  <2> QED BY <2>3, <2>6
<1> HIDE DEF T
<1>3. Nat \subseteq T
  BY <1>1, <1>2, NatInduct
<1>4. n \in T
  BY <1>3
<1> QED BY <1>4 DEF T

\* For every position a later one, or one past the end.
Jumps(n) == {next \in [1..n -> Nat] : \A i \in 1..n : i < next[i]}

\* Each value may depend on one at a later position, or on none.
LEMMA LaterRecursion ==
  ASSUME NEW V, NEW none \in V, NEW n \in Nat, NEW F \in Steps(n, V),
         NEW next \in Jumps(n)
  PROVE  \E f \in [1..n -> V] : \A i \in 1..n :
           f[i] = F[i][IF next[i] <= n THEN f[next[i]] ELSE none]
<1> DEFINE Arg(f, i) == IF next[i] <= n THEN f[next[i]] ELSE none
           Good(f, k) == \A i \in 1..n : n < i + k => f[i] = F[i][Arg(f, i)]
           T == {k \in Nat : \E f \in [1..n -> V] : Good(f, k)}
<1>0. next \in [1..n -> Nat] /\ \A i \in 1..n : i < next[i]
  BY DEF Jumps
<1>1. 0 \in T
  <2>1. [i \in 1..n |-> none] \in [1..n -> V]
    OBVIOUS
  <2>2. Good([i \in 1..n |-> none], 0)
    OBVIOUS
  <2> QED BY <2>1, <2>2
<1>2. ASSUME NEW k \in Nat, k \in T PROVE k + 1 \in T
  <2>1. PICK f \in [1..n -> V] : Good(f, k)
    BY <1>2
  <2>2. \A i \in 1..n : Arg(f, i) \in V
    <3>1. \A i \in 1..n : next[i] <= n => next[i] \in 1..n
      BY <1>0
    <3> QED BY <3>1
  <2>3. \A i \in 1..n : F[i][Arg(f, i)] \in V
    <3> HIDE DEF Arg
    <3> QED BY <2>2 DEF Steps
  <2> DEFINE g == [i \in 1..n |-> IF n < i + k THEN f[i] ELSE F[i][Arg(f, i)]]
  <2>4. g \in [1..n -> V]
    <3> HIDE DEF Arg
    <3> QED BY <2>3
  <2>5. /\ \A i \in 1..n : n < i + k => g[i] = f[i]
        /\ \A i \in 1..n : ~(n < i + k) => g[i] = F[i][Arg(f, i)]
    OBVIOUS
  <2> HIDE DEF g
  <2>6. \A i \in 1..n : n < i + (k + 1) => Arg(g, i) = Arg(f, i)
    <3> SUFFICES ASSUME NEW i \in 1..n, n < i + (k + 1), next[i] <= n
                 PROVE  g[next[i]] = f[next[i]]
      OBVIOUS
    <3>1. next[i] \in 1..n /\ n < next[i] + k
      BY <1>0
    <3> QED BY <2>5, <3>1
  <2> HIDE DEF Arg
  <2>7. Good(g, k + 1)
    <3> SUFFICES ASSUME NEW i \in 1..n, n < i + (k + 1)
                 PROVE  g[i] = F[i][Arg(g, i)]
      OBVIOUS
    <3>1. Arg(g, i) = Arg(f, i)
      BY <2>6
    <3>2. g[i] = F[i][Arg(f, i)]
      BY <2>1, <2>5
    <3> QED BY <3>1, <3>2
  <2> HIDE DEF Good
  <2>8. \E h \in [1..n -> V] : Good(h, k + 1)
    BY <2>4, <2>7
  <2> QED BY <2>8
<1> HIDE DEF T
<1>3. Nat \subseteq T
  BY <1>1, <1>2, NatInduct
<1>4. n \in T
  BY <1>3
<1>5. PICK f \in [1..n -> V] : Good(f, n)
  BY <1>4 DEF T
<1>6. \A i \in 1..n : n < i + n
  OBVIOUS
<1> HIDE DEF Arg
<1>7. \A i \in 1..n : f[i] = F[i][Arg(f, i)]
  BY <1>5, <1>6
<1> QED BY <1>7 DEF Arg

\* The local function of Only.
OnlyOf(s, K) ==
  CHOOSE only : only =
    [n \in 0..Len(s) |->
       IF n = 0 THEN <<>>
       ELSE IF s[n] \in K THEN Append(only[n - 1], s[n]) ELSE only[n - 1]]

\* Its equations.
IsOnly(o, s, K) ==
  /\ o[0] = <<>>
  /\ \A n \in 1..Len(s) :
       o[n] = IF s[n] \in K THEN Append(o[n - 1], s[n]) ELSE o[n - 1]

\* They hold, and so does the type they give.
LEMMA OnlyOfDef ==
  ASSUME NEW S, NEW s \in Seq(S), NEW K
  PROVE  /\ Only(s, K) = OnlyOf(s, K)[Len(s)]
         /\ OnlyOf(s, K) \in [0..Len(s) -> Seq(S \cap K)]
         /\ IsOnly(OnlyOf(s, K), s, K)
<1> DEFINE V == Seq(S \cap K)
           F == [n \in 1..Len(s) |-> [v \in V |->
                   IF s[n] \in K THEN Append(v, s[n]) ELSE v]]
           Rec(f) == [n \in 0..Len(s) |->
                        IF n = 0 THEN <<>>
                        ELSE IF s[n] \in K THEN Append(f[n - 1], s[n])
                             ELSE f[n - 1]]
<1>1. Len(s) \in Nat /\ \A n \in 1..Len(s) : s[n] \in S
  BY LenProperties, ElementOfSeq
<1>2. <<>> \in V
  OBVIOUS
<1>3. F \in Steps(Len(s), V)
  <2>1. ASSUME NEW n \in 1..Len(s), NEW v \in V, s[n] \in K
        PROVE  Append(v, s[n]) \in V
    BY <1>1, <2>1, AppendProperties
  <2> QED BY <2>1 DEF Steps
<1>4. PICK f \in [0..Len(s) -> V] :
        f[0] = <<>> /\ \A n \in 1..Len(s) : f[n] = F[n][f[n - 1]]
  <2> DEFINE none == <<>>
  <2>1. none \in V /\ Len(s) \in Nat
    BY <1>1, <1>2
  <2> HIDE DEF F, V, none
  <2>2. \E f \in [0..Len(s) -> V] :
          f[0] = none /\ \A n \in 1..Len(s) : f[n] = F[n][f[n - 1]]
    BY <1>3, <2>1, PrefixRecursion
  <2> QED BY <2>2 DEF none
<1>5. \A n \in 1..Len(s) :
        f[n] = IF s[n] \in K THEN Append(f[n - 1], s[n]) ELSE f[n - 1]
  <2>1. \A n \in 1..Len(s) : f[n - 1] \in V
    BY <1>1
  <2> HIDE DEF V
  <2> QED BY <1>4, <2>1
<1>6. f = Rec(f)
  <2>1. \A n \in 0..Len(s) : f[n] = Rec(f)[n]
    <3> SUFFICES ASSUME NEW n \in 0..Len(s) PROVE f[n] = Rec(f)[n]
      OBVIOUS
    <3>1. CASE n = 0
      BY <1>4, <3>1
    <3>2. CASE n # 0
      <4>1. n \in 1..Len(s)
        BY <1>1, <3>2
      <4> HIDE DEF V
      <4> QED BY <1>5, <4>1, <3>2
    <3> QED BY <3>1, <3>2
  <2> HIDE DEF V
  <2> QED BY <2>1
<1>7. OnlyOf(s, K) = Rec(OnlyOf(s, K))
  BY <1>6, Zenon DEF OnlyOf
<1> DEFINE o == OnlyOf(s, K)
<1>8. /\ DOMAIN o = 0..Len(s)
      /\ o[0] = <<>>
      /\ \A n \in 1..Len(s) :
           o[n] = IF s[n] \in K THEN Append(o[n - 1], s[n]) ELSE o[n - 1]
  <2> HIDE DEF o
  <2>1. o = Rec(o)
    BY <1>7 DEF o
  <2>2. DOMAIN o = 0..Len(s) /\ \A n \in 0..Len(s) : o[n] = Rec(o)[n]
    BY <2>1, Zenon
  <2>3. 0 \in 0..Len(s) /\ \A n \in 1..Len(s) : n \in 0..Len(s) /\ n # 0
    BY <1>1
  <2> QED BY <2>2, <2>3, Zenon
<1>9. \A n \in 0..Len(s) : o[n] \in V
  <2> DEFINE T == {n \in Nat : n <= Len(s) => o[n] \in V}
  <2> HIDE DEF o
  <2>1. 0 \in T
    BY <1>2, <1>8
  <2>2. ASSUME NEW n \in Nat, n \in T PROVE n + 1 \in T
    <3> SUFFICES ASSUME n + 1 <= Len(s) PROVE o[n + 1] \in V
      OBVIOUS
    <3>1. o[n] \in V /\ n + 1 \in 1..Len(s) /\ s[n + 1] \in S
      BY <1>1, <2>2
    <3>2. s[n + 1] \in K => Append(o[n], s[n + 1]) \in V
      BY <3>1, AppendProperties
    <3> HIDE DEF V
    <3> QED BY <1>8, <3>1, <3>2
  <2> HIDE DEF T
  <2>3. Nat \subseteq T
    BY <2>1, <2>2, NatInduct
  <2> QED BY <1>1, <2>3 DEF T
<1>10. Only(s, K) = o[Len(s)]
  BY DEF Only, OnlyOf
<1>11. o \in [0..Len(s) -> V]
  <2>1. o = Rec(o)
    BY <1>7
  <2> HIDE DEF o, V
  <2> QED BY <1>8, <1>9, <2>1
<1> QED BY <1>8, <1>10, <1>11, Zenon DEF IsOnly

LEMMA OnlyType ==
  ASSUME NEW S, NEW s \in Seq(S), NEW K
  PROVE  Only(s, K) \in Seq(S \cap K) /\ Only(s, K) \in Seq(S)
<1>1. Only(s, K) \in Seq(S \cap K)
  <2>1. /\ Only(s, K) = OnlyOf(s, K)[Len(s)]
        /\ OnlyOf(s, K) \in [0..Len(s) -> Seq(S \cap K)]
    BY OnlyOfDef, Zenon
  <2>2. Len(s) \in 0..Len(s)
    BY LenProperties
  <2> QED BY <2>1, <2>2, Zenon
<1> QED BY <1>1, SeqMonotonic

LEMMA OnlyEmpty == ASSUME NEW K PROVE Only(<<>>, K) = <<>>
<1> DEFINE s == <<>>
<1>1. s \in Seq({}) /\ Len(s) = 0
  BY EmptySeq
<1> HIDE DEF s
<1>2. Only(s, K) = OnlyOf(s, K)[0] /\ IsOnly(OnlyOf(s, K), s, K)
  BY <1>1, OnlyOfDef
<1>3. Only(s, K) = <<>>
  BY <1>2 DEF IsOnly
<1> QED BY <1>3 DEF s

LEMMA OnlyAppend ==
  ASSUME NEW S, NEW s \in Seq(S), NEW e \in S, NEW K
  PROVE  Only(Append(s, e), K) =
           IF e \in K THEN Append(Only(s, K), e) ELSE Only(s, K)
<1> DEFINE r == Append(s, e)
           o == OnlyOf(s, K)
           p == OnlyOf(r, K)
           N == {n \in Nat : n <= Len(s) => p[n] = o[n]}
<1>1. /\ Len(s) \in Nat /\ r \in Seq(S) /\ Len(r) = Len(s) + 1
      /\ \A i \in 1..Len(s) : r[i] = s[i]
      /\ r[Len(s) + 1] = e
  BY AppendProperties, LenProperties
<1> HIDE DEF r
<1>2. Only(s, K) = o[Len(s)] /\ IsOnly(o, s, K)
  BY OnlyOfDef
<1>3. Only(r, K) = p[Len(r)] /\ IsOnly(p, r, K)
  BY <1>1, OnlyOfDef
<1> HIDE DEF o, p
<1>4. 0 \in N
  BY <1>2, <1>3 DEF IsOnly
<1>5. ASSUME NEW n \in Nat, n \in N PROVE n + 1 \in N
  <2> SUFFICES ASSUME n + 1 <= Len(s) PROVE p[n + 1] = o[n + 1]
    OBVIOUS
  <2>1. n + 1 \in 1..Len(s) /\ n + 1 \in 1..Len(r) /\ (n + 1) - 1 = n
    BY <1>1
  <2>2. p[n] = o[n] /\ r[n + 1] = s[n + 1]
    BY <1>1, <1>5, <2>1
  <2> QED BY <1>2, <1>3, <2>1, <2>2 DEF IsOnly
<1> HIDE DEF N
<1>6. Nat \subseteq N
  BY <1>4, <1>5, NatInduct
<1>7. p[Len(s)] = o[Len(s)]
  BY <1>1, <1>6 DEF N
<1>8. Len(s) + 1 \in 1..Len(r) /\ (Len(s) + 1) - 1 = Len(s)
  BY <1>1
<1>9. p[Len(s) + 1] = IF e \in K THEN Append(p[Len(s)], e) ELSE p[Len(s)]
  BY <1>1, <1>3, <1>8 DEF IsOnly
<1> QED BY <1>1, <1>2, <1>3, <1>7, <1>9 DEF r

LEMMA OnlyCat ==
  ASSUME NEW S, NEW s \in Seq(S), NEW t \in Seq(S), NEW K
  PROVE  Only(Cat(s, t), K) = Cat(Only(s, K), Only(t, K))
<1> DEFINE T == {u \in Seq(S) : Only(Cat(s, u), K) = Cat(Only(s, K), Only(u, K))}
<1>0. \A r \in Seq(S), e \in S :
        Only(Cat(r, One(e)), K) = IF e \in K THEN Cat(Only(r, K), One(e))
                                  ELSE Only(r, K)
  <2> SUFFICES ASSUME NEW r \in Seq(S), NEW e \in S
               PROVE  Only(Cat(r, One(e)), K)
                        = IF e \in K THEN Cat(Only(r, K), One(e)) ELSE Only(r, K)
    OBVIOUS
  <2>1. Only(r, K) \in Seq(S)
    BY OnlyType
  <2>2. Cat(r, One(e)) = Append(r, e) /\ Cat(Only(r, K), One(e)) = Append(Only(r, K), e)
    BY <2>1, CatOne
  <2> QED BY <2>2, OnlyAppend, Zenon
<1>1. <<>> \in T
  <2>1. Cat(s, <<>>) = s /\ Cat(Only(s, K), <<>>) = Only(s, K)
    BY OnlyType, CatEmpty
  <2>2. Only(Cat(s, <<>>), K) = Cat(Only(s, K), Only(<<>>, K))
    BY <2>1, OnlyEmpty, Zenon
  <2> QED BY <2>2
<1>2. ASSUME NEW u \in Seq(S), NEW e \in S, u \in T
      PROVE  Append(u, e) \in T
  <2>1. /\ Append(u, e) = Cat(u, One(e)) /\ One(e) \in Seq(S)
        /\ Cat(u, One(e)) \in Seq(S) /\ Cat(s, u) \in Seq(S)
    BY CatType, CatOne
  <2>2. Only(Cat(s, u), K) = Cat(Only(s, K), Only(u, K))
    BY <1>2
  <2>3. Only(s, K) \in Seq(S) /\ Only(u, K) \in Seq(S)
    BY OnlyType
  <2>4. Only(Cat(s, Cat(u, One(e))), K) = Cat(Only(s, K), Only(Cat(u, One(e)), K))
    BY <1>0, <2>1, <2>2, <2>3, CatAssoc
  <2> QED BY <2>1, <2>4
<1>3. Seq(S) \subseteq T
  <2> HIDE DEF T
  <2> QED BY <1>1, <1>2, SeqInduct
<1> QED BY <1>3

LEMMA OnlyOne ==
  ASSUME NEW e, NEW K
  PROVE  Only(One(e), K) = IF e \in K THEN One(e) ELSE <<>>
<1> DEFINE s == <<>>
<1>1. /\ s \in Seq({e}) /\ One(e) = Append(s, e)
      /\ Only(s, K) = s
  BY OnlyEmpty DEF One
<1> HIDE DEF s
<1>2. Only(One(e), K) = IF e \in K THEN One(e) ELSE s
  BY <1>1, OnlyAppend
<1> QED BY <1>2 DEF s

\* Nothing is left of a sequence with no element in K.
LEMMA OnlyNone ==
  ASSUME NEW S, NEW s \in Seq(S), NEW K, \A i \in 1..Len(s) : s[i] \notin K
  PROVE  Only(s, K) = <<>>
<1>1. Only(s, K) \in Seq((S \ K) \cap K)
  <2>1. s \in Seq(S \ K)
    BY LenProperties, ElementOfSeq
  <2> QED BY <2>1, OnlyType
<1> QED BY <1>1, EmptySeq, ElementOfSeq

-----------------------------------------------------------------------------
(* Flattening.                                                              *)

\* The local function of FlattenSeq.
FlattenOf(seqs) ==
  CHOOSE flatten : flatten =
    [i \in 1..Len(seqs) |->
       IF i = 1 THEN seqs[i] ELSE flatten[i-1] \o seqs[i]]

\* Its equations.
IsFlatten(f, seqs) ==
  /\ Len(seqs) > 0 => f[1] = seqs[1]
  /\ \A i \in 2..Len(seqs) : f[i] = Cat(f[i - 1], seqs[i])

LEMMA FlattenOfDef ==
  ASSUME NEW S, NEW seqs \in Seq(Seq(S)), seqs # <<>>
  PROVE  /\ FlattenSeq(seqs) = FlattenOf(seqs)[Len(seqs)]
         /\ FlattenOf(seqs) \in [1..Len(seqs) -> Seq(S)]
         /\ IsFlatten(FlattenOf(seqs), seqs)
<1> DEFINE V == Seq(S)
           L == Len(seqs)
           F == [i \in 1..L |-> [v \in V |->
                   IF i = 1 THEN seqs[i] ELSE v \o seqs[i]]]
           Rec(f) == [i \in 1..L |->
                        IF i = 1 THEN seqs[i] ELSE f[i-1] \o seqs[i]]
<1>1. L \in Nat /\ L > 0 /\ \A i \in 1..L : seqs[i] \in V
  BY LenProperties, ElementOfSeq, EmptySeq
<1>2. F \in Steps(L, V)
  <2>1. ASSUME NEW i \in 1..L, NEW v \in V PROVE v \o seqs[i] \in V
    BY <1>1, ConcatProperties
  <2> HIDE DEF V, L
  <2> QED BY <1>1, <2>1 DEF Steps
<1>3. PICK f \in [0..L -> V] : \A i \in 1..L : f[i] = F[i][f[i - 1]]
  <2> DEFINE none == <<>>
  <2>1. none \in V
    OBVIOUS
  <2> HIDE DEF F, V, L, none
  <2> QED BY <1>1, <1>2, <2>1, PrefixRecursion
<1>4. \A i \in 1..L : f[i] = IF i = 1 THEN seqs[i] ELSE f[i - 1] \o seqs[i]
  <2> HIDE DEF V, L
  <2>1. \A i \in 1..L : i - 1 \in 0..L
    BY <1>1
  <2>2. \A i \in 1..L : f[i - 1] \in V
    BY <2>1
  <2> QED BY <1>3, <2>2
<1> DEFINE g == [i \in 1..L |-> f[i]]
<1>5. g = Rec(g)
  <2>1. \A i \in 1..L : g[i] = f[i]
    OBVIOUS
  <2>2. \A i \in 1..L : i # 1 => i - 1 \in 1..L
    BY <1>1
  <2> HIDE DEF V, L
  <2>3. \A i \in 1..L : g[i] = Rec(g)[i]
    BY <1>4, <2>1, <2>2
  <2> QED BY <2>3
<1>6. FlattenOf(seqs) = Rec(FlattenOf(seqs))
  BY <1>5, Zenon DEF FlattenOf
<1> DEFINE o == FlattenOf(seqs)
<1>7. /\ DOMAIN o = 1..L
      /\ o[1] = seqs[1]
      /\ \A i \in 2..L : o[i] = o[i - 1] \o seqs[i]
  <2> HIDE DEF o
  <2>1. o = Rec(o)
    BY <1>6 DEF o
  <2> HIDE DEF L
  <2>2. DOMAIN o = 1..L /\ \A i \in 1..L : o[i] = Rec(o)[i]
    BY <2>1, Zenon
  <2>3. 1 \in 1..L /\ \A i \in 2..L : i \in 1..L /\ i # 1
    BY <1>1
  <2> QED BY <2>2, <2>3, Zenon
<1>8. \A i \in 1..L : o[i] \in V
  <2> DEFINE T == {i \in Nat : i + 1 <= L => o[i + 1] \in V}
  <2> HIDE DEF o
  <2>1. 0 \in T
    BY <1>1, <1>7
  <2>2. ASSUME NEW n \in Nat, n \in T PROVE n + 1 \in T
    <3> SUFFICES ASSUME (n + 1) + 1 <= L PROVE o[(n + 1) + 1] \in V
      OBVIOUS
    <3> HIDE DEF V, L
    <3>1. /\ o[n + 1] \in V /\ n + 2 \in 2..L /\ seqs[n + 2] \in V
          /\ (n + 2) - 1 = n + 1 /\ (n + 1) + 1 = n + 2
      BY <1>1, <2>2
    <3>2. o[n + 2] = o[n + 1] \o seqs[n + 2]
      BY <1>7, <3>1
    <3>3. o[n + 1] \o seqs[n + 2] \in V
      BY <3>1, ConcatProperties DEF V
    <3> QED BY <3>1, <3>2, <3>3
  <2> HIDE DEF T
  <2>3. Nat \subseteq T
    BY <2>1, <2>2, NatInduct
  <2>4. \A i \in 1..L : i - 1 \in T
    BY <1>1, <2>3
  <2>5. \A i \in 1..L : (i - 1) + 1 <= L /\ (i - 1) + 1 = i
    BY <1>1
  <2> QED BY <2>4, <2>5 DEF T
<1>9. FlattenSeq(seqs) = o[L]
  <2>1. Len(seqs) # 0
    BY <1>1
  <2> QED BY <2>1, Zenon DEF FlattenSeq, FlattenOf
<1>10. o \in [1..L -> V]
  <2>1. o = Rec(o)
    BY <1>6
  <2> HIDE DEF o, V, L
  <2> QED BY <1>7, <1>8, <2>1
<1>11. IsFlatten(o, seqs)
  BY <1>7, Zenon DEF IsFlatten, Cat
<1> QED BY <1>9, <1>10, <1>11

LEMMA FlattenEmpty == FlattenSeq(<<>>) = <<>>
BY DEF FlattenSeq

LEMMA FlattenType ==
  ASSUME NEW S, NEW seqs \in Seq(Seq(S))
  PROVE  FlattenSeq(seqs) \in Seq(S)
<1>1. CASE seqs = <<>>
  <2>1. <<>> \in Seq(S)
    OBVIOUS
  <2> QED BY <1>1, <2>1, FlattenEmpty, Zenon
<1>2. CASE seqs # <<>>
  <2>1. Len(seqs) \in 1..Len(seqs)
    BY <1>2, LenProperties, EmptySeq
  <2>2. FlattenSeq(seqs) = FlattenOf(seqs)[Len(seqs)]
    BY <1>2, FlattenOfDef
  <2>3. FlattenOf(seqs) \in [1..Len(seqs) -> Seq(S)]
    BY <1>2, FlattenOfDef
  <2> QED BY <2>1, <2>2, <2>3, Zenon
<1> QED BY <1>1, <1>2

LEMMA FlattenAppend ==
  ASSUME NEW S, NEW seqs \in Seq(Seq(S)), NEW s \in Seq(S)
  PROVE  FlattenSeq(Append(seqs, s)) = Cat(FlattenSeq(seqs), s)
<1> DEFINE r == Append(seqs, s)
           L == Len(seqs)
           o == FlattenOf(seqs)
           p == FlattenOf(r)
<1>1. /\ L \in Nat /\ r \in Seq(Seq(S)) /\ Len(r) = L + 1
      /\ \A i \in 1..L : r[i] = seqs[i]
      /\ r[L + 1] = s
  BY AppendProperties, LenProperties
<1> HIDE DEF r
<1>2. r # <<>>
  <2>1. Len(r) # 0
    <3> HIDE DEF L
    <3> QED BY <1>1
  <2> QED BY <2>1, EmptySeq
<1>3. FlattenSeq(r) = p[L + 1] /\ IsFlatten(p, r)
  BY <1>1, <1>2, FlattenOfDef
<1>4. CASE seqs = <<>>
  <2>1. L = 0
    BY <1>4
  <2>2. p[1] = s
    BY <1>1, <1>3, <2>1 DEF IsFlatten
  <2>3. FlattenSeq(seqs) = <<>>
    BY <1>4, FlattenEmpty
  <2>4. Cat(<<>>, s) = s
    BY CatEmpty
  <2>5. L + 1 = 1
    BY <2>1
  <2>6. FlattenSeq(r) = s
    BY <1>3, <2>2, <2>5
  <2>7. Cat(FlattenSeq(seqs), s) = s
    BY <2>3, <2>4, Zenon
  <2> QED BY <2>6, <2>7 DEF r
<1>5. CASE seqs # <<>>
  <2>1. FlattenSeq(seqs) = o[L] /\ IsFlatten(o, seqs) /\ L > 0
    BY <1>1, <1>5, FlattenOfDef, EmptySeq
  <2> DEFINE T == {i \in Nat : i + 1 <= L => p[i + 1] = o[i + 1]}
  <2> HIDE DEF o, p
  <2>2. 0 \in T
    BY <1>1, <1>3, <2>1 DEF IsFlatten
  <2>3. ASSUME NEW n \in Nat, n \in T PROVE n + 1 \in T
    <3> SUFFICES ASSUME (n + 1) + 1 <= L PROVE p[(n + 1) + 1] = o[(n + 1) + 1]
      OBVIOUS
    <3>1. /\ p[n + 1] = o[n + 1] /\ n + 2 \in 2..L /\ n + 2 \in 2..Len(r)
          /\ n + 2 \in 1..L /\ (n + 2) - 1 = n + 1 /\ (n + 1) + 1 = n + 2
      BY <1>1, <2>3
    <3>2. r[n + 2] = seqs[n + 2]
      BY <1>1, <3>1
    <3> QED BY <1>3, <2>1, <3>1, <3>2 DEF IsFlatten
  <2> HIDE DEF T
  <2>4. Nat \subseteq T
    BY <2>2, <2>3, NatInduct
  <2>5. L - 1 \in T /\ (L - 1) + 1 = L
    BY <1>1, <2>1, <2>4
  <2>6. p[L] = o[L]
    BY <2>5 DEF T
  <2>7. L + 1 \in 2..Len(r) /\ (L + 1) - 1 = L
    BY <1>1, <2>1
  <2>8. p[L + 1] = Cat(p[L], s)
    BY <1>1, <1>3, <2>7 DEF IsFlatten
  <2> QED BY <1>3, <2>1, <2>6, <2>8 DEF r
<1> QED BY <1>4, <1>5

LEMMA FlattenOne ==
  ASSUME NEW S, NEW s \in Seq(S)
  PROVE  FlattenSeq(One(s)) = s
<1> DEFINE none == <<>>
<1>1. none \in Seq(Seq(S)) /\ One(s) = Append(none, s)
  BY DEF One
<1>2. FlattenSeq(none) = <<>>
  BY FlattenEmpty
<1> HIDE DEF none
<1>3. FlattenSeq(One(s)) = Cat(FlattenSeq(none), s)
  BY <1>1, FlattenAppend
<1>4. Cat(<<>>, s) = s
  BY CatEmpty
<1> QED BY <1>2, <1>3, <1>4, Zenon

LEMMA FlattenCat ==
  ASSUME NEW S, NEW a \in Seq(Seq(S)), NEW b \in Seq(Seq(S))
  PROVE  FlattenSeq(Cat(a, b)) = Cat(FlattenSeq(a), FlattenSeq(b))
<1> DEFINE T == {u \in Seq(Seq(S)) :
                   FlattenSeq(Cat(a, u)) = Cat(FlattenSeq(a), FlattenSeq(u))}
<1>1. <<>> \in T
  <2>1. Cat(a, <<>>) = a /\ Cat(FlattenSeq(a), <<>>) = FlattenSeq(a)
    BY FlattenType, CatEmpty
  <2>2. FlattenSeq(Cat(a, <<>>)) = Cat(FlattenSeq(a), FlattenSeq(<<>>))
    BY <2>1, FlattenEmpty, Zenon
  <2> QED BY <2>2
<1>2. ASSUME NEW u \in Seq(Seq(S)), NEW e \in Seq(S), u \in T
      PROVE  Append(u, e) \in T
  <2>1. Append(u, e) = Cat(u, One(e)) /\ One(e) \in Seq(Seq(S))
    BY CatOne
  <2>2. Cat(a, u) \in Seq(Seq(S)) /\ Append(u, e) \in Seq(Seq(S))
    BY <2>1, CatType
  <2>3. Cat(a, Append(u, e)) = Append(Cat(a, u), e)
    <3>1. Append(Cat(a, u), e) = Cat(Cat(a, u), One(e))
      BY <2>2, CatOne
    <3> QED BY <2>1, <3>1, CatAssoc
  <2>4. FlattenSeq(Append(Cat(a, u), e)) = Cat(FlattenSeq(Cat(a, u)), e)
    BY <2>2, FlattenAppend
  <2>5. FlattenSeq(Cat(a, u)) = Cat(FlattenSeq(a), FlattenSeq(u))
    BY <1>2
  <2>6. FlattenSeq(Append(u, e)) = Cat(FlattenSeq(u), e)
    BY FlattenAppend
  <2>7. Cat(Cat(FlattenSeq(a), FlattenSeq(u)), e)
          = Cat(FlattenSeq(a), Cat(FlattenSeq(u), e))
    BY FlattenType, CatAssoc
  <2>8. FlattenSeq(Cat(a, Append(u, e)))
          = Cat(FlattenSeq(a), FlattenSeq(Append(u, e)))
    BY <2>3, <2>4, <2>5, <2>6, <2>7, Zenon
  <2> QED BY <2>2, <2>8
<1>3. Seq(Seq(S)) \subseteq T
  <2> HIDE DEF T
  <2> QED BY <1>1, <1>2, SeqInduct
<1> QED BY <1>3

-----------------------------------------------------------------------------
(* Prefixes.                                                                *)

LEMMA CatPrefix ==
  ASSUME NEW S, NEW s \in Seq(S), NEW t \in Seq(S)
  PROVE  IsPrefix(s, Cat(s, t))
<1>1. /\ Len(s) \in Nat /\ Len(t) \in Nat
      /\ Len(Cat(s, t)) = Len(s) + Len(t)
      /\ \A i \in 1..Len(s) : Cat(s, t)[i] = s[i]
  BY ConcatProperties, LenProperties DEF Cat
<1>2. SubSeq(s, 1, Len(s)) = SubSeq(Cat(s, t), 1, Len(s))
  BY <1>1
<1> QED BY <1>1, <1>2 DEF IsPrefix

LEMMA PrefixRest ==
  ASSUME NEW S, NEW s \in Seq(S), NEW t \in Seq(S), IsPrefix(s, t)
  PROVE  \E u \in Seq(S) : t = Cat(s, u)
<1> DEFINE u == SubSeq(t, Len(s) + 1, Len(t))
<1>1. /\ Len(s) \in Nat /\ Len(t) \in Nat /\ Len(s) <= Len(t)
      /\ \A i \in 1..Len(t) : t[i] \in S
  BY LenProperties, ElementOfSeq DEF IsPrefix
<1>2. \A i \in 1..Len(s) : t[i] = s[i]
  <2>1. SubSeq(s, 1, Len(s)) = SubSeq(t, 1, Len(s))
    BY DEF IsPrefix
  <2>2. \A i \in 1..Len(s) : SubSeq(s, 1, Len(s))[i] = s[i]
    BY <1>1
  <2>3. \A i \in 1..Len(s) : SubSeq(t, 1, Len(s))[i] = t[i]
    BY <1>1
  <2> QED BY <2>1, <2>2, <2>3
<1>3. /\ u \in Seq(S) /\ Len(u) = Len(t) - Len(s)
      /\ \A i \in 1..Len(u) : u[i] = t[Len(s) + i]
  BY <1>1, SubSeqProperties
<1> HIDE DEF u
<1>4. /\ Cat(s, u) \in Seq(S) /\ Len(Cat(s, u)) = Len(t)
      /\ \A i \in 1..Len(t) :
           Cat(s, u)[i] = IF i <= Len(s) THEN s[i] ELSE u[i - Len(s)]
  BY <1>1, <1>3, ConcatProperties DEF Cat
<1>5. \A i \in 1..Len(t) : Cat(s, u)[i] = t[i]
  BY <1>1, <1>2, <1>3, <1>4
<1> QED BY <1>3, <1>4, <1>5, SeqEqual

LEMMA PrefixCat ==
  ASSUME NEW S, NEW s \in Seq(S), NEW t \in Seq(S), NEW u \in Seq(S),
         IsPrefix(s, t)
  PROVE  IsPrefix(s, Cat(t, u))
<1>1. PICK v \in Seq(S) : t = Cat(s, v)
  BY PrefixRest
<1>2. Cat(t, u) = Cat(s, Cat(v, u)) /\ Cat(v, u) \in Seq(S)
  BY <1>1, CatAssoc, CatType
<1> QED BY <1>2, CatPrefix
=============================================================================

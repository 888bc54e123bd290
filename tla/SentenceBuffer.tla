--------------------------- MODULE SentenceBuffer ---------------------------
(***************************************************************************)
(* How voice-gateway cuts a streamed reply into sentences to speak         *)
(* (roombot/sentence.go): every chunk that arrives is pushed into a        *)
(* buffer, the sentences it completes are spoken, and the end of the       *)
(* stream flushes the rest (turn.go).                                      *)
(*                                                                         *)
(* A character is <<class, position in the reply>>: the classes are all    *)
(* the code tells apart, the position tells equal characters apart.        *)
(***************************************************************************)
EXTENDS Naturals, Sequences, SequencesExt, Subsequence

CONSTANT MaxLen  \* bound: characters of the reply

ASSUME MaxLenIsNat == MaxLen \in Nat

Classes == {"letter", "stop", "closer", "space", "newline"}
Chars == Classes \X (1..MaxLen)

VARIABLES
  buf,       \* sentenceBuffer.buf
  received,  \* the reply so far
  spoken,    \* the sentences handed to speak(), in order
  flushed    \* afterStream called Flush()

vars == <<buf, received, spoken, flushed>>

Spaces == {"space", "newline"}
IsSpace(c) == c[1] \in Spaces
IsSentenceEnd(c) == c[1] \in {"stop", "newline"}

Solid(text) == Only(text, {c \in Chars : ~IsSpace(c)})

TypeOK ==
  /\ buf \in Seq(Chars)
  /\ received \in Seq(Chars)
  /\ spoken \in Seq(Seq(Chars) \ {<<>>})
  /\ flushed \in BOOLEAN

Init ==
  /\ buf = <<>>
  /\ received = <<>>
  /\ spoken = <<>>
  /\ flushed = FALSE

-----------------------------------------------------------------------------
(* Splitting.                                                               *)

\* The first position from i on whose character is of no class in classes,
\* or one past raw.
Skip(raw, i, classes) ==
  LET past == {j \in i..Len(raw) : raw[j][1] \notin classes}
  IN  IF past = {} THEN Len(raw) + 1
      ELSE CHOOSE j \in past : \A k \in past : j <= k

SkipClosers(raw, i) == Skip(raw, i, {"closer"})
SkipSpaces(raw, i) == Skip(raw, i, Spaces)

TrimSpace(text) ==
  LET from == SkipSpaces(text, 1)
      upto == Len(text) + 1 - SkipSpaces(Reverse(text), 1)
  IN  SubSeq(text, from, upto)

\* A sentence end counts at the end of the buffer or before a space; Flush
\* drops the second half of the test.
Boundary(raw, i, flush) ==
  /\ IsSentenceEnd(raw[i])
  /\ LET j == SkipClosers(raw, i + 1)
     IN  j > Len(raw) \/ IsSpace(raw[j]) \/ flush

Ends(raw, flush) == {i \in 1..Len(raw) : Boundary(raw, i, flush)}

\* One past the first sentence that ends at start or later.
EndFrom(raw, flush, start) ==
  LET i == CHOOSE k \in Ends(raw, flush) :
             k >= start /\ \A m \in Ends(raw, flush) : m >= start => k <= m
  IN  SkipClosers(raw, i + 1)

\* What is appended to the output for text: nothing, if it is blank.
Sentence(text) == IF TrimSpace(text) = <<>> THEN <<>> ELSE <<TrimSpace(text)>>

\* The sentences of raw in order, and where the one under construction starts.
SplitSentences(raw, flush) ==
  LET split[start \in 1..(Len(raw) + 1)] ==
        IF \A i \in Ends(raw, flush) : i < start
        THEN IF flush
             THEN [out |-> Sentence(SubSeq(raw, start, Len(raw))),
                   start |-> Len(raw) + 1]
             ELSE [out |-> <<>>, start |-> start]
        ELSE LET end == EndFrom(raw, flush, start)
                 rest == split[SkipSpaces(raw, end)]
             IN  [out |-> Sentence(SubSeq(raw, start, end - 1)) \o rest.out,
                  start |-> rest.start]
  IN  split[1]

-----------------------------------------------------------------------------
(* Mutated forms of definitions below: plausible bugs that the runs must    *)
(* notice.  No action of Next uses them.                                    *)

\* extract that speaks only the first sentence a chunk completes.
PushFirstOnly(chunk) ==
  /\ ~flushed
  /\ LET split == SplitSentences(buf \o chunk, FALSE)
     IN  /\ spoken' = IF split.out = <<>> THEN spoken
                      ELSE Append(spoken, Head(split.out))
         /\ buf' = SubSeq(buf \o chunk, split.start, Len(buf \o chunk))
  /\ received' = received \o chunk
  /\ UNCHANGED flushed

\* extract that forgets to write the remainder back.
PushKeepsAll(chunk) ==
  /\ ~flushed
  /\ spoken' = spoken \o SplitSentences(buf \o chunk, FALSE).out
  /\ buf' = buf \o chunk
  /\ received' = received \o chunk
  /\ UNCHANGED flushed

\* Flush that does not trim what is left.
FlushUntrimmed ==
  /\ ~flushed
  /\ flushed' = TRUE
  /\ spoken' = Append(spoken, buf)
  /\ buf' = <<>>
  /\ UNCHANGED received

-----------------------------------------------------------------------------
(* The buffer's operations.                                                 *)

\* Push: a chunk of the reply, speakSentences for what it completes.
Push(chunk) ==
  /\ ~flushed
  /\ LET raw == buf \o chunk
         split == SplitSentences(raw, FALSE)
     IN  /\ spoken' = spoken \o split.out
         /\ buf' = SubSeq(raw, split.start, Len(raw))
  /\ received' = received \o chunk
  /\ UNCHANGED flushed

\* Flush: the first part of what is left is spoken; the buffer is emptied.
Flush ==
  /\ ~flushed
  /\ flushed' = TRUE
  /\ LET parts == SplitSentences(buf, TRUE).out
     IN  spoken' = IF parts = <<>> THEN spoken ELSE Append(spoken, Head(parts))
  /\ buf' = <<>>
  /\ UNCHANGED received

\* A chunk of any length and classes, at the position it has in the reply.
Chunk ==
  {[i \in 1..n |-> <<class[i], Len(received) + i>>] :
     n \in 1..(MaxLen - Len(received)), class \in [1..MaxLen -> Classes]}

Done == flushed /\ UNCHANGED vars

Next == (\E chunk \in Chunk : Push(chunk)) \/ Flush \/ Done

Spec == Init /\ [][Next]_vars

-----------------------------------------------------------------------------
(* Properties.                                                              *)

\* While the reply streams, what was spoken and what is buffered are together
\* the reply, in order and without a gap, however it is cut into chunks.
NothingLost ==
  ~flushed => Solid(FlattenSeq(spoken)) \o Solid(buf) = Solid(received)

\* A completed sentence never waits for the next chunk (tts-phase4.md: longer
\* replies begin speaking before the full stream finishes).
NoSentenceWaits == ~flushed => SplitSentences(buf, FALSE).out = <<>>

\* Whatever is spoken, flushed rest included, is a beginning of the reply:
\* nothing is repeated, reordered or skipped over; no sentence is blank or
\* padded, which Speak would refuse.
SpeechFollowsReply ==
  /\ IsPrefix(Solid(FlattenSeq(spoken)), Solid(received))
  /\ \A i \in 1..Len(spoken) :
       spoken[i] # <<>> /\ spoken[i] = TrimSpace(spoken[i])

-----------------------------------------------------------------------------
(* What the documents say and the code does not do.                         *)

\* sentence.go:22: "Flush returns any remaining buffered text as a final
\* sentence".
FlushSpeaksTheRest ==
  flushed => Solid(FlattenSeq(spoken)) = Solid(received)

\* When it does: if what is left has one part at most, and then only.
FlushSpeaksOnePart ==
  [][Flush => (FlushSpeaksTheRest' <=> Len(SplitSentences(buf, TRUE).out) <= 1)]_vars
=============================================================================

------------------------- MODULE ConversationProofs -------------------------
(***************************************************************************)
(* Proofs about Conversation for any number of turns, chunks and any       *)
(* capacity of the channels.  Inv speaks of one turn at a time (TurnInv):  *)
(* how far its goroutines are, whether its utterance is in the store,      *)
(* whether a failure or [DONE] is on its way to the client, and what the   *)
(* store then holds; where the words of its reply are (WordsFlow); and who *)
(* is at the two ends of its channels (AllPartners).  A step of one turn   *)
(* leaves the others alone, but for the store, to which it adds messages   *)
(* of its own turn only.                                                   *)
(***************************************************************************)
EXTENDS Conversation, SubsequenceProofs

\* What a sequence holds after Append.
LEMMA InSeqAppend ==
  ASSUME NEW S, NEW s \in Seq(S), NEW e \in S, NEW m
  PROVE  InSeq(m, Append(s, e)) <=> InSeq(m, s) \/ m = e
<1> DEFINE r == Append(s, e)
<1>1. /\ Len(s) \in Nat /\ Len(r) = Len(s) + 1
      /\ \A i \in 1..Len(s) : r[i] = s[i]
      /\ r[Len(s) + 1] = e
  BY AppendProperties, LenProperties
<1> HIDE DEF r
<1>2. InSeq(m, r) <=> InSeq(m, s) \/ m = e
  BY <1>1 DEF InSeq
<1> QED BY <1>2 DEF r

\* What a sequence holds once its head is taken.
LEMMA InSeqTail ==
  ASSUME NEW S, NEW s \in Seq(S), s # <<>>, NEW m
  PROVE  InSeq(m, s) <=> m = Head(s) \/ InSeq(m, Tail(s))
<1> DEFINE r == Tail(s)
<1>1. /\ Len(s) \in Nat /\ Len(r) = Len(s) - 1 /\ Len(s) # 0
      /\ \A i \in 1..Len(r) : r[i] = s[i + 1]
  BY HeadTailProperties, LenProperties, EmptySeq
<1>2. Head(s) = s[1]
  OBVIOUS
<1> HIDE DEF r
<1>3. InSeq(m, s) <=> m = Head(s) \/ InSeq(m, r)
  <2>1. ASSUME NEW i \in 1..Len(s), s[i] = m
        PROVE  m = Head(s) \/ InSeq(m, r)
    <3>1. CASE i = 1
      BY <2>1, <3>1, <1>2
    <3>2. CASE i # 1
      <4>1. i - 1 \in 1..Len(r) /\ r[i - 1] = s[i]
        BY <1>1, <3>2
      <4> QED BY <4>1, <2>1 DEF InSeq
    <3> QED BY <3>1, <3>2
  <2>2. ASSUME NEW i \in 1..Len(r), r[i] = m
        PROVE  InSeq(m, s)
    <3>1. i + 1 \in 1..Len(s) /\ s[i + 1] = m
      BY <1>1, <2>2
    <3> QED BY <3>1 DEF InSeq
  <2>3. m = Head(s) => InSeq(m, s)
    <3>1. 1 \in 1..Len(s)
      BY <1>1
    <3> QED BY <3>1, <1>2 DEF InSeq
  <2> QED BY <2>1, <2>2, <2>3 DEF InSeq
<1> QED BY <1>3 DEF r

LEMMA InSeqEmpty == ASSUME NEW m PROVE ~InSeq(m, <<>>)
BY DEF InSeq

LEMMA InitInv == Init => Inv
<1> SUFFICES ASSUME Init PROVE Inv
  OBVIOUS
<1> USE BoundsAreNat, InSeqEmpty DEF Init
<1>1. TypeOK
  BY DEF TypeOK, Kinds, Chunks, Texts, Events, Messages
<1>2. OneClient
  BY DEF OneClient
<1>3. TurnInv
  BY DEF TurnInv, Progress, Asked, Lost, Kept, User, Stored, Failing, Speaks,
         Kinds, Texts
<1>4. CompletedTurnsAreRemembered
  BY DEF CompletedTurnsAreRemembered
<1>5. RepliesAreSound
  BY DEF RepliesAreSound
<1>6. WordsFlow
  <2> SUFFICES ASSUME NEW t \in Turns PROVE Flow(t)
    BY DEF WordsFlow
  <2>1. Words(<<>>) = <<>> /\ Words(<<"none">>) = <<>>
    <3>1. Words(One("none")) = <<>>
      BY OnlyOne DEF Words
    <3> QED BY <3>1, OnlyEmpty DEF Words, One
  <2>2. Conserved(t)
    <3>1. /\ heard[t] = <<>> /\ wire[t] = <<>> /\ out[t] = <<>>
          /\ assistant[t] = <<>> /\ carry[t] = "none"
      OBVIOUS
    <3>2. <<>> \o <<>> \o <<>> \o <<>> = <<>>
      OBVIOUS
    <3> QED BY <2>1, <3>1, <3>2, Zenon DEF Conserved
  <2>3. IsPrefix(heard[t], Words(assistant[t]))
    BY <2>1 DEF IsPrefix
  <2> QED BY <2>2, <2>3 DEF Flow
<1>7. AllPartners
  BY DEF AllPartners, Partners
<1> QED BY <1>1, <1>2, <1>3, <1>4, <1>5, <1>6, <1>7 DEF Inv

LEMMA TypeStep == Inv /\ [Next]_vars => TypeOK'
<1> SUFFICES ASSUME TypeOK, TurnInv, [Next]_vars PROVE TypeOK'
  BY DEF Inv
<1> USE BoundsAreNat
    DEF TypeOK, Put, clientVars, serverVars, forwardVars, pumpVars,
        channelVars, storeVars
<1>1. ASSUME NEW t \in Turns, Post(t) \/ Abort(t) \/ Disconnected(t)
      PROVE  TypeOK'
  <2>1. CASE Post(t)
    BY <2>1 DEF Post
  <2>2. CASE Abort(t)
    BY <2>2 DEF Abort
  <2>3. CASE Disconnected(t)
    BY <2>3 DEF Disconnected
  <2> QED BY <1>1, <2>1, <2>2, <2>3
<1>2. ASSUME NEW t \in Turns, StreamTurn(t) PROVE TypeOK'
  <2>1. wire[t] # <<>> /\ wire' = [wire EXCEPT ![t] = Tail(wire[t])]
    BY <1>2 DEF StreamTurn, ReadText, ReadEnd
  <2>2. Tail(wire[t]) \in Seq(Events)
    BY <2>1, HeadTailProperties
  <2>3. CASE ReadText(t)
    <3>1. Append(heard[t], "word") \in Seq({"word"})
      BY AppendProperties
    <3> QED BY <2>3, <2>1, <2>2, <3>1 DEF ReadText
  <2>4. CASE ReadEnd(t)
    BY <2>4, <2>1, <2>2 DEF ReadEnd, OutcomeOf
  <2> QED BY <1>2, <2>3, <2>4 DEF StreamTurn
<1>3. ASSUME NEW t \in Turns, NEW event \in Events, Write(t, event)
      PROVE  wire' \in [Turns -> Seq(Events)]
  <2>1. Append(wire[t], event) \in Seq(Events)
    BY AppendProperties
  <2> QED BY <1>3, <2>1 DEF Write
<1>4. ASSUME NEW t \in Turns, Refuse(t) \/ StreamFails(t) \/ CopyDone(t)
      PROVE  TypeOK'
  <2>1. wire' \in [Turns -> Seq(Events)]
    BY <1>3, <1>4 DEF Refuse, StreamFails, CopyDone, Events
  <2> QED BY <2>1, <1>4 DEF Refuse, StreamFails, CopyDone
<1>5. ASSUME NEW t \in Turns, AppendUser(t) PROVE TypeOK'
  <2>1. <<"user", t>> \in Messages
    BY DEF Messages
  <2>2. Append(history, <<"user", t>>) \in Seq(Messages)
    BY <2>1, AppendProperties
  <2> QED BY <1>5, <2>2 DEF AppendUser
<1>6. ASSUME NEW t \in Turns, StreamOpens(t) \/ CloseOut(t) \/ ScanEnds(t)
      PROVE  TypeOK'
  BY <1>6 DEF StreamOpens, CloseOut, ScanEnds
<1>7. ASSUME NEW t \in Turns, CopyText(t) \/ CopyError(t) PROVE TypeOK'
  <2>1. out[t] # <<>> /\ out' = [out EXCEPT ![t] = Tail(out[t])]
    BY <1>7 DEF CopyText, CopyError
  <2>2. Tail(out[t]) \in Seq(Chunks) /\ Len(Tail(out[t])) <= Cap
    BY <2>1, HeadTailProperties, LenProperties
  <2>3. wire' \in [Turns -> Seq(Events)]
    BY <1>3, <1>7 DEF CopyText, CopyError, Events, Texts
  <2> QED BY <1>7, <2>1, <2>2, <2>3 DEF CopyText, CopyError
<1>8. ASSUME NEW t \in Turns, TakeChunk(t) PROVE TypeOK'
  <2>1. upstream[t] # <<>>
    BY <1>8 DEF TakeChunk
  <2>2. /\ Head(upstream[t]) \in Chunks
        /\ Tail(upstream[t]) \in Seq(Chunks) /\ Len(Tail(upstream[t])) <= Cap
    BY <2>1, HeadTailProperties, LenProperties
  <2>3. Head(upstream[t]) \in Texts
          => Append(assistant[t], Head(upstream[t])) \in Seq(Texts)
    BY AppendProperties
  <2> QED BY <1>8, <2>2, <2>3 DEF TakeChunk
<1>9. ASSUME NEW t \in Turns, NEW chunk \in Chunks, NEW q \in Seq(Chunks),
             Len(q) < Cap
      PROVE  Append(q, chunk) \in Seq(Chunks) /\ Len(Append(q, chunk)) <= Cap
  BY <1>9, AppendProperties, LenProperties
<1>10. ASSUME NEW t \in Turns, SendChunk(t) PROVE TypeOK'
  <2>1. /\ Append(out[t], carry[t]) \in Seq(Chunks)
        /\ Len(Append(out[t], carry[t])) <= Cap
    BY <1>9, <1>10 DEF SendChunk, TurnInv, Progress
  <2>2. /\ out' = [out EXCEPT ![t] = Append(out[t], carry[t])]
        /\ carry' = [carry EXCEPT ![t] = "none"]
        /\ forward' \in [Turns -> {"idle", "take", "send", "close", "returned"}]
        /\ outClosed' \subseteq Turns
        /\ UNCHANGED <<client, outcome, heard, handler, gone, assistant, pump,
                       produced, upstream, upClosed, wire, history, prompt,
                       llm>>
    BY <1>10 DEF SendChunk
  <2> HIDE DEF Put
  <2>3. /\ out' \in [Turns -> Seq(Chunks)]
        /\ \A u \in Turns : Len(out'[u]) <= Cap
    BY <2>1, <2>2
  <2> QED BY <2>2, <2>3
<1>11. ASSUME NEW t \in Turns, StoreReply(t) PROVE TypeOK'
  <2>1. <<"assistant", t>> \in Messages
    BY DEF Messages
  <2>2. Append(history, <<"assistant", t>>) \in Seq(Messages)
    BY <2>1, AppendProperties
  <2> QED BY <1>11, <2>2 DEF StoreReply
<1>12. ASSUME NEW t \in Turns, NEW chunk \in Texts, ScanText(t, chunk)
       PROVE TypeOK'
  <2>1. /\ Append(upstream[t], chunk) \in Seq(Chunks)
        /\ Len(Append(upstream[t], chunk)) <= Cap
    BY <1>9, <1>12 DEF ScanText, Chunks
  <2> QED BY <1>12, <2>1 DEF ScanText
<1>13. ASSUME NEW t \in Turns, ScanFails(t) PROVE TypeOK'
  <2>1. /\ Append(upstream[t], "error") \in Seq(Chunks)
        /\ Len(Append(upstream[t], "error")) <= Cap
    BY <1>9, <1>13 DEF ScanFails, Chunks
  <2> QED BY <1>13, <2>1 DEF ScanFails
<1>14. CASE UNCHANGED vars
  BY <1>14 DEF vars
<1> QED
  BY <1>1, <1>2, <1>4, <1>5, <1>6, <1>7, <1>8, <1>10, <1>11, <1>12, <1>13,
     <1>14
  DEF Next, Handle, ForwardTurn, PumpStream, AllReturned


\* A step of turn t leaves the other turns alone.
Alone(u) ==
  /\ client'[u] = client[u] /\ outcome'[u] = outcome[u]
  /\ heard'[u] = heard[u] /\ handler'[u] = handler[u]
  /\ forward'[u] = forward[u] /\ carry'[u] = carry[u]
  /\ assistant'[u] = assistant[u]
  /\ out'[u] = out[u] /\ (u \in outClosed' <=> u \in outClosed)
  /\ wire'[u] = wire[u] /\ prompt'[u] = prompt[u]
  /\ User(u)' <=> User(u)
  /\ Stored(u)' <=> Stored(u)

LEMMA OtherTurn ==
  ASSUME TurnInv, NEW u \in Turns, Alone(u)
  PROVE  (Progress(u) /\ Asked(u) /\ Lost(u) /\ Kept(u))'
<1>1. Progress(u)'
  BY DEF TurnInv, Alone, Progress
<1>2. Asked(u)'
  BY DEF TurnInv, Alone, Asked
<1>3. Lost(u)'
  BY DEF TurnInv, Alone, Lost, Failing
<1>4. Kept(u)'
  BY DEF TurnInv, Alone, Kept, Speaks
<1> QED BY <1>1, <1>2, <1>3, <1>4

\* The messages of turn t are all that a step of turn t adds to the store.
LEMMA StoreStep ==
  ASSUME TypeOK, NEW t \in Turns, NEW role \in {"user", "assistant"},
         history' = Append(history, <<role, t>>)
  PROVE  \A u \in Turns :
           /\ User(u)' <=> User(u) \/ (u = t /\ role = "user")
           /\ Stored(u)' <=> Stored(u) \/ (u = t /\ role = "assistant")
<1>1. history \in Seq(Messages) /\ <<role, t>> \in Messages
  BY DEF TypeOK, Messages
<1>2. \A m : InSeq(m, history') <=> InSeq(m, history) \/ m = <<role, t>>
  BY <1>1, InSeqAppend
<1> QED BY <1>2 DEF User, Stored

LEMMA OthersAlone ==
  ASSUME TypeOK, TypeOK', NEW t \in Turns, NEW u \in Turns, u # t,
         \/ Post(t) \/ StreamTurn(t) \/ Abort(t)
         \/ Disconnected(t) \/ Handle(t) \/ ForwardTurn(t) \/ PumpStream(t)
  PROVE  Alone(u)
<1> USE DEF TypeOK, Alone, Put, Write, clientVars, serverVars, forwardVars,
            pumpVars, channelVars, storeVars
<1>1. CASE Post(t)
  BY <1>1 DEF Post, User, Stored
<1>2. CASE ReadText(t)
  BY <1>2 DEF ReadText, User, Stored
<1>3. CASE ReadEnd(t)
  BY <1>3 DEF ReadEnd, User, Stored
<1>4. CASE Abort(t)
  BY <1>4 DEF Abort, User, Stored
<1>5. CASE Disconnected(t)
  BY <1>5 DEF Disconnected, User, Stored
<1>6. CASE Refuse(t)
  BY <1>6 DEF Refuse, User, Stored
<1>7. CASE StreamFails(t)
  BY <1>7 DEF StreamFails, User, Stored
<1>8. CASE StreamOpens(t)
  BY <1>8 DEF StreamOpens, User, Stored
<1>9. CASE CopyText(t)
  BY <1>9 DEF CopyText, User, Stored
<1>10. CASE CopyError(t)
  BY <1>10 DEF CopyError, User, Stored
<1>11. CASE CopyDone(t)
  BY <1>11 DEF CopyDone, User, Stored
<1>12. CASE TakeChunk(t)
  BY <1>12 DEF TakeChunk, User, Stored
<1>13. CASE SendChunk(t)
  BY <1>13 DEF SendChunk, User, Stored
<1>14. CASE CloseOut(t)
  BY <1>14 DEF CloseOut, User, Stored
<1>15. CASE ScanEnds(t)
  BY <1>15 DEF ScanEnds, User, Stored
<1>16. CASE ScanFails(t)
  BY <1>16 DEF ScanFails, User, Stored
<1>17. ASSUME NEW chunk \in Texts, ScanText(t, chunk) PROVE Alone(u)
  BY <1>17 DEF ScanText, User, Stored
<1>18. CASE AppendUser(t)
  <2>1. (User(u)' <=> User(u)) /\ (Stored(u)' <=> Stored(u))
    BY <1>18, StoreStep DEF AppendUser
  <2> QED BY <1>18, <2>1 DEF AppendUser
<1>19. CASE StoreReply(t)
  <2>1. (User(u)' <=> User(u)) /\ (Stored(u)' <=> Stored(u))
    BY <1>19, StoreStep DEF StoreReply, User, Stored
  <2> QED BY <1>19, <2>1 DEF StoreReply
<1> QED
  BY <1>1, <1>2, <1>3, <1>4, <1>5, <1>6, <1>7, <1>8, <1>9, <1>10, <1>11,
     <1>12, <1>13, <1>14, <1>15, <1>16, <1>17, <1>18, <1>19
  DEF StreamTurn, Handle, ForwardTurn, PumpStream

\* What a written event adds to the wire, and what a read takes from it.
LEMMA WriteStep ==
  ASSUME TypeOK, NEW t \in Turns, NEW event \in Events, Write(t, event)
  PROVE  \A m : InSeq(m, wire'[t]) => InSeq(m, wire[t]) \/ m = event
<1>1. wire[t] \in Seq(Events) /\ wire \in [Turns -> Seq(Events)]
  BY DEF TypeOK
<1>2. \A m : InSeq(m, Append(wire[t], event)) => InSeq(m, wire[t]) \/ m = event
  BY <1>1, InSeqAppend
<1>3. wire'[t] = wire[t] \/ wire'[t] = Append(wire[t], event)
  BY <1>1 DEF Write, Put
<1> QED BY <1>2, <1>3

\* A step keeps the invariants of its own turn.
OwnTurn(t) == Progress(t) /\ Asked(t) /\ Lost(t) /\ Kept(t)

LEMMA ClientOwn ==
  ASSUME TypeOK, TypeOK', TurnInv, NEW t \in Turns,
         Post(t) \/ StreamTurn(t) \/ Abort(t) \/ Disconnected(t)
  PROVE  OwnTurn(t)'
<1> USE DEF Put, clientVars, serverVars, forwardVars, pumpVars, channelVars,
            storeVars, OwnTurn
<1>0. OwnTurn(t)
  BY DEF TurnInv
<1>a. ASSUME UNCHANGED storeVars
      PROVE  (User(t)' <=> User(t)) /\ (Stored(t)' <=> Stored(t))
  BY <1>a DEF User, Stored
<1>1. CASE Post(t)
  <2>1. /\ client[t] = "idle" /\ client'[t] = "reading"
        /\ handler'[t] \in Kinds
        /\ UNCHANGED <<outcome, heard, forward, carry, assistant, out,
                       outClosed, wire, storeVars>>
    BY <1>1 DEF Post, TypeOK
  <2>2. Progress(t)'
    BY <1>0, <2>1 DEF Progress, Kinds
  <2>3. Asked(t)'
    BY <1>0, <1>a, <2>1 DEF Progress, Asked, Kinds
  <2>4. Lost(t)'
    BY <1>0, <1>a, <2>1 DEF Progress, Lost, Failing
  <2>5. Kept(t)'
    BY <1>0, <1>a, <2>1 DEF Progress, Kept, Speaks, Kinds
  <2> QED BY <2>2, <2>3, <2>4, <2>5
<1>2. CASE ReadText(t)
  <2>1. /\ client[t] = "reading" /\ wire[t] # <<>> /\ Head(wire[t]) = "word"
        /\ wire'[t] = Tail(wire[t])
        /\ UNCHANGED <<client, outcome, handler, forward, carry, assistant,
                       out, outClosed, storeVars>>
    BY <1>2 DEF ReadText, TypeOK
  <2>2. \A m : InSeq(m, wire[t]) <=> m = "word" \/ InSeq(m, wire'[t])
    BY <2>1, InSeqTail DEF TypeOK
  <2>3. Progress(t)'
    BY <1>0, <2>1 DEF Progress
  <2>4. Asked(t)'
    BY <1>0, <1>a, <2>1 DEF Asked
  <2>5. Lost(t)'
    BY <1>0, <1>a, <2>1, <2>2 DEF Lost, Failing
  <2>6. Kept(t)'
    BY <1>0, <1>a, <2>1, <2>2 DEF Kept, Speaks
  <2> QED BY <2>3, <2>4, <2>5, <2>6
<1>3. CASE ReadEnd(t)
  <2>1. /\ client[t] = "reading" /\ client'[t] = "ended" /\ wire[t] # <<>>
        /\ wire'[t] = Tail(wire[t])
        /\ UNCHANGED <<heard, handler, forward, carry, assistant, out,
                       outClosed, storeVars>>
    BY <1>3 DEF ReadEnd, TypeOK
  <2>2. \A m : InSeq(m, wire[t]) <=> m = Head(wire[t]) \/ InSeq(m, wire'[t])
    BY <2>1, InSeqTail DEF TypeOK
  <2>3. Head(wire[t]) \in Events \ {"word"}
    BY <1>3, <2>1, HeadTailProperties DEF ReadEnd, TypeOK
  <2>4. outcome'[t] = OutcomeOf(Head(wire[t]))
    BY <1>3 DEF ReadEnd, TypeOK
  <2>5. /\ outcome'[t] \in {"replied", "ignored", "failed"}
        /\ outcome'[t] = "replied" => Head(wire[t]) = "done"
        /\ outcome'[t] = "failed" => Head(wire[t]) \in {"error", "status"}
    BY <2>3, <2>4 DEF OutcomeOf, Events
  <2>6. Progress(t)'
    BY <1>0, <2>1, <2>5 DEF Progress
  <2>7. Asked(t)'
    BY <1>0, <1>a, <2>1 DEF Asked
  <2>8. Lost(t)'
    BY <1>0, <1>a, <2>1, <2>2, <2>5 DEF Lost, Failing
  <2>9. Kept(t)'
    BY <1>0, <1>a, <2>1, <2>2, <2>5 DEF Kept, Speaks
  <2> QED BY <2>6, <2>7, <2>8, <2>9
<1>4. CASE Abort(t)
  <2>1. /\ client[t] = "reading" /\ client'[t] = "ended"
        /\ outcome'[t] = "aborted" /\ wire'[t] = <<>>
        /\ UNCHANGED <<heard, handler, forward, carry, assistant, out,
                       outClosed, storeVars>>
    BY <1>4 DEF Abort, TypeOK
  <2>2. \A m : ~InSeq(m, wire'[t])
    BY <2>1, InSeqEmpty
  <2>3. Progress(t)' /\ Asked(t)'
    BY <1>0, <1>a, <2>1 DEF Progress, Asked
  <2>4. Lost(t)' /\ Kept(t)'
    BY <1>0, <1>a, <2>1, <2>2 DEF Lost, Failing, Kept, Speaks
  <2> QED BY <2>3, <2>4
<1>5. CASE Disconnected(t)
  BY <1>0, <1>5, <1>a
  DEF Disconnected, Progress, Asked, Lost, Failing, Kept, Speaks
<1> QED BY <1>1, <1>2, <1>3, <1>4, <1>5 DEF StreamTurn

LEMMA HandlerOwn ==
  ASSUME TypeOK, TypeOK', TurnInv, NEW t \in Turns, Handle(t)
  PROVE  OwnTurn(t)'
<1> USE DEF Put, clientVars, serverVars, forwardVars, pumpVars, channelVars,
            storeVars, OwnTurn
<1>0. OwnTurn(t)
  BY DEF TurnInv
<1>a. ASSUME UNCHANGED storeVars
      PROVE  (User(t)' <=> User(t)) /\ (Stored(t)' <=> Stored(t))
  BY <1>a DEF User, Stored
<1>1. CASE Refuse(t) \/ StreamFails(t)
  <2>1. PICK event \in {"ignored", "status"} : Write(t, event)
    BY <1>1 DEF Refuse, StreamFails
  <2>2. \A m : InSeq(m, wire'[t]) => InSeq(m, wire[t]) \/ m = event
    BY <2>1, WriteStep DEF Events
  <2>3. /\ handler[t] \in Kinds \cup {"stream"} /\ handler'[t] = "returned"
        /\ UNCHANGED <<client, outcome, heard, forward, carry, assistant,
                       out, outClosed, storeVars>>
    BY <1>1 DEF Refuse, StreamFails, TypeOK
  <2>4. Progress(t)' /\ Asked(t)'
    BY <1>0, <1>a, <2>3 DEF Progress, Asked, Kinds
  <2>5. /\ forward[t] = "idle" /\ ~Stored(t)
        /\ wire[t] = <<>> /\ out[t] = <<>>
    BY <1>0, <2>3 DEF Progress, Kept
  <2>6. Lost(t)' /\ Kept(t)'
    BY <1>0, <1>a, <2>1, <2>2, <2>3, <2>5, InSeqEmpty
    DEF Lost, Failing, Kept, Speaks
  <2> QED BY <2>4, <2>6
<1>2. CASE AppendUser(t)
  <2>1. /\ handler[t] = "final" /\ handler'[t] = "stream"
        /\ prompt'[t] = Append(history, <<"user", t>>)
        /\ UNCHANGED <<client, outcome, heard, forward, carry, assistant,
                       out, outClosed, wire>>
    BY <1>2 DEF AppendUser, TypeOK
  <2>2. User(t)' /\ (Stored(t)' <=> Stored(t))
    BY <1>2, StoreStep DEF AppendUser
  <2>3. prompt'[t] # <<>>
    <3>1. history \in Seq(Messages) /\ <<"user", t>> \in Messages
      BY DEF TypeOK, Messages
    <3> QED BY <2>1, <3>1, AppendProperties
  <2>4. Progress(t)' /\ Asked(t)'
    BY <1>0, <2>1, <2>2, <2>3 DEF Progress, Asked, Kinds
  <2>5. Lost(t)' /\ Kept(t)'
    BY <1>0, <2>1, <2>2 DEF Progress, Lost, Failing, Kept, Speaks, Kinds
  <2> QED BY <2>4, <2>5
<1>3. CASE StreamOpens(t)
  <2>1. /\ handler[t] = "stream" /\ handler'[t] = "copy"
        /\ forward'[t] = "take"
        /\ UNCHANGED <<client, outcome, heard, carry, assistant, out,
                       outClosed, wire, storeVars>>
    BY <1>3 DEF StreamOpens, TypeOK
  <2>2. /\ forward[t] = "idle" /\ ~Stored(t) /\ ~Failing(t)
    BY <1>0, <2>1 DEF Progress, Lost, Kept
  <2>3. Progress(t)' /\ Asked(t)'
    BY <1>0, <1>a, <2>1, <2>2 DEF Progress, Asked, Kinds
  <2>4. Lost(t)' /\ Kept(t)'
    BY <1>0, <1>a, <2>1, <2>2 DEF Lost, Failing, Kept, Speaks
  <2> QED BY <2>3, <2>4
<1>4. CASE CopyText(t)
  <2>1. /\ handler[t] = "copy" /\ out[t] # <<>> /\ Head(out[t]) \in Texts
        /\ out'[t] = Tail(out[t])
        /\ UNCHANGED <<client, outcome, heard, handler, forward, carry,
                       assistant, outClosed, storeVars>>
    BY <1>4 DEF CopyText, TypeOK
  <2>2. \A m : InSeq(m, out[t]) <=> m = Head(out[t]) \/ InSeq(m, out'[t])
    BY <2>1, InSeqTail DEF TypeOK
  <2>3. \A m : InSeq(m, wire'[t]) =>
          \/ InSeq(m, wire[t])
          \/ m = Head(out[t]) /\ Head(out[t]) = "word"
    <3>1. CASE Head(out[t]) = "blank"
      BY <1>4, <3>1 DEF CopyText
    <3>2. CASE Head(out[t]) = "word"
      BY <1>4, <3>2, WriteStep DEF CopyText, Events
    <3> QED BY <2>1, <3>1, <3>2 DEF Texts
  <2>4. Progress(t)' /\ Asked(t)'
    BY <1>0, <1>a, <2>1 DEF Progress, Asked, Kinds
  <2>5. Lost(t)'
    BY <1>0, <1>a, <2>1, <2>2, <2>3 DEF Lost, Failing
  <2>6. Kept(t)'
    BY <1>0, <1>a, <2>1, <2>2, <2>3 DEF Kept, Speaks, Texts
  <2> QED BY <2>4, <2>5, <2>6
<1>5. CASE CopyError(t)
  <2>1. /\ handler[t] = "copy" /\ handler'[t] = "returned"
        /\ out[t] # <<>> /\ Head(out[t]) = "error" /\ out'[t] = Tail(out[t])
        /\ UNCHANGED <<client, outcome, heard, forward, carry, assistant,
                       outClosed, storeVars>>
    BY <1>5 DEF CopyError, TypeOK
  <2>2. \A m : InSeq(m, out[t]) <=> m = "error" \/ InSeq(m, out'[t])
    BY <2>1, InSeqTail DEF TypeOK
  <2>3. \A m : InSeq(m, wire'[t]) => InSeq(m, wire[t]) \/ m = "error"
    BY <1>5, WriteStep DEF CopyError, Events
  <2>4. Progress(t)' /\ Asked(t)'
    BY <1>0, <1>a, <2>1 DEF Progress, Asked, Kinds
  <2>5. Lost(t)'
    BY <1>0, <1>a, <2>1, <2>2 DEF Lost, Failing
  <2>6. Kept(t)'
    BY <1>0, <1>a, <2>1, <2>2, <2>3 DEF Kept, Speaks, Texts
  <2> QED BY <2>4, <2>5, <2>6
<1>6. CASE CopyDone(t)
  <2>1. /\ handler[t] = "copy" /\ handler'[t] = "returned"
        /\ out[t] = <<>> /\ t \in outClosed
        /\ UNCHANGED <<client, outcome, heard, forward, carry, assistant,
                       out, outClosed, storeVars>>
    BY <1>6 DEF CopyDone, TypeOK
  <2>2. \A m : InSeq(m, wire'[t]) => InSeq(m, wire[t]) \/ m = "done"
    BY <1>6, WriteStep DEF CopyDone, Events
  <2>3. Progress(t)' /\ Asked(t)'
    BY <1>0, <1>a, <2>1 DEF Progress, Asked, Kinds
  <2>4. Lost(t)'
    BY <1>0, <1>a, <2>1, <2>2 DEF Lost, Failing
  <2>5. Kept(t)'
    BY <1>0, <1>a, <2>1, <2>2, InSeqEmpty DEF Progress, Kept, Speaks
  <2> QED BY <2>3, <2>4, <2>5
<1> QED BY <1>1, <1>2, <1>3, <1>4, <1>5, <1>6 DEF Handle

LEMMA ForwardOwn ==
  ASSUME TypeOK, TypeOK', TurnInv, NEW t \in Turns, ForwardTurn(t)
  PROVE  OwnTurn(t)'
<1> USE DEF Put, clientVars, serverVars, forwardVars, pumpVars, channelVars,
            storeVars, OwnTurn
<1>0. OwnTurn(t)
  BY DEF TurnInv
<1>a. ASSUME UNCHANGED storeVars
      PROVE  (User(t)' <=> User(t)) /\ (Stored(t)' <=> Stored(t))
  BY <1>a DEF User, Stored
<1>1. CASE TakeChunk(t)
  <2>1. /\ forward[t] = "take" /\ forward'[t] = "send"
        /\ upstream[t] # <<>> /\ carry'[t] = Head(upstream[t])
        /\ UNCHANGED <<client, outcome, heard, handler, out, outClosed, wire,
                       storeVars>>
    BY <1>1 DEF TakeChunk, TypeOK
  <2>2. carry'[t] \in Chunks
    BY <2>1, HeadTailProperties DEF TypeOK
  <2>3. /\ carry'[t] \in Texts => assistant'[t] # <<>>
        /\ carry'[t] \notin Texts => assistant'[t] = assistant[t]
    <3>1. carry'[t] \in Texts =>
            assistant'[t] = Append(assistant[t], carry'[t])
      BY <1>1, <2>1 DEF TakeChunk, TypeOK
    <3>2. carry'[t] \in Texts => Append(assistant[t], carry'[t]) # <<>>
      <4>1. assistant[t] \in Seq(Texts)
        BY DEF TypeOK
      <4> QED BY <4>1, AppendProperties
    <3> QED BY <1>1, <2>1, <3>1, <3>2 DEF TakeChunk, TypeOK
  <2>4. assistant[t] # <<>> => assistant'[t] # <<>>
    BY <2>3
  <2>5. Progress(t)' /\ Asked(t)'
    BY <1>0, <1>a, <2>1, <2>2 DEF Progress, Asked, Kinds, Chunks, Texts
  <2>6. Lost(t)'
    BY <1>0, <1>a, <2>1 DEF Lost, Failing
  <2>7. Kept(t)'
    BY <1>0, <1>a, <2>1, <2>3, <2>4 DEF Kept, Speaks
  <2> QED BY <2>5, <2>6, <2>7
<1>2. CASE SendChunk(t)
  <2>1. /\ forward[t] = "send" /\ carry'[t] = "none"
        /\ out'[t] = Append(out[t], carry[t])
        /\ UNCHANGED <<client, outcome, heard, handler, assistant, wire,
                       storeVars>>
        /\ \/ /\ carry[t] = "error" /\ forward'[t] = "returned"
              /\ t \in outClosed'
           \/ /\ carry[t] # "error" /\ forward'[t] = "take"
              /\ outClosed' = outClosed
    BY <1>2 DEF SendChunk, TypeOK
  <2>2. carry[t] \in Chunks
    BY <1>0, <2>1 DEF Progress, TypeOK
  <2>3. \A m : InSeq(m, out'[t]) <=> InSeq(m, out[t]) \/ m = carry[t]
    BY <2>1, <2>2, InSeqAppend DEF TypeOK
  <2>4. Progress(t)' /\ Asked(t)'
    BY <1>0, <1>a, <2>1 DEF Progress, Asked, Kinds
  <2>5. Lost(t)'
    BY <1>0, <1>a, <2>1, <2>3 DEF Progress, Lost, Failing, Kept
  <2>6. Kept(t)'
    BY <1>0, <1>a, <2>1, <2>2, <2>3 DEF Kept, Speaks, Texts, Chunks
  <2> QED BY <2>4, <2>5, <2>6
<1>3. CASE StoreReply(t)
  <2>1. /\ forward[t] = "take" /\ forward'[t] = "close"
        /\ UNCHANGED <<client, outcome, heard, handler, carry, assistant, out,
                       outClosed, wire, prompt>>
    BY <1>3 DEF StoreReply, TypeOK
  <2>2. /\ User(t)' <=> User(t)
        /\ assistant[t] = <<>> \/ Stored(t)'
    <3>1. CASE assistant[t] = <<>>
      BY <1>3, <3>1 DEF StoreReply, User
    <3>2. CASE assistant[t] # <<>>
      BY <1>3, <3>2, StoreStep DEF StoreReply
    <3> QED BY <3>1, <3>2
  <2>3. Progress(t)' /\ Asked(t)'
    BY <1>0, <2>1, <2>2 DEF Progress, Asked, Kinds
  <2>4. Lost(t)' /\ Kept(t)'
    BY <1>0, <2>1, <2>2 DEF Lost, Failing, Kept, Speaks
  <2> QED BY <2>3, <2>4
<1>4. CASE CloseOut(t)
  <2>1. /\ forward[t] = "close" /\ forward'[t] = "returned"
        /\ t \in outClosed'
        /\ UNCHANGED <<client, outcome, heard, handler, carry, assistant, out,
                       wire, storeVars>>
    BY <1>4 DEF CloseOut, TypeOK
  <2>2. Progress(t)' /\ Asked(t)'
    BY <1>0, <1>a, <2>1 DEF Progress, Asked, Kinds
  <2>3. Lost(t)' /\ Kept(t)'
    BY <1>0, <1>a, <2>1 DEF Lost, Failing, Kept, Speaks
  <2> QED BY <2>2, <2>3
<1> QED BY <1>1, <1>2, <1>3, <1>4 DEF ForwardTurn

LEMMA PumpOwn ==
  ASSUME TurnInv, NEW t \in Turns, PumpStream(t)
  PROVE  OwnTurn(t)'
BY DEF PumpStream, ScanText, ScanEnds, ScanFails, clientVars, serverVars,
       forwardVars, storeVars, OwnTurn, TurnInv, Progress, Asked, Lost,
       Failing, Kept, Speaks, User, Stored

TurnStep(t) ==
  \/ Post(t) \/ StreamTurn(t) \/ Abort(t)
  \/ Disconnected(t) \/ Handle(t) \/ ForwardTurn(t) \/ PumpStream(t)

\* One step of one turn, as far as it is about the order of turns and about
\* the store: the end of a turn is final, and only two steps write the store.
LEMMA StepFacts ==
  ASSUME TypeOK, TypeOK', NEW t \in Turns, TurnStep(t)
  PROVE  /\ \A u \in Turns : client[u] = "ended" =>
              /\ client'[u] = "ended"
              /\ outcome'[u] = outcome[u] /\ heard'[u] = heard[u]
         /\ \/ Post(t)
            \/ \A u \in Turns : client[u] = "idle" => client'[u] = "idle"
         /\ AppendUser(t) \/ StoreReply(t) \/ UNCHANGED history
         /\ AppendUser(t) \/ UNCHANGED prompt
<1> USE DEF Put, clientVars, storeVars
<1>1. CASE Post(t)
  <2>1. /\ client[t] = "idle" /\ client' = [client EXCEPT ![t] = "reading"]
        /\ UNCHANGED <<outcome, heard, history, prompt>>
    BY <1>1 DEF Post
  <2> QED BY <1>1, <2>1 DEF TypeOK
<1>2. CASE ReadText(t)
  BY <1>2 DEF ReadText, TypeOK
<1>3. CASE ReadEnd(t)
  BY <1>3 DEF ReadEnd, TypeOK
<1>4. CASE Abort(t)
  BY <1>4 DEF Abort, TypeOK
<1>5. CASE Disconnected(t) \/ Handle(t)
  BY <1>5 DEF Disconnected, Handle, Refuse, AppendUser, StreamFails,
              StreamOpens, CopyText, CopyError, CopyDone
<1>6. CASE ForwardTurn(t) \/ PumpStream(t)
  BY <1>6 DEF ForwardTurn, TakeChunk, SendChunk, StoreReply, CloseOut,
              PumpStream, ScanText, ScanEnds, ScanFails
<1> QED BY <1>1, <1>2, <1>3, <1>4, <1>5, <1>6 DEF TurnStep, StreamTurn

LEMMA OneClientStep ==
  ASSUME TypeOK, TypeOK', OneClient, NEW t \in Turns, TurnStep(t)
  PROVE  OneClient'
<1> USE DEF Put, clientVars
<1>1. CASE Post(t)
  <2>1. /\ client[t] = "idle" /\ client' = [client EXCEPT ![t] = "reading"]
        /\ \A u \in Turns : u < t => client[u] = "ended"
    BY <1>1 DEF Post
  <2>2. ASSUME NEW u \in Turns, NEW v \in Turns, u < v, client'[v] # "idle"
        PROVE  client'[u] = "ended"
    <3>1. CASE v = t
      BY <2>1, <2>2, <3>1, StepFacts
    <3>2. CASE v # t
      <4>1. client[v] # "idle"
        BY <2>1, <2>2, <3>2 DEF TypeOK
      <4> QED BY <2>2, <4>1, StepFacts DEF OneClient
    <3> QED BY <3>1, <3>2
  <2> QED BY <2>2 DEF OneClient
<1>2. CASE ~Post(t)
  BY <1>2, StepFacts DEF OneClient
<1> QED BY <1>1, <1>2

\* A message that a step adds to the store is new, and a reply is added after
\* the utterance it answers.
LEMMA HistoryStep ==
  ASSUME TypeOK, TypeOK', TurnInv, NEW t \in Turns, TurnStep(t)
  PROVE  \/ UNCHANGED history
         \/ \E m \in Messages :
              /\ history' = Append(history, m) /\ ~InSeq(m, history)
              /\ m[1] = "assistant" => InSeq(<<"user", m[2]>>, history)
<1>1. <<"user", t>> \in Messages /\ <<"assistant", t>> \in Messages
  BY DEF Messages
<1>2. CASE AppendUser(t)
  <2>1. history' = Append(history, <<"user", t>>) /\ ~User(t)
    BY <1>2 DEF AppendUser, TurnInv, Asked, Kinds
  <2> QED BY <1>1, <2>1 DEF User
<1>3. CASE StoreReply(t)
  <2>1. ~Stored(t) /\ User(t)
    BY <1>3 DEF StoreReply, TurnInv, Kept, Asked
  <2>2. \/ UNCHANGED history
        \/ history' = Append(history, <<"assistant", t>>)
    BY <1>3 DEF StoreReply
  <2> QED BY <1>1, <2>1, <2>2 DEF User, Stored
<1> QED BY <1>2, <1>3, StepFacts

LEMMA RepliesStep ==
  ASSUME TypeOK, TypeOK', TurnInv, TurnInv', RepliesAreSound,
         NEW t \in Turns, TurnStep(t)
  PROVE  RepliesAreSound'
<1>0. /\ Len(history) \in Nat
      /\ \A j \in 1..Len(history) : history[j] \in Messages
      /\ \A j \in 1..Len(history') : history'[j] \in Messages
  BY LenProperties, ElementOfSeq DEF TypeOK
<1>1. ASSUME NEW j \in 1..Len(history'), history'[j][1] = "assistant"
      PROVE  outcome'[history'[j][2]] # "failed"
  <2>1. PICK u \in Turns : history'[j] = <<"assistant", u>>
    BY <1>0, <1>1 DEF Messages
  <2>2. Stored(u)'
    BY <2>1 DEF Stored, InSeq
  <2>3. outcome'[u] # "failed"
    BY <2>2 DEF TurnInv, Lost, Failing
  <2> QED BY <2>1, <2>3
<1>2. CASE UNCHANGED history
  BY <1>1, <1>2 DEF RepliesAreSound
<1>3. ASSUME NEW m \in Messages,
             history' = Append(history, m), ~InSeq(m, history),
             m[1] = "assistant" => InSeq(<<"user", m[2]>>, history)
      PROVE  RepliesAreSound'
  <2>1. /\ Len(history') = Len(history) + 1
        /\ \A i \in 1..Len(history) : history'[i] = history[i]
        /\ history'[Len(history) + 1] = m
    BY <1>3, AppendProperties DEF TypeOK
  <2>2. \A i, j \in 1..Len(history') : history'[i] = history'[j] => i = j
    BY <1>0, <1>3, <2>1 DEF RepliesAreSound, InSeq
  <2>3. ASSUME NEW j \in 1..Len(history'), history'[j][1] = "assistant"
        PROVE  \E i \in 1..(j - 1) : history'[i] = <<"user", history'[j][2]>>
    <3>1. CASE j \in 1..Len(history)
      <4>1. PICK i \in 1..(j - 1) : history[i] = <<"user", history[j][2]>>
        BY <2>1, <2>3, <3>1 DEF RepliesAreSound
      <4> QED BY <1>0, <2>1, <3>1, <4>1
    <3>2. CASE j = Len(history) + 1
      BY <1>0, <1>3, <2>1, <2>3, <3>2 DEF InSeq
    <3> QED BY <1>0, <2>1, <3>1, <3>2
  <2> QED BY <1>1, <2>2, <2>3 DEF RepliesAreSound
<1> QED BY <1>2, <1>3, HistoryStep

LEMMA CompletedStep ==
  ASSUME Inv, TypeOK', NEW t \in Turns, TurnStep(t)
  PROVE  CompletedTurnsAreRemembered'
<1> SUFFICES ASSUME TypeOK, OneClient, TurnInv, RepliesAreSound,
                    CompletedTurnsAreRemembered,
                    NEW v \in Turns, NEW u \in Turns,
                    outcome'[v] = "replied", heard'[v] # <<>>, v < u,
                    prompt'[u] # <<>>
             PROVE  \E i, j \in 1..Len(prompt'[u]) :
                      /\ i < j
                      /\ prompt'[u][i] = <<"user", v>>
                      /\ prompt'[u][j] = <<"assistant", v>>
  BY DEF Inv, CompletedTurnsAreRemembered
<1>1. CASE AppendUser(t) /\ u = t
  <2>1. /\ outcome[v] = "replied" /\ heard[v] # <<>>
        /\ prompt'[u] = Append(history, <<"user", u>>)
    <3>1. /\ UNCHANGED <<outcome, heard>>
          /\ prompt' = [prompt EXCEPT ![t] = Append(history, <<"user", t>>)]
      BY <1>1 DEF AppendUser, clientVars, Put
    <3>2. t \in DOMAIN prompt
      BY DEF TypeOK
    <3> QED BY <1>1, <3>1, <3>2
  <2>2. Stored(v)
    BY <2>1 DEF TurnInv, Kept, Speaks
  <2>3. PICK j \in 1..Len(history) : history[j] = <<"assistant", v>>
    BY <2>2 DEF Stored, InSeq
  <2>4. PICK i \in 1..(j - 1) : history[i] = <<"user", v>>
    <3>1. history[j][1] = "assistant" /\ history[j][2] = v
      BY <2>3
    <3> QED BY <3>1 DEF RepliesAreSound
  <2>5. /\ Len(history) \in Nat
        /\ Len(prompt'[u]) = Len(history) + 1
        /\ \A k \in 1..Len(history) : prompt'[u][k] = history[k]
    <3>1. history \in Seq(Messages) /\ <<"user", u>> \in Messages
      BY DEF TypeOK, Messages
    <3> QED BY <2>1, <3>1, AppendProperties, LenProperties
  <2>6. /\ i \in 1..Len(prompt'[u]) /\ j \in 1..Len(prompt'[u]) /\ i < j
        /\ i \in 1..Len(history)
    BY <2>3, <2>4, <2>5
  <2> QED BY <2>3, <2>4, <2>5, <2>6
<1>2. CASE prompt'[u] = prompt[u]
  <2>1. client[u] # "idle"
    BY <1>2 DEF TurnInv, Progress, Asked
  <2>2. client[v] = "ended"
    BY <2>1 DEF OneClient
  <2>3. outcome[v] = "replied" /\ heard[v] # <<>>
    BY <2>2, StepFacts
  <2>4. \E i, j \in 1..Len(prompt[u]) :
          /\ i < j
          /\ prompt[u][i] = <<"user", v>>
          /\ prompt[u][j] = <<"assistant", v>>
    BY <1>2, <2>3 DEF CompletedTurnsAreRemembered
  <2> QED BY <1>2, <2>4
<1>3. AppendUser(t) /\ u # t => prompt'[u] = prompt[u]
  BY DEF AppendUser, Put, TypeOK
<1> QED BY <1>1, <1>2, <1>3, StepFacts

-----------------------------------------------------------------------------
(* The words of a reply, from forwardTurn to the client (WordsFlow).        *)

\* What any of the sequences of a turn holds.
Items == Events \cup Chunks \cup {"none"}

LEMMA WordsCat ==
  ASSUME NEW s \in Seq(Items), NEW r \in Seq(Items)
  PROVE  /\ Words(s) \in Seq(Items)
         /\ Words(Cat(s, r)) = Cat(Words(s), Words(r))
<1> DEFINE K == {"word"}
<1>1. Words(s) = Only(s, K) /\ Words(r) = Only(r, K)
      /\ Words(Cat(s, r)) = Only(Cat(s, r), K)
  BY DEF Words
<1> HIDE DEF K
<1>2. Only(s, K) \in Seq(Items)
  BY OnlyType
<1>3. Only(Cat(s, r), K) = Cat(Only(s, K), Only(r, K))
  BY OnlyCat
<1> QED BY <1>1, <1>2, <1>3

LEMMA WordsOne ==
  ASSUME NEW e \in Items
  PROVE  /\ One(e) \in Seq(Items)
         /\ Words(One(e)) = IF e = "word" THEN One(e) ELSE <<>>
<1>1. Words(One(e)) = IF e \in {"word"} THEN One(e) ELSE <<>>
  BY OnlyOne DEF Words
<1> QED BY <1>1 DEF One

LEMMA TurnItems ==
  ASSUME TypeOK, NEW t \in Turns
  PROVE  /\ heard[t] \in Seq(Items) /\ wire[t] \in Seq(Items)
         /\ out[t] \in Seq(Items) /\ assistant[t] \in Seq(Items)
         /\ carry[t] \in Items
<1>1. /\ {"word"} \subseteq Items /\ Events \subseteq Items
      /\ Chunks \subseteq Items /\ Texts \subseteq Items
  BY DEF Items, Events, Chunks, Texts
<1>2. /\ heard[t] \in Seq({"word"}) /\ wire[t] \in Seq(Events)
      /\ out[t] \in Seq(Chunks) /\ assistant[t] \in Seq(Texts)
      /\ carry[t] \in Chunks \cup {"none"}
  BY DEF TypeOK
<1> QED BY <1>1, <1>2, SeqMonotonic DEF Items

\* Four sequences one after the other, and how an element moves on.
Cat4(h, w, o, c) == Cat(Cat(Cat(h, w), o), c)

LEMMA Cat4Prefix ==
  ASSUME NEW S, NEW h \in Seq(S), NEW w \in Seq(S), NEW o \in Seq(S),
         NEW c \in Seq(S)
  PROVE  IsPrefix(h, Cat4(h, w, o, c))
<1>1. /\ Cat4(h, w, o, c) = Cat(h, Cat(Cat(w, o), c))
      /\ Cat(Cat(w, o), c) \in Seq(S)
  BY CatAssoc, CatType DEF Cat4
<1> QED BY <1>1, CatPrefix

LEMMA Cat4Read ==
  ASSUME NEW S, NEW h \in Seq(S), NEW w \in Seq(S), NEW o, NEW c,
         NEW x \in Seq(S)
  PROVE  Cat4(Cat(h, x), w, o, c) = Cat4(h, Cat(x, w), o, c)
BY CatAssoc DEF Cat4

LEMMA Cat4Copy ==
  ASSUME NEW S, NEW h \in Seq(S), NEW w \in Seq(S), NEW o \in Seq(S), NEW c,
         NEW x \in Seq(S)
  PROVE  Cat4(h, Cat(w, x), o, c) = Cat4(h, w, Cat(x, o), c)
<1>1. Cat(Cat(h, Cat(w, x)), o) = Cat(Cat(h, w), Cat(x, o))
  BY CatAssoc, CatType
<1> QED BY <1>1 DEF Cat4

LEMMA Cat4Send ==
  ASSUME NEW S, NEW h \in Seq(S), NEW w \in Seq(S), NEW o \in Seq(S),
         NEW x \in Seq(S)
  PROVE  Cat4(h, w, Cat(o, x), <<>>) = Cat4(h, w, o, x)
<1>1. Cat(Cat(h, w), Cat(o, x)) = Cat(Cat(Cat(h, w), o), x)
  BY CatAssoc, CatType
<1>2. Cat(Cat(h, w), Cat(o, x)) \in Seq(S)
  BY CatType
<1>3. Cat(Cat(Cat(h, w), Cat(o, x)), <<>>) = Cat(Cat(Cat(h, w), o), x)
  BY <1>1, <1>2, CatEmpty
<1> QED BY <1>3 DEF Cat4

LEMMA Cat4Take ==
  ASSUME NEW S, NEW h \in Seq(S), NEW w \in Seq(S), NEW o \in Seq(S), NEW x
  PROVE  Cat4(h, w, o, x) = Cat(Cat4(h, w, o, <<>>), x)
<1>1. Cat(Cat(h, w), o) \in Seq(S)
  BY CatType
<1>2. Cat(Cat(Cat(h, w), o), <<>>) = Cat(Cat(h, w), o)
  BY <1>1, CatEmpty
<1> QED BY <1>2 DEF Cat4

LEMMA Cat4Heard ==
  ASSUME NEW S, NEW h \in Seq(S)
  PROVE  Cat4(h, <<>>, <<>>, <<>>) = h
BY CatEmpty DEF Cat4

LEMMA ConservedCat ==
  ASSUME NEW t \in Turns
  PROVE  Conserved(t) <=> Cat4(heard[t], Words(wire[t]), Words(out[t]),
                               Words(One(carry[t]))) = Words(assistant[t])
BY DEF Conserved, Cat4, Cat, One

\* An event that is written goes to the end of the wire.
LEMMA WriteCat ==
  ASSUME TypeOK, NEW t \in Turns, NEW event \in Events, Write(t, event),
         client[t] # "ended"
  PROVE  /\ wire'[t] = Append(wire[t], event)
         /\ Words(wire'[t]) = Cat(Words(wire[t]), Words(One(event)))
<1>1. wire'[t] = Append(wire[t], event)
  BY DEF Write, Put, TypeOK
<1>2. wire[t] \in Seq(Items) /\ event \in Items
  BY TurnItems DEF Items
<1>3. Append(wire[t], event) = Cat(wire[t], One(event)) /\ One(event) \in Seq(Items)
  BY <1>2, CatOne
<1> QED BY <1>1, <1>2, <1>3, WordsCat

LEMMA DoneLast ==
  ASSUME NEW s \in Seq(Events), NEW e \in Events, ~InSeq("done", s)
  PROVE  \A i \in 1..Len(Append(s, e)) :
           Append(s, e)[i] = "done" => i = Len(Append(s, e))
<1> DEFINE r == Append(s, e)
<1>1. /\ Len(s) \in Nat /\ Len(r) = Len(s) + 1
      /\ \A i \in 1..Len(s) : r[i] = s[i]
  BY AppendProperties, LenProperties
<1> HIDE DEF r
<1>2. \A i \in 1..Len(r) : r[i] = "done" => i = Len(r)
  BY <1>1 DEF InSeq
<1> QED BY <1>2 DEF r

LEMMA DoneLastTail ==
  ASSUME NEW s \in Seq(Events), s # <<>>,
         \A i \in 1..Len(s) : s[i] = "done" => i = Len(s)
  PROVE  /\ \A i \in 1..Len(Tail(s)) : Tail(s)[i] = "done" => i = Len(Tail(s))
         /\ Head(s) = "done" => Tail(s) = <<>>
<1> DEFINE r == Tail(s)
<1>1. /\ Len(s) \in Nat /\ Len(s) # 0 /\ Len(r) = Len(s) - 1
      /\ \A i \in 1..Len(r) : r[i] = s[i + 1]
      /\ r \in Seq(Events) /\ Head(s) = s[1]
  BY HeadTailProperties, LenProperties, EmptySeq
<1> HIDE DEF r
<1>2. \A i \in 1..Len(r) : r[i] = "done" => i = Len(r)
  BY <1>1
<1>3. Head(s) = "done" => Len(r) = 0
  BY <1>1
<1>4. Head(s) = "done" => r = <<>>
  BY <1>1, <1>3, EmptySeq
<1> QED BY <1>2, <1>4 DEF r

\* A step of turn t that leaves the words where they are.
LEMMA FlowSame ==
  ASSUME NEW t \in Turns, Flow(t),
         client'[t] # "ended" => client[t] # "ended",
         heard'[t] = heard[t], wire'[t] = wire[t], out'[t] = out[t],
         carry'[t] = carry[t], assistant'[t] = assistant[t],
         \/ /\ outcome'[t] = outcome[t]
            /\ handler'[t] = handler[t] \/ handler[t] # "returned"
            /\ forward'[t] = forward[t] \/ forward[t] # "returned"
         \/ ~InSeq("done", wire[t]) /\ outcome'[t] # "replied"
  PROVE  Flow(t)'
BY DEF Flow, Conserved

LEMMA OtherFlow ==
  ASSUME NEW u \in Turns, Flow(u), Alone(u)
  PROVE  Flow(u)'
BY FlowSame DEF Alone

\* What the client reads.
LEMMA FlowClient ==
  ASSUME TypeOK, TypeOK', TurnInv, NEW t \in Turns, Flow(t),
         Post(t) \/ StreamTurn(t) \/ Abort(t) \/ Disconnected(t)
  PROVE  Flow(t)'
<1> USE DEF Put, clientVars, serverVars, forwardVars, pumpVars, channelVars,
            storeVars
<1>0. Progress(t) /\ Kept(t)
  BY DEF TurnInv
<1>1. CASE Post(t)
  <2>1. /\ client[t] = "idle"
        /\ UNCHANGED <<heard, wire, out, carry, assistant, outcome>>
    BY <1>1 DEF Post
  <2>2. wire[t] = <<>> /\ outcome[t] = "none"
    BY <1>0, <2>1 DEF Progress, Kinds
  <2>3. ~InSeq("done", wire[t])
    BY <2>2, InSeqEmpty
  <2> QED BY <2>1, <2>2, <2>3, FlowSame
<1>2. CASE Disconnected(t)
  BY <1>2, FlowSame DEF Disconnected
<1>3. CASE Abort(t)
  <2>1. /\ client'[t] = "ended" /\ outcome'[t] = "aborted" /\ wire'[t] = <<>>
        /\ UNCHANGED <<heard, assistant>>
    BY <1>3 DEF Abort, TypeOK
  <2>2. ~InSeq("done", wire'[t])
    BY <2>1, InSeqEmpty
  <2> QED BY <2>1, <2>2 DEF Flow, InSeq
<1>4. CASE StreamTurn(t)
  <2>1. /\ client[t] = "reading" /\ wire[t] # <<>> /\ wire'[t] = Tail(wire[t])
        /\ wire[t] \in Seq(Events)
        /\ UNCHANGED <<handler, forward, carry, assistant, out>>
    BY <1>4 DEF StreamTurn, ReadText, ReadEnd, TypeOK
  <2>2. /\ \A i \in 1..Len(wire'[t]) : wire'[t][i] = "done" => i = Len(wire'[t])
        /\ Head(wire[t]) = "done" => wire'[t] = <<>>
    BY <2>1, DoneLastTail DEF Flow
  <2>3. InSeq("done", wire'[t]) \/ Head(wire[t]) = "done" =>
          handler[t] = "returned" /\ forward[t] = "returned" /\ out[t] = <<>>
    BY <2>1, InSeqTail DEF Flow
  <2>4. outcome[t] = "none"
    BY <1>0, <2>1 DEF Progress
  <2>5. /\ wire[t] = Cat(One(Head(wire[t])), wire'[t])
        /\ Head(wire[t]) \in Items /\ wire'[t] \in Seq(Items)
    BY <2>1, CatHeadTail, TurnItems
  <2>6. Words(wire[t]) = Cat(Words(One(Head(wire[t]))), Words(wire'[t]))
    BY <2>5, WordsOne, WordsCat
  <2>7. Cat4(heard[t], Words(wire[t]), Words(out[t]), Words(One(carry[t])))
          = Words(assistant[t])
    BY <2>1, ConservedCat DEF Flow
  <2>8. /\ heard[t] \in Seq(Items) /\ Words(wire'[t]) \in Seq(Items)
        /\ Words(out[t]) \in Seq(Items) /\ Words(One(carry[t])) \in Seq(Items)
    BY <2>5, TurnItems, WordsCat, WordsOne
  <2>9. CASE ReadText(t)
    <3>1. /\ Head(wire[t]) = "word" /\ heard'[t] = Append(heard[t], "word")
          /\ UNCHANGED <<client, outcome>>
      BY <2>9 DEF ReadText, TypeOK
    <3>2. /\ Words(wire[t]) = Cat(One("word"), Words(wire'[t]))
          /\ heard'[t] = Cat(heard[t], One("word")) /\ One("word") \in Seq(Items)
      BY <2>5, <2>6, <2>8, <3>1, WordsOne, CatOne
    <3>3. Cat4(heard'[t], Words(wire'[t]), Words(out[t]), Words(One(carry[t])))
            = Words(assistant[t])
      BY <2>7, <2>8, <3>2, Cat4Read
    <3>4. Conserved(t)'
      BY <2>1, <3>3 DEF Conserved, Cat4, Cat, One
    <3>5. IsPrefix(heard'[t], Words(assistant[t]))
      BY <2>8, <3>2, <3>3, Cat4Prefix, CatType
    <3> QED BY <2>1, <2>2, <2>3, <2>4, <3>1, <3>4, <3>5 DEF Flow
  <2>10. CASE ReadEnd(t)
    <3>1. /\ Head(wire[t]) # "word" /\ client'[t] = "ended"
          /\ outcome'[t] = OutcomeOf(Head(wire[t])) /\ UNCHANGED heard
      BY <2>10 DEF ReadEnd, TypeOK
    <3>2. outcome'[t] = "replied" <=> Head(wire[t]) = "done"
      BY <3>1 DEF OutcomeOf
    <3>3. ASSUME Head(wire[t]) = "done" PROVE heard[t] = Words(assistant[t])
      <4>1. Words(wire[t]) = <<>>
        <5>1. Words(One("done")) = <<>> /\ Words(<<>>) = <<>>
          BY <2>5, <3>3, WordsOne, OnlyEmpty DEF Words
        <5> QED BY <2>2, <2>6, <3>3, <5>1 DEF Cat
      <4>2. Words(out[t]) = <<>>
        BY <2>3, <3>3, OnlyEmpty DEF Words
      <4>3. Words(One(carry[t])) = <<>>
        <5>1. carry[t] = "none"
          BY <1>0, <2>3, <3>3 DEF Progress
        <5> QED BY <5>1, TurnItems, WordsOne
      <4> QED BY <2>7, <2>8, <4>1, <4>2, <4>3, Cat4Heard
    <3>4. IsPrefix(heard'[t], Words(assistant'[t]))
      BY <2>1, <3>1 DEF Flow
    <3> QED BY <2>1, <2>2, <2>3, <3>1, <3>2, <3>3, <3>4 DEF Flow
  <2> QED BY <1>4, <2>9, <2>10 DEF StreamTurn
<1> QED BY <1>1, <1>2, <1>3, <1>4

\* What streamTurn copies from out to the wire.
LEMMA FlowHandler ==
  ASSUME TypeOK, TypeOK', TurnInv, NEW t \in Turns, Flow(t), Handle(t)
  PROVE  Flow(t)'
<1> USE DEF Put, clientVars, serverVars, forwardVars, pumpVars, channelVars,
            storeVars
<1>0. Progress(t) /\ Kept(t)
  BY DEF TurnInv
<1>1. CASE AppendUser(t) \/ StreamOpens(t)
  <2>1. /\ handler[t] \in {"final", "stream"}
        /\ UNCHANGED <<client, outcome, heard, carry, assistant, out, wire>>
    BY <1>1 DEF AppendUser, StreamOpens
  <2>2. ~InSeq("done", wire[t]) /\ outcome[t] # "replied"
    BY <2>1 DEF Flow
  <2> QED BY <2>1, <2>2, FlowSame
<1>2. CASE ~(AppendUser(t) \/ StreamOpens(t))
  <2>1. /\ handler[t] # "returned" /\ handler[t] # "idle"
        /\ UNCHANGED <<client, outcome, heard, forward, carry, assistant>>
    BY <1>2 DEF Handle, Refuse, StreamFails, CopyText, CopyError, CopyDone,
                Kinds, Texts
  <2>2. ~InSeq("done", wire[t]) /\ outcome[t] # "replied"
    BY <2>1 DEF Flow
  <2>3. IsPrefix(heard'[t], Words(assistant'[t]))
    BY <2>1 DEF Flow
  <2>4. /\ heard[t] \in Seq(Items) /\ Words(wire[t]) \in Seq(Items)
        /\ Words(out[t]) \in Seq(Items) /\ Words(One(carry[t])) \in Seq(Items)
        /\ wire[t] \in Seq(Events)
    BY TurnItems, WordsCat, WordsOne DEF TypeOK
  <2>5. client[t] # "ended" =>
          Cat4(heard[t], Words(wire[t]), Words(out[t]), Words(One(carry[t])))
            = Words(assistant[t])
    BY ConservedCat DEF Flow
  <2> DEFINE Empties == handler'[t] = "returned" /\ forward[t] = "returned"
                          /\ out'[t] = <<>>
  <2>6. ASSUME NEW event \in Events, Write(t, event),
               event = "done" => Empties,
               client[t] # "ended" => Conserved(t)'
        PROVE  Flow(t)'
    <3>1. CASE client[t] = "ended"
      <4>1. wire'[t] = wire[t]
        BY <2>6, <3>1 DEF Write, TypeOK
      <4> QED BY <2>1, <2>2, <2>3, <3>1, <4>1 DEF Flow, InSeq
    <3>2. CASE client[t] # "ended"
      <4>1. wire'[t] = Append(wire[t], event)
        BY <2>6, <3>2, WriteCat
      <4>2. \A i \in 1..Len(wire'[t]) : wire'[t][i] = "done" => i = Len(wire'[t])
        BY <2>2, <2>4, <4>1, DoneLast
      <4>3. InSeq("done", wire'[t]) => Empties
        BY <2>2, <2>4, <2>6, <4>1, InSeqAppend
      <4> QED BY <2>1, <2>2, <2>3, <2>6, <3>2, <4>2, <4>3 DEF Flow
    <3> QED BY <3>1, <3>2
  <2>7. ASSUME NEW event \in Events \ {"word"}, Write(t, event),
               Words(out'[t]) = Words(out[t]), client[t] # "ended"
        PROVE  Conserved(t)'
    <3>1. Words(wire'[t]) = Cat(Words(wire[t]), Words(One(event)))
      BY <2>7, WriteCat
    <3>2. Words(One(event)) = <<>>
      BY <2>7, WordsOne DEF Items
    <3>3. Words(wire'[t]) = Words(wire[t])
      BY <2>4, <3>1, <3>2, CatEmpty
    <3>4. Cat4(heard'[t], Words(wire'[t]), Words(out'[t]),
               Words(One(carry'[t]))) = Words(assistant'[t])
      BY <2>1, <2>5, <2>7, <3>3
    <3> QED BY <3>4 DEF Conserved, Cat4, Cat, One
  <2>8. CASE Refuse(t) \/ StreamFails(t) \/ CopyDone(t)
    <3>1. PICK event \in {"ignored", "status", "done"} :
            /\ Write(t, event)
            /\ event = "done" => CopyDone(t)
      BY <2>8 DEF Refuse, StreamFails, CopyDone
    <3>2. UNCHANGED out /\ handler'[t] = "returned"
      BY <2>8 DEF Refuse, StreamFails, CopyDone, TypeOK
    <3>3. CopyDone(t) => Empties
      BY <1>0, <3>2 DEF CopyDone, Progress
    <3>4. event \in Events \ {"word"}
      BY DEF Events
    <3> QED BY <2>6, <2>7, <3>1, <3>2, <3>3, <3>4
  <2>9. ASSUME out[t] # <<>>, out'[t] = Tail(out[t])
        PROVE  /\ Head(out[t]) \in Items /\ Words(out'[t]) \in Seq(Items)
               /\ Words(out[t]) = Cat(Words(One(Head(out[t]))), Words(out'[t]))
    <3>1. /\ out[t] = Cat(One(Head(out[t])), out'[t])
          /\ Head(out[t]) \in Items /\ out'[t] \in Seq(Items)
      BY <2>9, TurnItems, CatHeadTail
    <3> QED BY <3>1, WordsOne, WordsCat
  <2>10. ASSUME out[t] # <<>>, out'[t] = Tail(out[t]), Head(out[t]) # "word"
         PROVE  Words(out'[t]) = Words(out[t])
    <3>1. Words(One(Head(out[t]))) = <<>>
      BY <2>9, <2>10, WordsOne
    <3> QED BY <2>9, <2>10, <3>1, CatEmpty
  <2>11. CASE CopyError(t)
    <3>1. /\ out[t] # <<>> /\ out'[t] = Tail(out[t]) /\ Head(out[t]) # "word"
          /\ Write(t, "error")
      BY <2>11 DEF CopyError, TypeOK
    <3>2. "error" \in Events \ {"word"} /\ "error" # "done"
      BY DEF Events
    <3> QED BY <2>6, <2>7, <2>10, <3>1, <3>2
  <2>12. CASE CopyText(t)
    <3>1. /\ out[t] # <<>> /\ out'[t] = Tail(out[t])
          /\ Head(out[t]) \in {"word", "blank"} /\ UNCHANGED handler
      BY <2>12 DEF CopyText, TypeOK, Texts
    <3>2. CASE Head(out[t]) = "blank"
      <4>1. UNCHANGED wire
        BY <2>12, <3>2 DEF CopyText
      <4>2. client[t] # "ended" =>
              Cat4(heard'[t], Words(wire'[t]), Words(out'[t]),
                   Words(One(carry'[t]))) = Words(assistant'[t])
        BY <2>1, <2>5, <2>10, <3>1, <3>2, <4>1
      <4>3. client[t] # "ended" => Conserved(t)'
        BY <4>2 DEF Conserved, Cat4, Cat, One
      <4> QED BY <2>1, <2>2, <2>3, <4>1, <4>3 DEF Flow, InSeq
    <3>3. CASE Head(out[t]) = "word"
      <4>1. Write(t, "word") /\ "word" \in Events /\ "word" # "done"
        BY <2>12, <3>3 DEF CopyText, Events
      <4>2. ASSUME client[t] # "ended" PROVE Conserved(t)'
        <5>1. /\ Words(One("word")) = One("word") /\ One("word") \in Seq(Items)
              /\ Words(out[t]) = Cat(One("word"), Words(out'[t]))
              /\ Words(out'[t]) \in Seq(Items)
          BY <2>9, <3>1, <3>3, WordsOne
        <5>2. Words(wire'[t]) = Cat(Words(wire[t]), One("word"))
          BY <4>1, <4>2, <5>1, WriteCat
        <5>3. Cat4(heard'[t], Words(wire'[t]), Words(out'[t]),
                   Words(One(carry'[t]))) = Words(assistant'[t])
          <6>1. Cat4(heard[t], Cat(Words(wire[t]), One("word")),
                     Words(out'[t]), Words(One(carry[t])))
                  = Cat4(heard[t], Words(wire[t]),
                         Cat(One("word"), Words(out'[t])), Words(One(carry[t])))
            BY <2>4, <5>1, Cat4Copy
          <6> QED BY <2>1, <2>5, <4>2, <5>1, <5>2, <6>1
        <5> QED BY <5>3 DEF Conserved, Cat4, Cat, One
      <4> QED BY <2>6, <4>1, <4>2
    <3> QED BY <3>1, <3>2, <3>3
  <2> QED BY <1>2, <2>8, <2>11, <2>12 DEF Handle
<1> QED BY <1>1, <1>2

\* What forwardTurn collects and sends on.
LEMMA FlowForward ==
  ASSUME TypeOK, TypeOK', TurnInv, NEW t \in Turns, Flow(t), ForwardTurn(t)
  PROVE  Flow(t)'
<1> USE DEF Put, clientVars, serverVars, forwardVars, pumpVars, channelVars,
            storeVars
<1>0. Progress(t)
  BY DEF TurnInv
<1>1. forward[t] # "returned" /\ UNCHANGED <<client, outcome, heard, wire>>
  BY DEF ForwardTurn, TakeChunk, SendChunk, StoreReply, CloseOut
<1>2. ~InSeq("done", wire[t]) /\ outcome[t] # "replied"
  BY <1>1 DEF Flow
<1>3. CASE StoreReply(t) \/ CloseOut(t)
  <2>1. UNCHANGED <<carry, assistant, out>>
    BY <1>3 DEF StoreReply, CloseOut
  <2> QED BY <1>1, <1>2, <2>1, FlowSame
<1>4. /\ heard[t] \in Seq(Items) /\ Words(wire[t]) \in Seq(Items)
      /\ Words(out[t]) \in Seq(Items) /\ Words(One(carry[t])) \in Seq(Items)
      /\ out[t] \in Seq(Items) /\ carry[t] \in Items
      /\ assistant[t] \in Seq(Items) /\ Words(assistant[t]) \in Seq(Items)
  BY TurnItems, WordsCat, WordsOne
<1>5. client[t] # "ended" =>
        Cat4(heard[t], Words(wire[t]), Words(out[t]), Words(One(carry[t])))
          = Words(assistant[t])
  BY ConservedCat DEF Flow
<1>6. Words(One("none")) = <<>>
  BY WordsOne DEF Items
<1>7. ASSUME IsPrefix(heard'[t], Words(assistant'[t])),
             client[t] # "ended" =>
               Cat4(heard'[t], Words(wire'[t]), Words(out'[t]),
                    Words(One(carry'[t]))) = Words(assistant'[t])
      PROVE  Flow(t)'
  <2>1. client[t] # "ended" => Conserved(t)'
    BY <1>7 DEF Conserved, Cat4, Cat, One
  <2> QED BY <1>1, <1>2, <1>7, <2>1 DEF Flow, InSeq
<1>8. CASE TakeChunk(t)
  <2> DEFINE chunk == Head(upstream[t])
  <2>1. /\ upstream[t] # <<>> /\ carry[t] = "none" /\ carry'[t] = chunk
        /\ assistant'[t] = IF chunk \in Texts THEN Append(assistant[t], chunk)
                           ELSE assistant[t]
        /\ UNCHANGED out
    BY <1>0, <1>8 DEF TakeChunk, TypeOK, Progress
  <2>2. chunk \in Chunks
    BY <2>1, HeadTailProperties DEF TypeOK
  <2> HIDE DEF chunk
  <2>3. /\ chunk \in Items /\ One(chunk) \in Seq(Items)
        /\ Words(One(chunk)) \in Seq(Items)
    BY <2>2, WordsOne, WordsCat DEF Items
  <2>4. Words(assistant'[t]) = Cat(Words(assistant[t]), Words(One(chunk)))
    <3>1. CASE chunk \in Texts
      <4>1. assistant'[t] = Cat(assistant[t], One(chunk))
        BY <1>4, <2>1, <2>3, <3>1, CatOne
      <4> QED BY <1>4, <2>3, <4>1, WordsCat
    <3>2. CASE chunk \notin Texts
      <4>1. Words(One(chunk)) = <<>>
        BY <2>3, <3>2, WordsOne DEF Texts
      <4> QED BY <1>4, <2>1, <3>2, <4>1, CatEmpty
    <3> QED BY <3>1, <3>2
  <2>5. IsPrefix(heard'[t], Words(assistant'[t]))
    BY <1>1, <1>4, <2>3, <2>4, PrefixCat DEF Flow
  <2>6. client[t] # "ended" =>
          Cat4(heard'[t], Words(wire'[t]), Words(out'[t]),
               Words(One(carry'[t]))) = Words(assistant'[t])
    <3>1. Cat4(heard[t], Words(wire[t]), Words(out[t]), Words(One(chunk)))
            = Cat(Cat4(heard[t], Words(wire[t]), Words(out[t]), <<>>),
                  Words(One(chunk)))
      BY <1>4, <2>3, Cat4Take
    <3> QED BY <1>1, <1>5, <1>6, <2>1, <2>4, <3>1
  <2> QED BY <1>7, <2>5, <2>6
<1>9. CASE SendChunk(t)
  <2>1. /\ out'[t] = Append(out[t], carry[t]) /\ carry'[t] = "none"
        /\ UNCHANGED assistant
    BY <1>9 DEF SendChunk, TypeOK
  <2>2. Words(out'[t]) = Cat(Words(out[t]), Words(One(carry[t])))
    <3>1. out'[t] = Cat(out[t], One(carry[t])) /\ One(carry[t]) \in Seq(Items)
      BY <1>4, <2>1, CatOne
    <3> QED BY <1>4, <3>1, WordsCat
  <2>3. client[t] # "ended" =>
          Cat4(heard'[t], Words(wire'[t]), Words(out'[t]),
               Words(One(carry'[t]))) = Words(assistant'[t])
    <3>1. Cat4(heard[t], Words(wire[t]),
               Cat(Words(out[t]), Words(One(carry[t]))), <<>>)
            = Cat4(heard[t], Words(wire[t]), Words(out[t]),
                   Words(One(carry[t])))
      BY <1>4, Cat4Send
    <3> QED BY <1>1, <1>5, <1>6, <2>1, <2>2, <3>1
  <2>4. IsPrefix(heard'[t], Words(assistant'[t]))
    BY <1>1, <2>1 DEF Flow
  <2> QED BY <1>7, <2>3, <2>4
<1> QED BY <1>3, <1>8, <1>9 DEF ForwardTurn

LEMMA FlowPump ==
  ASSUME NEW t \in Turns, Flow(t), PumpStream(t)
  PROVE  Flow(t)'
BY FlowSame
DEF PumpStream, ScanText, ScanEnds, ScanFails, clientVars, serverVars,
    forwardVars

-----------------------------------------------------------------------------
-----------------------------------------------------------------------------
(* The goroutines at the two ends of a channel.                             *)

LEMMA PartnersSame ==
  ASSUME NEW u \in Turns, Partners(u),
         pump'[u] = pump[u], forward'[u] = forward[u],
         handler'[u] = handler[u], carry'[u] = carry[u],
         upstream'[u] = upstream[u], u \in upClosed' <=> u \in upClosed
  PROVE  Partners(u)'
BY DEF Partners

LEMMA PartnersOther ==
  ASSUME TypeOK, NEW t \in Turns, NEW u \in Turns, u # t, Partners(u),
         TurnStep(t)
  PROVE  Partners(u)'
<1> USE DEF TypeOK, Put, clientVars, serverVars, forwardVars, pumpVars,
            channelVars, storeVars
<1> DEFINE Same == /\ pump'[u] = pump[u] /\ forward'[u] = forward[u]
                   /\ handler'[u] = handler[u] /\ carry'[u] = carry[u]
                   /\ upstream'[u] = upstream[u]
                   /\ u \in upClosed' <=> u \in upClosed
<1>1. CASE Post(t) \/ StreamTurn(t) \/ Abort(t) \/ Disconnected(t)
  <2>1. Same
    BY <1>1 DEF Post, StreamTurn, ReadText, ReadEnd, Abort, Disconnected
  <2> QED BY <2>1, PartnersSame
<1>2. CASE Refuse(t) \/ AppendUser(t) \/ StreamFails(t) \/ StreamOpens(t)
  <2>1. Same
    BY <1>2 DEF Refuse, AppendUser, StreamFails, StreamOpens
  <2> QED BY <2>1, PartnersSame
<1>3. CASE CopyText(t) \/ CopyError(t) \/ CopyDone(t)
  <2>1. Same
    BY <1>3 DEF CopyText, CopyError, CopyDone
  <2> QED BY <2>1, PartnersSame
<1>4. CASE ForwardTurn(t)
  <2>1. Same
    BY <1>4 DEF ForwardTurn, TakeChunk, SendChunk, StoreReply, CloseOut
  <2> QED BY <2>1, PartnersSame
<1>5. CASE PumpStream(t)
  <2>1. Same
    BY <1>5 DEF PumpStream, ScanText, ScanEnds, ScanFails
  <2> QED BY <2>1, PartnersSame
<1> QED BY <1>1, <1>2, <1>3, <1>4, <1>5 DEF TurnStep, Handle

LEMMA PartnersOwn ==
  ASSUME TypeOK, NEW t \in Turns, OwnTurn(t), Partners(t), TurnStep(t)
  PROVE  Partners(t)'
<1> USE DEF Put, clientVars, serverVars, forwardVars, pumpVars, channelVars,
            storeVars
<1>1. CASE Post(t)
  <2>1. /\ handler[t] = "idle" /\ handler'[t] \in Kinds
        /\ UNCHANGED <<pump, forward, carry, upstream, upClosed>>
    BY <1>1 DEF Post, TypeOK, OwnTurn, Progress
  <2> QED BY <2>1 DEF Partners, Kinds
<1>2. CASE StreamTurn(t) \/ Abort(t) \/ Disconnected(t) \/ CopyText(t)
  <2>1. UNCHANGED <<pump, forward, handler, carry, upstream, upClosed>>
    BY <1>2
    DEF StreamTurn, ReadText, ReadEnd, Abort, Disconnected, CopyText
  <2> QED BY <2>1 DEF Partners
<1>3. CASE Refuse(t) \/ AppendUser(t) \/ StreamFails(t)
  <2>1. /\ handler[t] \in Kinds \cup {"stream"}
        /\ handler'[t] \in {"stream", "returned"}
        /\ UNCHANGED <<pump, forward, carry, upstream, upClosed>>
    BY <1>3 DEF Refuse, AppendUser, StreamFails, TypeOK, Kinds
  <2>2. forward[t] = "idle"
    BY <2>1 DEF OwnTurn, Progress
  <2> QED BY <2>1, <2>2 DEF Partners
<1>4. CASE StreamOpens(t)
  <2>1. /\ handler[t] = "stream" /\ handler'[t] = "copy"
        /\ forward'[t] = "take" /\ pump'[t] = "scan"
        /\ UNCHANGED <<carry, upstream, upClosed>>
    BY <1>4 DEF StreamOpens, TypeOK
  <2>2. forward[t] = "idle"
    BY <2>1 DEF OwnTurn, Progress
  <2> QED BY <2>1, <2>2 DEF Partners
<1>5. CASE CopyError(t) \/ CopyDone(t)
  <2>1. /\ handler[t] = "copy" /\ handler'[t] = "returned"
        /\ UNCHANGED <<pump, forward, carry, upstream, upClosed>>
    BY <1>5 DEF CopyError, CopyDone, TypeOK
  <2>2. forward[t] = "returned"
    <3>1. CASE CopyError(t)
      <4>1. InSeq("error", out[t])
        BY <3>1, InSeqTail DEF CopyError, TypeOK
      <4> QED BY <2>1, <4>1 DEF OwnTurn, Lost, Failing, Partners
    <3>2. CASE CopyDone(t)
      BY <3>2 DEF CopyDone, OwnTurn, Progress
    <3> QED BY <1>5, <3>1, <3>2
  <2> QED BY <2>1, <2>2 DEF Partners
<1>6. CASE TakeChunk(t)
  <2>1. /\ forward[t] = "take" /\ forward'[t] = "send"
        /\ upstream[t] # <<>> /\ upstream'[t] = Tail(upstream[t])
        /\ carry'[t] = Head(upstream[t])
        /\ UNCHANGED <<pump, handler, upClosed>>
    BY <1>6 DEF TakeChunk, TypeOK
  <2>2. InSeq("error", upstream[t])
          <=> carry'[t] = "error" \/ InSeq("error", upstream'[t])
    BY <2>1, InSeqTail DEF TypeOK
  <2> QED BY <2>1, <2>2 DEF Partners
<1>7. CASE SendChunk(t)
  <2>1. /\ forward[t] = "send" /\ carry'[t] = "none"
        /\ forward'[t] = IF carry[t] = "error" THEN "returned" ELSE "take"
        /\ UNCHANGED <<pump, handler, upstream, upClosed>>
    BY <1>7 DEF SendChunk, TypeOK
  <2> QED BY <2>1 DEF Partners
<1>8. CASE StoreReply(t)
  <2>1. /\ forward[t] = "take" /\ forward'[t] = "close" /\ t \in upClosed
        /\ UNCHANGED <<pump, handler, carry, upstream, upClosed>>
    BY <1>8 DEF StoreReply, TypeOK
  <2> QED BY <2>1 DEF Partners
<1>9. CASE CloseOut(t)
  <2>1. /\ forward[t] = "close" /\ forward'[t] = "returned"
        /\ UNCHANGED <<pump, handler, carry, upstream, upClosed>>
    BY <1>9 DEF CloseOut, TypeOK
  <2> QED BY <2>1 DEF Partners
<1>10. ASSUME NEW chunk \in Texts, ScanText(t, chunk) PROVE Partners(t)'
  <2>1. /\ upstream'[t] = Append(upstream[t], chunk)
        /\ UNCHANGED <<pump, forward, handler, carry, upClosed>>
    BY <1>10 DEF ScanText, TypeOK
  <2>2. InSeq("error", upstream'[t]) <=> InSeq("error", upstream[t])
    <3>1. upstream[t] \in Seq(Chunks) /\ chunk \in Chunks /\ chunk # "error"
      BY DEF TypeOK, Chunks, Texts
    <3> QED BY <2>1, <3>1, InSeqAppend
  <2> QED BY <2>1, <2>2 DEF Partners
<1>11. CASE ScanEnds(t) \/ ScanFails(t)
  <2>1. /\ pump[t] = "scan" /\ pump'[t] = "returned" /\ t \in upClosed'
        /\ UNCHANGED <<forward, handler, carry>>
    BY <1>11 DEF ScanEnds, ScanFails, TypeOK
  <2> QED BY <2>1 DEF Partners
<1> QED
  BY <1>1, <1>2, <1>3, <1>4, <1>5, <1>6, <1>7, <1>8, <1>9, <1>10, <1>11
  DEF TurnStep, Handle, ForwardTurn, PumpStream

LEMMA StepInv == Inv /\ [Next]_vars => Inv'
<1> SUFFICES ASSUME Inv, [Next]_vars PROVE Inv'
  OBVIOUS
<1>1. TypeOK'
  BY TypeStep
<1>2. ASSUME NEW t \in Turns, TurnStep(t) PROVE Inv'
  <2>1. OwnTurn(t)'
    BY <1>1, <1>2, ClientOwn, HandlerOwn, ForwardOwn, PumpOwn
    DEF TurnStep, Inv
  <2>2. \A u \in Turns : u # t => OwnTurn(u)'
    BY <1>1, <1>2, OthersAlone, OtherTurn DEF TurnStep, Inv, OwnTurn
  <2>3. TurnInv'
    BY <2>1, <2>2 DEF TurnInv, OwnTurn
  <2>4. OneClient'
    BY <1>1, <1>2, OneClientStep DEF Inv
  <2>5. RepliesAreSound'
    BY <1>1, <1>2, <2>3, RepliesStep DEF Inv
  <2>6. CompletedTurnsAreRemembered'
    BY <1>1, <1>2, CompletedStep
  <2>7. Flow(t)'
    BY <1>1, <1>2, FlowClient, FlowHandler, FlowForward, FlowPump
    DEF TurnStep, Inv, WordsFlow
  <2>8. \A u \in Turns : u # t => Flow(u)'
    BY <1>1, <1>2, OthersAlone, OtherFlow DEF TurnStep, Inv, WordsFlow
  <2>9. WordsFlow'
    BY <2>7, <2>8 DEF WordsFlow
  <2>10. AllPartners'
    <3>1. Partners(t)'
      BY <1>2, PartnersOwn DEF Inv, TurnInv, OwnTurn, AllPartners
    <3>2. \A u \in Turns : u # t => Partners(u)'
      BY <1>2, PartnersOther DEF Inv, AllPartners
    <3> QED BY <3>1, <3>2 DEF AllPartners
  <2> QED BY <1>1, <2>3, <2>4, <2>5, <2>6, <2>9, <2>10 DEF Inv
<1>3. CASE UNCHANGED vars
  <2> USE <1>3 DEF vars, clientVars, serverVars, forwardVars, channelVars,
                   storeVars, Inv
  <2>1. OneClient'
    BY DEF OneClient
  <2>2. TurnInv'
    <3>1. \A u \in Turns : Alone(u)
      BY DEF Alone, User, Stored
    <3> QED BY <3>1, OtherTurn DEF TurnInv
  <2>3. CompletedTurnsAreRemembered' /\ RepliesAreSound'
    BY DEF CompletedTurnsAreRemembered, RepliesAreSound
  <2>4. WordsFlow'
    <3>1. \A u \in Turns : Alone(u)
      BY DEF Alone, User, Stored
    <3> QED BY <3>1, OtherFlow DEF WordsFlow
  <2>5. AllPartners'
    <3>1. UNCHANGED <<pump, forward, handler, carry, upstream, upClosed>>
      BY DEF pumpVars
    <3> QED BY <3>1 DEF AllPartners, Partners
  <2> QED BY <1>1, <2>1, <2>2, <2>3, <2>4, <2>5
<1> QED BY <1>2, <1>3 DEF Next, TurnStep, AllReturned

\* The inductive invariant of the turns of a session.
THEOREM InvCorrect == Spec => []Inv
BY InitInv, StepInv, PTL DEF Spec

\* The goroutines, the channels and the store keep their types.
THEOREM TypeCorrect == Spec => []TypeOK
BY InvCorrect, PTL DEF Inv

\* A reply heard to its end is in every later prompt, after its utterance.
THEOREM CompletedTurnsStay == Spec => []CompletedTurnsAreRemembered
BY InvCorrect, PTL DEF Inv

\* No reply is stored twice, before its utterance, or for a failed turn.
THEOREM RepliesStaySound == Spec => []RepliesAreSound
BY InvCorrect, PTL DEF Inv

\* The caller hears the reply: its words, in order and none twice, through
\* three channels of any capacity; all of them, once [DONE] was read.
THEOREM CallerHearsReply == Spec => []HeardIsReply
<1>1. Inv => HeardIsReply
  BY DEF Inv, WordsFlow, Flow, HeardIsReply
<1> QED BY <1>1, InvCorrect, PTL

\* No goroutine of a request is left waiting on a channel nobody else is at,
\* and the three of them never wait for each other.
THEOREM NobodyStranded == Spec => []NobodyIsStranded
<1>1. Inv => NobodyIsStranded
  <2> SUFFICES ASSUME TypeOK, TurnInv, AllPartners, NEW t \in Turns
               PROVE  /\ PumpWaits(t) => forward[t] \in {"take", "send"}
                      /\ ForwardWaits(t) /\ forward[t] = "take"
                           => pump[t] = "scan"
                      /\ ForwardWaits(t) /\ forward[t] = "send"
                           => handler[t] = "copy"
                      /\ HandlerWaits(t)
                           => forward[t] \in {"take", "send", "close"}
                      /\ handler[t] # "idle" /\ ~Returned(t) =>
                           \/ pump[t] = "scan" /\ ~PumpWaits(t)
                           \/ /\ forward[t] \in {"take", "send", "close"}
                              /\ ~ForwardWaits(t)
                           \/ handler[t] # "returned" /\ ~HandlerWaits(t)
    BY DEF Inv, NobodyIsStranded
  <2>1. Partners(t) /\ Progress(t)
    BY DEF AllPartners, TurnInv
  <2>2. /\ forward[t] \in {"idle", "take", "send", "close", "returned"}
        /\ pump[t] \in {"idle", "scan", "returned"}
        /\ handler[t] \in Kinds \cup {"idle", "stream", "copy", "returned"}
    BY DEF TypeOK
  <2>3. /\ Len(upstream[t]) = Cap => upstream[t] # <<>>
        /\ Len(out[t]) = Cap => out[t] # <<>>
    BY BoundsAreNat
  <2>4. HandlerWaits(t) => forward[t] \in {"take", "send", "close"}
    BY <2>1, <2>2 DEF HandlerWaits, Partners, Progress
  <2>5. ASSUME handler[t] # "idle", ~Returned(t)
        PROVE  \/ pump[t] = "scan" /\ ~PumpWaits(t)
               \/ forward[t] \in {"take", "send", "close"} /\ ~ForwardWaits(t)
               \/ handler[t] # "returned" /\ ~HandlerWaits(t)
    <3>1. CASE handler[t] = "returned"
      BY <2>1, <2>2, <2>5, <3>1 DEF Partners, Returned
    <3>2. CASE handler[t] \notin {"returned", "copy"}
      BY <3>2 DEF HandlerWaits
    <3>3. CASE HandlerWaits(t)
      BY <2>1, <2>3, <2>4, <3>3
      DEF HandlerWaits, ForwardWaits, PumpWaits, Partners
    <3> QED BY <3>1, <3>2, <3>3
  <2> QED BY <2>1, <2>4, <2>5 DEF PumpWaits, ForwardWaits, Partners
<1> QED BY <1>1, InvCorrect, PTL

-----------------------------------------------------------------------------
(* Conversation implements Dialogue.                                        *)

\* Which turns are complete or failed changes only with their outcome.
LEMMA OutcomeStep ==
  ASSUME TypeOK, TypeOK', NEW t \in Turns, TurnStep(t)
  PROVE  \/ UNCHANGED <<outcome, heard>>
         \/ ReadText(t) \/ ReadEnd(t) \/ Abort(t)
<1> USE DEF clientVars
<1> QED
  BY DEF TurnStep, StreamTurn, Post, Disconnected, Handle, Refuse, AppendUser,
         StreamFails, StreamOpens, CopyText, CopyError, CopyDone, ForwardTurn,
         TakeChunk, SendChunk, StoreReply, CloseOut, PumpStream, ScanText,
         ScanEnds, ScanFails

LEMMA StepLog == Inv /\ Inv' /\ [Next]_vars => [Log!Next]_(Log!vars)
<1> SUFFICES ASSUME Inv, Inv', [Next]_vars PROVE [Log!Next]_(Log!vars)
  OBVIOUS
<1> USE DEF Log!Turns, Turns
<1>0. TypeOK /\ TypeOK'
  BY DEF Inv
<1>1. ASSUME NEW t \in Turns, AppendUser(t) PROVE Log!Ask(t)
  <2>1. ~User(t)
    BY <1>1 DEF AppendUser, Inv, TurnInv, Asked, Kinds
  <2> QED
    BY <1>1, <2>1 DEF AppendUser, Put, clientVars, Log!Ask, Log!Logged, User,
                      InSeq
<1>2. ASSUME NEW t \in Turns, StoreReply(t)
      PROVE  Log!Answer(t) \/ UNCHANGED Log!vars
  <2>1. User(t) /\ ~Stored(t) /\ outcome[t] # "failed"
    BY <1>2 DEF StoreReply, Inv, TurnInv, Asked, Kept, Lost, Failing
  <2> QED
    BY <1>2, <2>1 DEF StoreReply, clientVars, Log!Answer, Log!Logged, Log!vars,
                      User, Stored, InSeq
<1>3. ASSUME NEW t \in Turns, ReadEnd(t)
      PROVE  Log!Complete(t) \/ Log!Fail(t) \/ UNCHANGED Log!vars
  <2>1. /\ outcome' = [outcome EXCEPT ![t] = OutcomeOf(Head(wire[t]))]
        /\ client[t] = "reading" /\ client' = [client EXCEPT ![t] = "ended"]
        /\ UNCHANGED <<heard, storeVars>>
    BY <1>3 DEF ReadEnd, Put
  <2>2. outcome[t] = "none"
    BY <2>1 DEF Inv, TurnInv, Progress
  <2>3. CASE outcome'[t] = "replied" /\ heard[t] # <<>>
    <3>1. Stored(t)
      <4>1. (Kept(t))'
        BY DEF Inv, TurnInv
      <4> QED BY <2>1, <2>3, <4>1 DEF Kept, Speaks, Stored, storeVars
    <3>2. \A u \in Turns : u > t => prompt[u] = <<>>
      <4>1. \A u \in Turns : u > t => client[u] = "idle"
        BY <2>1, BoundsAreNat DEF Inv, OneClient
      <4> QED BY <4>1 DEF Inv, TurnInv, Progress, Asked
    <3>3. LET Replied == {u \in Turns :
                            outcome[u] = "replied" /\ heard[u] # <<>>}
          IN  Replied' = Replied \cup {t}
      BY <2>1, <2>3, <1>0 DEF TypeOK
    <3>4. {u \in Turns : outcome[u] = "failed"}'
            = {u \in Turns : outcome[u] = "failed"}
      BY <2>1, <2>2, <2>3, <1>0 DEF TypeOK
    <3> QED
      BY <2>1, <3>1, <3>2, <3>3, <3>4
      DEF Log!Complete, Log!Logged, Stored, InSeq, storeVars
  <2>4. CASE outcome'[t] = "failed"
    <3>1. ~Stored(t)
      <4>1. (Lost(t))'
        BY DEF Inv, TurnInv
      <4> QED BY <2>1, <2>4, <4>1 DEF Lost, Failing, Stored, storeVars
    <3>2. LET Replied == {u \in Turns :
                            outcome[u] = "replied" /\ heard[u] # <<>>}
          IN  Replied' = Replied
      BY <2>1, <2>2, <2>4, <1>0 DEF TypeOK
    <3>3. {u \in Turns : outcome[u] = "failed"}'
            = {u \in Turns : outcome[u] = "failed"} \cup {t}
      BY <2>1, <2>4, <1>0 DEF TypeOK
    <3> QED
      BY <2>1, <3>1, <3>2, <3>3
      DEF Log!Fail, Log!Logged, Stored, InSeq, storeVars
  <2>5. CASE /\ outcome'[t] # "failed"
             /\ ~(outcome'[t] = "replied" /\ heard[t] # <<>>)
    BY <2>1, <2>2, <2>5, <1>0 DEF Log!vars, storeVars, TypeOK
  <2> QED BY <2>3, <2>4, <2>5
<1>4. ASSUME NEW t \in Turns, ReadText(t) \/ Abort(t)
      PROVE  UNCHANGED Log!vars
  <2>1. client[t] = "reading" /\ UNCHANGED storeVars
    BY <1>4 DEF ReadText, Abort
  <2>2. outcome[t] = "none"
    BY <2>1 DEF Inv, TurnInv, Progress
  <2>3. outcome'[t] \in {"none", "aborted"}
    BY <1>4, <2>2, <1>0 DEF ReadText, Abort, Put, TypeOK
  <2>4. \A u \in Turns : u # t =>
          outcome'[u] = outcome[u] /\ heard'[u] = heard[u]
    BY <1>4, <1>0 DEF ReadText, Abort, Put, TypeOK
  <2> QED BY <2>1, <2>2, <2>3, <2>4 DEF Log!vars, storeVars
<1>5. ASSUME NEW t \in Turns, TurnStep(t),
             ~AppendUser(t), ~StoreReply(t), ~ReadEnd(t), ~ReadText(t),
             ~Abort(t)
      PROVE  UNCHANGED Log!vars
  BY <1>0, <1>5, OutcomeStep, StepFacts DEF Log!vars
<1>6. CASE UNCHANGED vars
  BY <1>6 DEF vars, clientVars, storeVars, Log!vars
<1> QED
  BY <1>1, <1>2, <1>3, <1>4, <1>5, <1>6
  DEF Next, TurnStep, AllReturned, Log!Next

\* The store of a session and what the caller is told of it: every step is a
\* step of Dialogue or a stutter.
THEOREM ImplementsDialogue == Spec => KeepsTheDialogue
<1>1. Init => Log!Init
  BY DEF Init, Log!Init, Log!Turns, Turns
<1> QED
  BY <1>1, StepLog, InvCorrect, PTL DEF Spec, KeepsTheDialogue, Log!Spec
=============================================================================

------------------------ MODULE DeepgramStreamProofs ------------------------
(***************************************************************************)
(* Proofs about DeepgramStream for any channel capacity and any number of  *)
(* transcripts.  Inv is inductive: the write mutex and the Once are held   *)
(* where the labels say, the channels are closed exactly as far as the     *)
(* Once has run, and every transcript is queued or delivered.              *)
(***************************************************************************)
EXTENDS DeepgramStream, TLAPS

LEMMA InitInv == Init => Inv
<1> SUFFICES ASSUME Init PROVE Inv
  OBVIOUS
<1>1. pc \in [Actors -> Labels]
  BY DEF Init, Labels
<1>2. TypeOK
  <2>1. /\ 0 \in 0..Cap
        /\ 0 \in 0..MaxTranscripts
    BY CapIsPositive
  <2> QED BY <1>1, <2>1 DEF Init, TypeOK
<1> USE CapIsPositive, NobodyIsAnActor
    DEF Init, InOnce, Actors, Writer, Reader, Consumer, Closer
<1>3. WriteInv
  BY DEF WriteInv
<1>6. HolderInv
  BY DEF HolderInv
<1>4. OnceInv
  BY DEF OnceInv
<1>5. QueueInv
  BY DEF QueueInv, NothingLeftBehind
<1> QED BY <1>2, <1>3, <1>4, <1>5, <1>6 DEF Inv

\* The steps of a goroutine inside sttPipe.end or stream.Close.
LEMMA CloseStep ==
  ASSUME Inv, NEW a \in Actors, Close(a)
  PROVE  Inv'
<1> USE CapIsPositive, NobodyIsAnActor
    DEF Inv, TypeOK, WriteInv, HolderInv, OnceInv, QueueInv, NothingLeftBehind, Labels,
        InOnce, Actors, Writer, Reader, Consumer, Closer, Goto, AfterClose,
        trackVars, onceVars, eventVars, streamVars
<1>1. CASE PipeEnd(a)
  BY <1>1 DEF PipeEnd
<1>2. CASE CloseEnter(a)
  BY <1>2 DEF CloseEnter
<1>3. CASE CloseAgain(a)
  BY <1>3 DEF CloseAgain, ReturnFromClose
<1>4. CASE CloseLock(a)
  BY <1>4 DEF CloseLock
<1>5. CASE Goodbye(a)
  BY <1>5 DEF Goodbye
<1>6. CASE CloseDone(a)
  BY <1>6 DEF CloseDone
<1>7. CASE CloseEvents(a)
  <2>1. once = a /\ write = a /\ done
    BY <1>7 DEF CloseEvents
  <2>2. TypeOK'
    BY <1>7 DEF CloseEvents, ReturnFromClose
  <2>3. WriteInv'
    BY <1>7, <2>1 DEF CloseEvents, ReturnFromClose
  <2>4. OnceInv'
    BY <1>7, <2>1 DEF CloseEvents, ReturnFromClose
  <2>5. QueueInv'
    BY <1>7 DEF CloseEvents, ReturnFromClose
  <2>6. HolderInv'
    BY <1>7, <2>1 DEF CloseEvents, ReturnFromClose
  <2> QED BY <2>2, <2>3, <2>4, <2>5, <2>6
<1> QED BY <1>1, <1>2, <1>3, <1>4, <1>5, <1>6, <1>7 DEF Close

\* The steps of the decode loop and of WritePCM.
LEMMA WriterStep ==
  ASSUME Inv, DecodeSample \/ DecodeEnds \/ WritePCM
  PROVE  Inv'
<1> USE CapIsPositive, NobodyIsAnActor
    DEF Inv, TypeOK, WriteInv, HolderInv, OnceInv, QueueInv, NothingLeftBehind, Labels,
        InOnce, Actors, Writer, Reader, Consumer, Closer, Goto,
        trackVars, onceVars, eventVars, streamVars
<1>1. CASE DecodeSample \/ DecodeEnds
  BY <1>1 DEF DecodeSample, DecodeEnds
<1>2. CASE WriteLock
  BY <1>2 DEF WriteLock
<1>3. CASE CheckClosed
  BY <1>3 DEF CheckClosed
<1>4. CASE SendSucceeds \/ SendFails
  BY <1>4 DEF SendSucceeds, SendFails
<1>5. CASE FailEnter \/ FailAgain
  BY <1>5 DEF FailEnter, FailAgain
<1>6. CASE FailDone
  BY <1>6 DEF FailDone
<1>7. CASE FailEvents
  <2>1. once = Writer /\ write = Writer /\ done
    BY <1>7 DEF FailEvents
  <2>2. TypeOK'
    BY <1>7 DEF FailEvents
  <2>3. WriteInv'
    BY <1>7, <2>1 DEF FailEvents
  <2>4. OnceInv'
    BY <1>7, <2>1 DEF FailEvents
  <2>5. QueueInv'
    BY <1>7 DEF FailEvents
  <2>6. HolderInv'
    BY <1>7, <2>1 DEF FailEvents
  <2> QED BY <2>2, <2>3, <2>4, <2>5, <2>6
<1> QED BY <1>1, <1>2, <1>3, <1>4, <1>5, <1>6, <1>7 DEF WritePCM

\* The steps of readLoop.
LEMMA ReaderStep ==
  ASSUME Inv, ReadLoop \/ ReadTranscript \/ ReadOther
  PROVE  Inv'
<1> USE CapIsPositive, NobodyIsAnActor
    DEF Inv, TypeOK, WriteInv, HolderInv, OnceInv, QueueInv, NothingLeftBehind, Labels,
        InOnce, Actors, Writer, Reader, Consumer, Closer, Goto,
        trackVars, onceVars, eventVars, streamVars
<1>1. CASE CheckContext \/ ReadOther \/ ReadFails
  BY <1>1 DEF CheckContext, ReadOther, ReadFails
<1>5. CASE RecordReadErr
  BY <1>5 DEF RecordReadErr
<1>6. CASE SetReadErr
  BY <1>6 DEF SetReadErr
<1>2. CASE ReadTranscript
  BY <1>2 DEF ReadTranscript
<1>3. CASE EmitSends
  BY <1>3 DEF EmitSends
<1>4. CASE EmitStops
  BY <1>4 DEF EmitStops
<1> QED BY <1>1, <1>2, <1>3, <1>4, <1>5, <1>6 DEF ReadLoop

\* The steps of the consumer, of the closer and of the world outside.
LEMMA OtherStep ==
  ASSUME Inv,
         Consume \/ RootCancelled \/ TrackCloseBegins \/ TrackCloseSink
           \/ ConnectionLost
  PROVE  Inv'
<1> USE CapIsPositive, NobodyIsAnActor
    DEF Inv, TypeOK, WriteInv, HolderInv, OnceInv, QueueInv, NothingLeftBehind, Labels,
        InOnce, Actors, Writer, Reader, Consumer, Closer, Goto,
        trackVars, onceVars, eventVars, streamVars
<1>1. CASE ConsumeTranscript
  BY <1>1 DEF ConsumeTranscript
<1>2. CASE ConsumerSeesContext \/ ConsumerSeesClosed
  BY <1>2 DEF ConsumerSeesContext, ConsumerSeesClosed
<1>3. CASE RootCancelled
  BY <1>3 DEF RootCancelled
<1>5. CASE TrackCloseBegins
  BY <1>5 DEF TrackCloseBegins
<1>6. CASE TrackCloseSink
  BY <1>6 DEF TrackCloseSink
<1>4. CASE ConnectionLost
  BY <1>4 DEF ConnectionLost
<1> QED BY <1>1, <1>2, <1>3, <1>4, <1>5, <1>6 DEF Consume

\* The inductive invariant of a stream holds in every reachable state.
THEOREM InvCorrect == Spec => []Inv
<1>1. Inv /\ UNCHANGED vars => Inv'
  BY DEF Inv, TypeOK, WriteInv, HolderInv, OnceInv, QueueInv, NothingLeftBehind, vars,
         trackVars, onceVars, eventVars, streamVars
<1>2. Inv /\ [Next]_vars => Inv'
  BY <1>1, CloseStep, WriterStep, ReaderStep, OtherStep DEF Next, AllReturned
<1> QED BY InitInv, <1>2, PTL DEF Spec

\* The stream's variables keep their types.
THEOREM TypeCorrect == Spec => []TypeOK
<1>1. Inv => TypeOK
  BY DEF Inv
<1> QED BY <1>1, InvCorrect, PTL

\* A sample and the goodbye of closeConn are never written at the same time.
THEOREM OneConnWriterCorrect == Spec => []OneConnWriter
<1>1. Inv => OneConnWriter
  BY DEF Inv, WriteInv, OneConnWriter, Actors
<1> QED BY <1>1, InvCorrect, PTL

\* No channel of the stream is closed twice.
THEOREM NoDoubleCloseCorrect == Spec => []NoDoubleClose
<1>1. Inv => NoDoubleClose
  BY NobodyIsAnActor DEF Inv, OnceInv, InOnce, NoDoubleClose
<1> QED BY <1>1, InvCorrect, PTL

\* A consumer that was not cancelled dispatches every queued transcript.
THEOREM NothingLeftBehindCorrect == Spec => []NothingLeftBehind
<1>1. Inv => NothingLeftBehind
  BY DEF Inv, QueueInv
<1> QED BY <1>1, InvCorrect, PTL

\* Whenever goroutines of the stream wait for one another and the cycle below
\* is open, one that holds a lock goes on: nothing else can stop them all.
THEOREM NoOtherCycleCorrect == Spec => []NoOtherCycle
<1>1. Inv => NoOtherCycle
  <2> SUFFICES ASSUME Inv, ~LockCycle, NEW a \in Actors, Waits(a)
               PROVE  \E b \in {write, once, pipeOnce} \cap Actors : pc[b] \in Holding /\ ~Waits(b)
    BY DEF NoOtherCycle
  <2> USE NobodyIsAnActor DEF Inv
  <2>1. once \in Actors => pc[once] \in InOnce
    BY DEF OnceInv
  <2>2. ASSUME write \in Actors
        PROVE  \E b \in {write, once, pipeOnce} \cap Actors : pc[b] \in Holding /\ ~Waits(b)
    <3>1. CASE ~Waits(write)
      BY <2>2, <3>1 DEF HolderInv, Holding, InOnce
    <3>2. CASE Waits(write)
      <4>1. write = Writer /\ pc[Writer] = "fail" /\ once \in Actors
        BY <2>2, <3>2 DEF Waits, HolderInv
      <4>2. once # Writer /\ pc[once] # "closeLock"
        BY <2>1, <4>1 DEF LockCycle, InOnce
      <4>3. ~Waits(once)
        BY <2>1, <4>1, <4>2 DEF Waits, InOnce
      <4> QED BY <2>1, <4>1, <4>3 DEF Holding
    <3> QED BY <3>1, <3>2
  <2>3. ASSUME once \in Actors
        PROVE  \E b \in {write, once, pipeOnce} \cap Actors : pc[b] \in Holding /\ ~Waits(b)
    <3>1. CASE ~Waits(once)
      BY <2>1, <2>3, <3>1 DEF Holding
    <3>2. CASE Waits(once)
      <4>1. write \in Actors
        BY <2>1, <2>3, <3>2 DEF Waits, InOnce, TypeOK
      <4> QED BY <2>2, <4>1
    <3> QED BY <3>1, <3>2
  <2>4. ASSUME pipeOnce \in Actors
        PROVE  \E b \in {write, once, pipeOnce} \cap Actors : pc[b] \in Holding /\ ~Waits(b)
    <3>1. CASE ~Waits(pipeOnce)
      BY <2>4, <3>1 DEF HolderInv, Holding, InOnce
    <3>2. CASE Waits(pipeOnce)
      <4>1. write \in Actors \/ once \in Actors
        BY <2>4, <3>2 DEF Waits, HolderInv, TypeOK
      <4> QED BY <2>2, <2>3, <4>1
    <3> QED BY <3>1, <3>2
  <2>5. write \in Actors \/ once \in Actors \/ pipeOnce \in Actors
    BY DEF Waits, TypeOK
  <2> QED BY <2>2, <2>3, <2>4, <2>5
<1> QED BY <1>1, InvCorrect, PTL

\* Whoever closes the stream while a write fails waits for ever, and so does
\* the writer: no step of any goroutine opens the cycle.
THEOREM CycleIsForeverCorrect == Spec => CycleIsForever
<1>1. Inv /\ LockCycle /\ [Next]_vars => LockCycle'
  <2> SUFFICES ASSUME Inv, LockCycle, [Next]_vars PROVE LockCycle'
    OBVIOUS
  <2> USE NobodyIsAnActor
      DEF LockCycle, Actors, Writer, Reader, Consumer, Closer, Goto,
          trackVars, onceVars, eventVars, streamVars
  <2>1. ASSUME NEW a \in Actors, Close(a) PROVE LockCycle'
    BY <2>1 DEF Inv, TypeOK, WriteInv, OnceInv, InOnce, Close, PipeEnd,
                CloseEnter, CloseAgain, CloseLock, Goodbye, CloseDone,
                CloseEvents, ReturnFromClose, AfterClose
  <2>2. CASE DecodeSample \/ DecodeEnds \/ WritePCM
    BY <2>2 DEF DecodeSample, DecodeEnds, WritePCM, WriteLock, CheckClosed,
                SendSucceeds, SendFails, FailEnter, FailAgain, FailDone,
                FailEvents, Inv, TypeOK
  <2>3. CASE ReadLoop \/ ReadTranscript \/ ReadOther
    BY <2>3 DEF ReadLoop, ReadTranscript, ReadOther, CheckContext, ReadFails,
                RecordReadErr, SetReadErr, EmitSends, EmitStops, Inv, TypeOK
  <2>4. CASE Consume \/ RootCancelled \/ TrackCloseBegins \/ TrackCloseSink
             \/ ConnectionLost
    BY <2>4 DEF Consume, ConsumeTranscript, ConsumerSeesContext,
                ConsumerSeesClosed, RootCancelled, TrackCloseBegins,
                TrackCloseSink, ConnectionLost, Inv, TypeOK
  <2>5. CASE UNCHANGED vars
    BY <2>5 DEF vars
  <2> QED BY <2>1, <2>2, <2>3, <2>4, <2>5 DEF Next, AllReturned
<1> QED BY <1>1, InvCorrect, PTL DEF Spec, CycleIsForever
=============================================================================

------------------------- MODULE TurnPipelineProofs -------------------------
(***************************************************************************)
(* Proofs about TurnPipeline for any set of microphones and any number of  *)
(* turns, sentences and interim transcripts.  The inductive invariant Inv  *)
(* is proved conjunct by conjunct: each lemma below shows that one of them *)
(* survives a step, given those before it.                                 *)
(***************************************************************************)
EXTENDS TurnPipeline, TLAPS

TypeInv == TypeOK /\ SnapInv

-----------------------------------------------------------------------------
(* Types.                                                                   *)

LEMMA InitType == Init => TypeInv
<1> SUFFICES ASSUME Init PROVE TypeInv
  OBVIOUS
<1>1. pc \in [Actors -> Labels]
  BY DEF Init, Actors, Labels, TurnLabels, Held
<1>2. /\ nextTurn \in 1..(NumTurns + 1)
      /\ sentence \in [Turns -> 0..MaxSentences]
      /\ interims \in 0..MaxInterims
  BY BoundsAreNat DEF Init
<1>3. services \subseteq {"orchestrator", "tts"}
  BY DEF Init
<1>4. SnapInv
  BY DEF Init, SnapInv, Actors
<1> QED BY <1>1, <1>2, <1>3, <1>4 DEF Init, TypeInv, TypeOK

\* Interrupt() runs on every kind of actor; past the snapshot it has a clip.
LEMMA TypeInterrupt ==
  ASSUME TypeInv, NEW a \in Actors, Interrupt(a)
  PROVE  TypeInv'
<1> USE NamesAreDistinct
    DEF TypeInv, TypeOK, SnapInv, Labels, TurnLabels, Held, Actors, Goto,
        playbackVars, clipVars, turnVars, inputVars, roomVars
<1>1. CASE InterruptSnapshot(a)
  BY <1>1 DEF InterruptSnapshot, AfterInterrupt
<1>2. CASE InterruptCancel(a)
  BY <1>2 DEF InterruptCancel
<1>3. CASE InterruptClose(a)
  BY <1>3 DEF InterruptClose, AfterInterrupt
<1> QED BY <1>1, <1>2, <1>3 DEF Interrupt

LEMMA TypeReader ==
  ASSUME TypeInv, NEW r \in Readers, Reader(r)
  PROVE  TypeInv'
<1> USE NamesAreDistinct
    DEF TypeInv, TypeOK, SnapInv, Labels, TurnLabels, Held, Actors, Goto,
        playbackVars, clipVars, turnVars, inputVars, roomVars
<1>1. CASE ReceiveFinal(r)
  <2>1. nextTurn \in Turns /\ nextTurn' \in 1..(NumTurns + 1)
    BY <1>1, BoundsAreNat DEF ReceiveFinal, Turns
  <2> QED BY <1>1, <2>1 DEF ReceiveFinal
<1>2. CASE ReceiveInterim(r)
  <2>1. interims' \in 0..MaxInterims
    BY <1>2, BoundsAreNat DEF ReceiveInterim
  <2> QED BY <1>2, <2>1 DEF ReceiveInterim
<1>3. CASE CheckPlaying(r)
  BY <1>3 DEF CheckPlaying
<1>4. CASE Dispatch(r)
  BY <1>4 DEF Dispatch
<1>5. CASE ReaderExits(r)
  BY <1>5 DEF ReaderExits
<1>6. CASE TrackEnds(r)
  BY <1>6 DEF TrackEnds
<1> QED BY <1>1, <1>2, <1>3, <1>4, <1>5, <1>6 DEF Reader

LEMMA TypeSpeak ==
  ASSUME TypeInv, NEW t \in Turns, NEW from \in {"stream", "rest", "whole"},
         Speak(t, from)
  PROVE  TypeInv'
<1>1. sentence' \in [Turns -> 0..MaxSentences]
  BY BoundsAreNat DEF Speak, TypeInv, TypeOK
<1> QED
  BY <1>1, NamesAreDistinct
  DEF Speak, TypeInv, TypeOK, SnapInv, Labels, TurnLabels, Held, Actors, Goto,
      playbackVars, clipVars, turnVars, inputVars, roomVars

LEMMA TypeTurn ==
  ASSUME TypeInv, NEW t \in Turns, Turn(t)
  PROVE  TypeInv'
<1>0. t \in Actors
  BY DEF Actors
<1>1. CASE StreamSentence(t) \/ SpeakRest(t) \/ SpeakWhole(t)
  BY <1>1, TypeSpeak DEF StreamSentence, SpeakRest, SpeakWhole
<1> USE <1>0
    DEF TypeInv, TypeOK, SnapInv, Labels, TurnLabels, Held, Goto,
        playbackVars, clipVars, turnVars, inputVars, roomVars
<1>2. CASE LockTurn(t) \/ UnlockTurn(t)
  BY <1>2 DEF LockTurn, UnlockTurn
<1>3. CASE StreamEnds(t) \/ NothingLeft(t) \/ AfterStreamReturns(t)
           \/ Synthesize(t) \/ PlayoutDone(t)
  BY <1>3 DEF StreamEnds, NothingLeft, AfterStreamReturns, Synthesize,
              PlayoutDone
<1>4. CASE StreamFails(t) \/ SynthesizeFails(t) \/ PublishFails(t)
  BY <1>4 DEF StreamFails, SynthesizeFails, PublishFails, Fail
<1>5. CASE SkipSpeech(t)
  BY <1>5 DEF SkipSpeech, Spoken
<1>6. Clip(t) \in Clips
  BY DEF Clip, Clips
<1>7. CASE PublishReplyTrack(t)
  BY <1>6, <1>7 DEF PublishReplyTrack
<1>8. CASE Arm(t)
  BY <1>6, <1>8 DEF Arm
<1>9. CASE PlayoutStopped(t)
  BY <1>6, <1>9 DEF PlayoutStopped
<1>10. CASE ClearPlayed(t) \/ ClearInterrupted(t) \/ ClearFailed(t)
  <2>1. ClearIfCurrent(t) => /\ cancelled' \subseteq Clips
                             /\ armed' \in Clips \cup {NoClip}
                             /\ playing' \in BOOLEAN
    BY <1>6 DEF ClearIfCurrent
  <2>2. CASE ClearPlayed(t)
    BY <2>1, <2>2 DEF ClearPlayed, Spoken
  <2>3. CASE ClearInterrupted(t)
    BY <2>1, <2>3 DEF ClearInterrupted
  <2>4. CASE ClearFailed(t)
    BY <2>1, <2>4 DEF ClearFailed
  <2> QED BY <1>10, <2>2, <2>3, <2>4
<1> QED
  BY <1>1, <1>2, <1>3, <1>4, <1>5, <1>7, <1>8, <1>9, <1>10
  DEF Turn, PlayOgg

LEMMA StepType == TypeInv /\ [Next]_vars => TypeInv'
<1> SUFFICES ASSUME TypeInv, [Next]_vars PROVE TypeInv'
  OBVIOUS
<1> USE DEF playbackVars, clipVars, turnVars, inputVars, roomVars
<1>1. CASE BotStep
  BY <1>1
  DEF BotStep, Joined, Shutdown, Disconnect, TypeInv, TypeOK, SnapInv, Labels,
      TurnLabels, Held, Actors, Goto
<1>2. ASSUME NEW c \in Clips, WriteComplete(c) PROVE TypeInv'
  BY <1>2 DEF WriteComplete, TypeInv, TypeOK, SnapInv
<1>3. CASE UNCHANGED vars
  BY <1>3 DEF vars, TypeInv, TypeOK, SnapInv
<1> QED
  BY <1>1, <1>2, <1>3, TypeInterrupt, TypeReader, TypeTurn
  DEF Next, AllReturned

\* The types of the pipeline's state hold in every reachable state.
THEOREM TypeCorrect == Spec => []TypeOK
<1>1. Spec => []TypeInv
  BY InitType, StepType, PTL DEF Spec
<1>2. TypeInv => TypeOK
  BY DEF TypeInv
<1> QED BY <1>1, <1>2, PTL
-----------------------------------------------------------------------------
(* The turn mutex and the playback record.                                  *)

\* A final is in one reader's hands until its turn starts.
LEMMA StepHandling ==
  TypeInv /\ OwnerInv /\ HandlingInv /\ [Next]_vars => HandlingInv'
<1> SUFFICES ASSUME TypeInv, OwnerInv, HandlingInv, [Next]_vars
             PROVE  HandlingInv'
  OBVIOUS
<1> USE NamesAreDistinct
    DEF Actors, Goto, playbackVars, clipVars, turnVars, inputVars, roomVars,
        TypeInv, TypeOK, OwnerInv, HandlingInv, TurnLabels, Held
<1>1. ASSUME NEW a \in Actors, Interrupt(a) PROVE HandlingInv'
  BY <1>1 DEF Interrupt, InterruptSnapshot, InterruptCancel, InterruptClose,
              AfterInterrupt
<1>2. ASSUME NEW r \in Readers, Reader(r) PROVE HandlingInv'
  <2>1. CASE ReceiveFinal(r)
    BY <1>2, <2>1 DEF ReceiveFinal, Turns
  <2>2. CASE Dispatch(r)
    BY <1>2, <2>2 DEF Dispatch, Turns
  <2>3. CASE \/ ReceiveInterim(r) \/ CheckPlaying(r) \/ ReaderExits(r)
             \/ TrackEnds(r)
    BY <1>2, <2>3 DEF ReceiveInterim, CheckPlaying, ReaderExits, TrackEnds
  <2> QED BY <1>2, <2>1, <2>2, <2>3 DEF Reader
<1>3. ASSUME NEW t \in Turns, Turn(t), ~PlayOgg(t) PROVE HandlingInv'
  BY <1>3 DEF Turn, LockTurn, StreamSentence, SpeakRest, SpeakWhole, Speak,
              StreamEnds, NothingLeft, AfterStreamReturns, StreamFails,
              SynthesizeFails, Fail, Synthesize, SkipSpeech, Spoken,
              UnlockTurn
<1>4. ASSUME NEW t \in Turns, PlayOgg(t) PROVE HandlingInv'
  BY <1>4 DEF PlayOgg, PublishReplyTrack, PublishFails, Fail, Arm,
              PlayoutDone, PlayoutStopped, ClearPlayed, ClearInterrupted,
              ClearFailed, ClearIfCurrent, Spoken
<1>5. CASE BotStep
  BY <1>5 DEF BotStep, Joined, Shutdown, Disconnect
<1>6. ASSUME NEW c \in Clips, WriteComplete(c) PROVE HandlingInv'
  BY <1>6 DEF WriteComplete
<1>7. CASE UNCHANGED vars
  BY <1>7 DEF vars
<1> QED
  BY <1>1, <1>2, <1>3, <1>4, <1>5, <1>6, <1>7 DEF Next, AllReturned

\* Only the owner of turnMu is between lockTurn and unlockTurn.  Since nothing
\* is armed when a turn runs its own Interrupt(), it has no clip to stop.
LEMMA StepOwner ==
  TypeInv /\ OwnerInv /\ HandlingInv /\ ArmedInv /\ [Next]_vars => OwnerInv'
<1> SUFFICES ASSUME TypeInv /\ OwnerInv /\ HandlingInv /\ ArmedInv, [Next]_vars
             PROVE  OwnerInv'
  OBVIOUS
<1> USE NamesAreDistinct
    DEF Actors, Goto, playbackVars, clipVars, turnVars, inputVars, roomVars,
        TypeInv, TypeOK, SnapInv, OwnerInv, HandlingInv, ArmedInv, ArmedByOwner,
        TurnLabels, Held
<1>1. ASSUME NEW a \in Actors, Interrupt(a) PROVE OwnerInv'
  BY <1>1 DEF Interrupt, InterruptSnapshot, InterruptCancel, InterruptClose,
              AfterInterrupt
<1>2. ASSUME NEW r \in Readers, Reader(r) PROVE OwnerInv'
  BY <1>2 DEF Reader, ReceiveFinal, ReceiveInterim, CheckPlaying, Dispatch,
              ReaderExits, TrackEnds
<1>3. ASSUME NEW t \in Turns, Turn(t), ~PlayOgg(t) PROVE OwnerInv'
  BY <1>3 DEF Turn, LockTurn, StreamSentence, SpeakRest, SpeakWhole, Speak,
              StreamEnds, NothingLeft, AfterStreamReturns, StreamFails,
              SynthesizeFails, Fail, Synthesize, SkipSpeech, Spoken,
              UnlockTurn
<1>4. ASSUME NEW t \in Turns, PlayOgg(t) PROVE OwnerInv'
  BY <1>4 DEF PlayOgg, PublishReplyTrack, PublishFails, Fail, Arm,
              PlayoutDone, PlayoutStopped, ClearPlayed, ClearInterrupted,
              ClearFailed, ClearIfCurrent, Spoken
<1>5. CASE BotStep
  BY <1>5 DEF BotStep, Joined, Shutdown, Disconnect
<1>6. ASSUME NEW c \in Clips, WriteComplete(c) PROVE OwnerInv'
  BY <1>6 DEF WriteComplete
<1>7. CASE UNCHANGED vars
  BY <1>7 DEF vars
<1> QED
  BY <1>1, <1>2, <1>3, <1>4, <1>5, <1>6, <1>7 DEF Next, AllReturned

\* The armed clip is the waiting turn's.
LEMMA StepArmed ==
  TypeInv /\ OwnerInv /\ HandlingInv /\ ArmedInv /\ [Next]_vars => ArmedInv'
<1> SUFFICES ASSUME TypeInv /\ OwnerInv /\ HandlingInv /\ ArmedInv, [Next]_vars
             PROVE  ArmedInv'
  OBVIOUS
<1> USE NamesAreDistinct
    DEF Actors, Goto, playbackVars, clipVars, turnVars, inputVars, roomVars,
        TypeInv, TypeOK, OwnerInv, HandlingInv, ArmedInv, ArmedByOwner,
        TurnLabels, Held, Clip, Clips
<1>1. ASSUME NEW a \in Actors, Interrupt(a) PROVE ArmedInv'
  BY <1>1 DEF Interrupt, InterruptSnapshot, InterruptCancel, InterruptClose,
              AfterInterrupt
<1>2. ASSUME NEW r \in Readers, Reader(r) PROVE ArmedInv'
  BY <1>2 DEF Reader, ReceiveFinal, ReceiveInterim, CheckPlaying, Dispatch,
              ReaderExits, TrackEnds
<1>3. ASSUME NEW t \in Turns, Turn(t), ~PlayOgg(t) PROVE ArmedInv'
  BY <1>3 DEF Turn, LockTurn, StreamSentence, SpeakRest, SpeakWhole, Speak,
              StreamEnds, NothingLeft, AfterStreamReturns, StreamFails,
              SynthesizeFails, Fail, Synthesize, SkipSpeech, Spoken,
              UnlockTurn
<1>4. ASSUME NEW t \in Turns, PlayOgg(t) PROVE ArmedInv'
  BY <1>4 DEF PlayOgg, PublishReplyTrack, PublishFails, Fail, Arm,
              PlayoutDone, PlayoutStopped, ClearPlayed, ClearInterrupted,
              ClearFailed, ClearIfCurrent, Spoken
<1>5. CASE BotStep
  BY <1>5 DEF BotStep, Joined, Shutdown, Disconnect
<1>6. ASSUME NEW c \in Clips, WriteComplete(c) PROVE ArmedInv'
  BY <1>6 DEF WriteComplete
<1>7. CASE UNCHANGED vars
  BY <1>7 DEF vars
<1> QED
  BY <1>1, <1>2, <1>3, <1>4, <1>5, <1>6, <1>7 DEF Next, AllReturned
-----------------------------------------------------------------------------
(* Clips.                                                                   *)

\* Every clip that is named was published, the next one is fresh.
LEMMA StepClip ==
  TypeInv /\ OwnerInv /\ HandlingInv /\ ArmedInv /\ ClipInv /\ [Next]_vars
  => ClipInv'
<1> SUFFICES ASSUME TypeInv, OwnerInv, HandlingInv, ArmedInv, ClipInv,
                    [Next]_vars
             PROVE  ClipInv'
  OBVIOUS
<1> USE NamesAreDistinct
    DEF Actors, Goto, playbackVars, clipVars, turnVars, inputVars, roomVars,
        TypeInv, TypeOK, SnapInv, OwnerInv, HandlingInv, ArmedInv,
        ArmedByOwner, TurnLabels, Held, Clip, Clips, ClipInv, Uttered
<1>1. ASSUME NEW a \in Actors, Interrupt(a) PROVE ClipInv'
  BY <1>1 DEF Interrupt, InterruptSnapshot, InterruptCancel, InterruptClose,
              AfterInterrupt
<1>2. ASSUME NEW r \in Readers, Reader(r) PROVE ClipInv'
  BY <1>2 DEF Reader, ReceiveFinal, ReceiveInterim, CheckPlaying, Dispatch,
              ReaderExits, TrackEnds
<1>3. ASSUME NEW t \in Turns, Turn(t), ~PlayOgg(t) PROVE ClipInv'
  BY <1>3 DEF Turn, LockTurn, StreamSentence, SpeakRest, SpeakWhole, Speak,
              StreamEnds, NothingLeft, AfterStreamReturns, StreamFails,
              SynthesizeFails, Fail, Synthesize, SkipSpeech, Spoken,
              UnlockTurn
<1>4. ASSUME NEW t \in Turns, PlayOgg(t) PROVE ClipInv'
  BY <1>4 DEF PlayOgg, PublishReplyTrack, PublishFails, Fail, Arm,
              PlayoutDone, PlayoutStopped, ClearPlayed, ClearInterrupted,
              ClearFailed, ClearIfCurrent, Spoken
<1>5. CASE BotStep
  BY <1>5 DEF BotStep, Joined, Shutdown, Disconnect
<1>6. ASSUME NEW c \in Clips, WriteComplete(c) PROVE ClipInv'
  BY <1>6 DEF WriteComplete
<1>7. CASE UNCHANGED vars
  BY <1>7 DEF vars
<1> QED
  BY <1>1, <1>2, <1>3, <1>4, <1>5, <1>6, <1>7 DEF Next, AllReturned

\* A clip stopped by a barge-in is never published again.
LEMMA StepBarged ==
  TypeInv /\ OwnerInv /\ ArmedInv /\ ClipInv /\ BargedInv /\ [Next]_vars
  => BargedInv'
<1> SUFFICES ASSUME TypeInv, OwnerInv, ArmedInv, ClipInv, BargedInv,
                    [Next]_vars
             PROVE  BargedInv'
  OBVIOUS
<1> USE NamesAreDistinct
    DEF Actors, Goto, playbackVars, clipVars, turnVars, inputVars, roomVars,
        TypeInv, TypeOK, SnapInv, OwnerInv, ArmedInv,
        ArmedByOwner, TurnLabels, Held, Clip, Clips, ClipInv, Uttered,
        BargedInv
<1>1. ASSUME NEW a \in Actors, Interrupt(a) PROVE BargedInv'
  BY <1>1 DEF Interrupt, InterruptSnapshot, InterruptCancel, InterruptClose,
              AfterInterrupt
<1>2. ASSUME NEW r \in Readers, Reader(r) PROVE BargedInv'
  BY <1>2 DEF Reader, ReceiveFinal, ReceiveInterim, CheckPlaying, Dispatch,
              ReaderExits, TrackEnds
<1>3. ASSUME NEW t \in Turns, Turn(t), ~PlayOgg(t) PROVE BargedInv'
  BY <1>3 DEF Turn, LockTurn, StreamSentence, SpeakRest, SpeakWhole, Speak,
              StreamEnds, NothingLeft, AfterStreamReturns, StreamFails,
              SynthesizeFails, Fail, Synthesize, SkipSpeech, Spoken,
              UnlockTurn
<1>4. ASSUME NEW t \in Turns, PlayOgg(t) PROVE BargedInv'
  BY <1>4 DEF PlayOgg, PublishReplyTrack, PublishFails, Fail, Arm,
              PlayoutDone, PlayoutStopped, ClearPlayed, ClearInterrupted,
              ClearFailed, ClearIfCurrent, Spoken
<1>5. CASE BotStep
  BY <1>5 DEF BotStep, Joined, Shutdown, Disconnect
<1>6. ASSUME NEW c \in Clips, WriteComplete(c) PROVE BargedInv'
  BY <1>6 DEF WriteComplete
<1>7. CASE UNCHANGED vars
  BY <1>7 DEF vars
<1> QED
  BY <1>1, <1>2, <1>3, <1>4, <1>5, <1>6, <1>7 DEF Next, AllReturned

\* speakState.spoke keeps the fallback from repeating the reply.
LEMMA StepWhole ==
  TypeInv /\ OwnerInv /\ HandlingInv /\ ArmedInv /\ ClipInv /\ WholeInv
  /\ [Next]_vars
  => WholeInv'
<1> SUFFICES ASSUME TypeInv, OwnerInv, HandlingInv, ArmedInv, ClipInv, WholeInv,
                    [Next]_vars
             PROVE  WholeInv'
  OBVIOUS
<1> USE NamesAreDistinct
    DEF Actors, Goto, playbackVars, clipVars, turnVars, inputVars, roomVars,
        TypeInv, TypeOK, SnapInv, OwnerInv, HandlingInv, ArmedInv,
        ArmedByOwner, TurnLabels, Held, Clip, Clips, ClipInv, Uttered,
        WholeInv, Quiet
<1>1. ASSUME NEW a \in Actors, Interrupt(a) PROVE WholeInv'
  BY <1>1 DEF Interrupt, InterruptSnapshot, InterruptCancel, InterruptClose,
              AfterInterrupt
<1>2. ASSUME NEW r \in Readers, Reader(r) PROVE WholeInv'
  BY <1>2 DEF Reader, ReceiveFinal, ReceiveInterim, CheckPlaying, Dispatch,
              ReaderExits, TrackEnds
<1>3. ASSUME NEW t \in Turns, Turn(t), ~PlayOgg(t) PROVE WholeInv'
  BY <1>3 DEF Turn, LockTurn, StreamSentence, SpeakRest, SpeakWhole, Speak,
              StreamEnds, NothingLeft, AfterStreamReturns, StreamFails,
              SynthesizeFails, Fail, Synthesize, SkipSpeech, Spoken,
              UnlockTurn
<1>4. ASSUME NEW t \in Turns, PlayOgg(t) PROVE WholeInv'
  BY <1>4 DEF PlayOgg, PublishReplyTrack, PublishFails, Fail, Arm,
              PlayoutDone, PlayoutStopped, ClearPlayed, ClearInterrupted,
              ClearFailed, ClearIfCurrent, Spoken
<1>5. CASE BotStep
  BY <1>5 DEF BotStep, Joined, Shutdown, Disconnect
<1>6. ASSUME NEW c \in Clips, WriteComplete(c) PROVE WholeInv'
  BY <1>6 DEF WriteComplete
<1>7. CASE UNCHANGED vars
  BY <1>7 DEF vars
<1> QED
  BY <1>1, <1>2, <1>3, <1>4, <1>5, <1>6, <1>7 DEF Next, AllReturned

\* One clip at a time is heard.
LEMMA StepVoice ==
  TypeInv /\ OwnerInv /\ HandlingInv /\ ArmedInv /\ ClipInv /\ RoomInv
  /\ OneVoice /\ [Next]_vars
  => (RoomInv /\ OneVoice)'
<1> SUFFICES ASSUME TypeInv, OwnerInv, HandlingInv, ArmedInv, ClipInv,
                    RoomInv, OneVoice,
                    [Next]_vars
             PROVE  (RoomInv /\ OneVoice)'
  OBVIOUS
<1> USE NamesAreDistinct
    DEF Actors, Goto, playbackVars, clipVars, turnVars, inputVars, roomVars,
        TypeInv, TypeOK, SnapInv, OwnerInv, HandlingInv, ArmedInv,
        ArmedByOwner, TurnLabels, Held, Clip, Clips, ClipInv, Uttered,
        RoomInv, OneVoice, Audible
<1>1. ASSUME NEW a \in Actors, Interrupt(a) PROVE (RoomInv /\ OneVoice)'
  BY <1>1 DEF Interrupt, InterruptSnapshot, InterruptCancel, InterruptClose,
              AfterInterrupt
<1>2. ASSUME NEW r \in Readers, Reader(r) PROVE (RoomInv /\ OneVoice)'
  BY <1>2 DEF Reader, ReceiveFinal, ReceiveInterim, CheckPlaying, Dispatch,
              ReaderExits, TrackEnds
<1>3. ASSUME NEW t \in Turns, Turn(t), ~PlayOgg(t) PROVE (RoomInv /\ OneVoice)'
  BY <1>3 DEF Turn, LockTurn, StreamSentence, SpeakRest, SpeakWhole, Speak,
              StreamEnds, NothingLeft, AfterStreamReturns, StreamFails,
              SynthesizeFails, Fail, Synthesize, SkipSpeech, Spoken,
              UnlockTurn
<1>4. ASSUME NEW t \in Turns, PlayOgg(t) PROVE (RoomInv /\ OneVoice)'
  BY <1>4 DEF PlayOgg, PublishReplyTrack, PublishFails, Fail, Arm,
              PlayoutDone, PlayoutStopped, ClearPlayed, ClearInterrupted,
              ClearFailed, ClearIfCurrent, Spoken
<1>5. CASE BotStep
  BY <1>5 DEF BotStep, Joined, Shutdown, Disconnect
<1>6. ASSUME NEW c \in Clips, WriteComplete(c) PROVE (RoomInv /\ OneVoice)'
  BY <1>6 DEF WriteComplete
<1>7. CASE UNCHANGED vars
  BY <1>7 DEF vars
<1> QED
  BY <1>1, <1>2, <1>3, <1>4, <1>5, <1>6, <1>7 DEF Next, AllReturned

-----------------------------------------------------------------------------
(* The inductive invariant and what follows from it.                        *)

LEMMA InitInv == Init => Inv
<1> SUFFICES ASSUME Init PROVE Inv
  OBVIOUS
<1>1. TypeOK /\ SnapInv
  BY InitType DEF TypeInv
<1>2. OwnerInv
  BY NamesAreDistinct DEF Init, OwnerInv, TurnLabels, Held, Actors
<1>3. HandlingInv
  BY NamesAreDistinct DEF Init, HandlingInv, Actors
<1>4. ArmedInv
  BY NamesAreDistinct DEF Init, ArmedInv, ArmedByOwner, Actors
<1>5. ClipInv /\ BargedInv /\ WholeInv
  BY NamesAreDistinct
  DEF Init, ClipInv, BargedInv, WholeInv, Uttered, Quiet, Actors
<1>6. RoomInv /\ OneVoice
  BY DEF Init, RoomInv, OneVoice, Audible
<1> QED BY <1>1, <1>2, <1>3, <1>4, <1>5, <1>6 DEF Inv

\* The whole invariant holds in every reachable state.
THEOREM InvCorrect == Spec => []Inv
<1>1. Inv /\ [Next]_vars => Inv'
  BY StepType, StepHandling, StepOwner, StepArmed, StepClip, StepBarged,
     StepWhole, StepVoice
  DEF Inv, TypeInv
<1> QED BY InitInv, <1>1, PTL DEF Spec

\* The agent never talks over itself, in a room of any size.
THEOREM OneVoiceCorrect == Spec => []OneVoice
<1>1. Inv => OneVoice
  BY DEF Inv
<1> QED BY <1>1, InvCorrect, PTL

\* The playback record is the waiting turn's clip or empty.
THEOREM ArmedByOwnerCorrect == Spec => []ArmedByOwner
<1>1. Inv => ArmedByOwner
  BY DEF Inv, ArmedInv
<1> QED BY <1>1, InvCorrect, PTL

\* No turn's own Interrupt() ever stops a clip.
THEOREM TurnsCutNobodyCorrect == Spec => []TurnsCutNobody
<1>1. Inv => TurnsCutNobody
  BY DEF Inv, OwnerInv, TurnsCutNobody, TurnLabels, Held
<1> QED BY <1>1, InvCorrect, PTL

\* A clip stopped by a barge-in is never heard again.
THEOREM BargedInStaysSilentCorrect == Spec => []BargedInStaysSilent
<1>1. Inv => BargedInStaysSilent
  BY DEF Inv, BargedInv, BargedInStaysSilent, Audible
<1> QED BY <1>1, InvCorrect, PTL

\* The fallback never repeats a reply.
THEOREM WholeReplyOnlyIfSilentCorrect == Spec => []WholeReplyOnlyIfSilent
<1>1. Inv => WholeReplyOnlyIfSilent
  BY DEF Inv, WholeInv, WholeReplyOnlyIfSilent, Uttered
<1> QED BY <1>1, InvCorrect, PTL

-----------------------------------------------------------------------------
(* TurnPipeline implements SpeakerFloor.                                    *)

\* At most one clip is heard, so a step that only takes from what is heard is
\* a Hush or a stutter.
LEMMA HushOrStutter ==
  ASSUME Inv, Audible' \subseteq Audible, Uttered' = Uttered, turnMu' = turnMu
  PROVE  [Floor!Next]_(Floor!vars)
<1>1. \A c, d \in Audible : c = d
  BY DEF Inv, OneVoice
<1>2. Audible' = Audible \/ (Audible # {} /\ Audible' = {})
  BY <1>1
<1> QED
  BY <1>2 DEF Floor!Next, Floor!Hush, Floor!vars, Uttered

\* The actions that change who has the floor, what is heard or what was
\* uttered map to a step of SpeakerFloor; every other one stutters.
LEMMA StepFloor ==
  Inv /\ [Next]_vars => [Floor!Next]_(Floor!vars)
<1> SUFFICES ASSUME Inv, [Next]_vars
             PROVE  [Floor!Next]_(Floor!vars)
  OBVIOUS
<1> USE NamesAreDistinct
    DEF Actors, Goto, playbackVars, clipVars, turnVars, inputVars, roomVars
<1>1. ASSUME NEW a \in Actors, Interrupt(a)
      PROVE  [Floor!Next]_(Floor!vars)
  <2>1. Audible' \subseteq Audible /\ Uttered' = Uttered /\ turnMu' = turnMu
    BY <1>1 DEF Interrupt, InterruptSnapshot, InterruptCancel, InterruptClose,
                Inv, TypeOK, SnapInv, ClipInv, Uttered, Audible
  <2> QED BY <2>1, HushOrStutter
<1>2. ASSUME NEW t \in Turns, LockTurn(t)
      PROVE  Floor!Take(t)
  BY <1>2 DEF LockTurn, Inv, TypeOK, OneVoice, Clips, Audible, Floor!Take
<1>3. ASSUME NEW t \in Turns, UnlockTurn(t)
      PROVE  Floor!Yield
  BY <1>3 DEF UnlockTurn, Inv, TypeOK, OwnerInv, Held, OneVoice, Clips,
              Audible, Floor!Yield
<1>4. ASSUME NEW t \in Turns, PublishReplyTrack(t)
      PROVE  Floor!Say(t, sentence[t])
  <2>1. turnMu = t /\ Audible = {}
    BY <1>4 DEF PublishReplyTrack, Inv, TypeOK, OwnerInv, Held, OneVoice,
                Clips, Audible
  <2>2. \A c \in Uttered : c[1] = t => c[2] < sentence[t]
    BY <1>4 DEF PublishReplyTrack, Inv, ClipInv
  <2>3. Clip(t) \notin closed \cup complete
    BY <2>2 DEF Inv, TypeOK, ClipInv, Clip, Uttered
  <2>4. Audible' = {Clip(t)} /\ Uttered' = Uttered \cup {Clip(t)}
    BY <1>4, <2>1, <2>3 DEF PublishReplyTrack, Audible, Uttered
  <2> QED
    BY <1>4, <2>1, <2>2, <2>4
    DEF PublishReplyTrack, Clip, Uttered, Floor!Say
<1>5. ASSUME NEW t \in Turns, PlayOgg(t), ~PublishReplyTrack(t)
      PROVE  [Floor!Next]_(Floor!vars)
  <2>1. Audible' \subseteq Audible /\ Uttered' = Uttered /\ turnMu' = turnMu
    <3>1. CASE Arm(t)
      BY <3>1 DEF Arm, Inv, TypeOK, OwnerInv, Held, ArmedInv, ArmedByOwner,
                  Clips, Clip, Audible, Uttered
    <3>2. CASE PlayoutStopped(t)
      BY <3>2 DEF PlayoutStopped, Inv, ArmedInv, ClipInv, TypeOK, Clip, Clips,
                  Audible, Uttered
    <3>3. CASE \/ PublishFails(t) \/ PlayoutDone(t) \/ ClearPlayed(t)
               \/ ClearInterrupted(t) \/ ClearFailed(t)
      BY <3>3 DEF PublishFails, Fail, PlayoutDone, ClearPlayed,
                  ClearInterrupted, ClearFailed, Audible, Uttered
    <3> QED BY <1>5, <3>1, <3>2, <3>3 DEF PlayOgg
  <2> QED BY <2>1, HushOrStutter
<1>6. ASSUME NEW c \in Clips, WriteComplete(c)
      PROVE  [Floor!Next]_(Floor!vars)
  <2>1. Audible' \subseteq Audible /\ Uttered' = Uttered /\ turnMu' = turnMu
    BY <1>6 DEF WriteComplete, Audible, Uttered
  <2> QED BY <2>1, HushOrStutter
<1>7. CASE BotStep
  <2>1. Audible' \subseteq Audible /\ Uttered' = Uttered /\ turnMu' = turnMu
    BY <1>7 DEF BotStep, Joined, Shutdown, Disconnect, Inv, RoomInv, Audible,
                Uttered
  <2> QED BY <2>1, HushOrStutter
<1>8. ASSUME NEW r \in Readers, Reader(r)
      PROVE  UNCHANGED Floor!vars
  BY <1>8 DEF Reader, ReceiveFinal, ReceiveInterim, CheckPlaying, Dispatch,
              ReaderExits, TrackEnds, Audible, Floor!vars
<1>9. ASSUME NEW t \in Turns, Turn(t), ~PlayOgg(t), ~LockTurn(t),
             ~UnlockTurn(t)
      PROVE  UNCHANGED Floor!vars
  BY <1>9 DEF Turn, StreamSentence, SpeakRest, SpeakWhole, Speak, StreamEnds,
              NothingLeft, AfterStreamReturns, StreamFails, SynthesizeFails,
              Fail, Synthesize, SkipSpeech, Spoken, Audible, Floor!vars
<1>10. CASE UNCHANGED vars
  BY <1>10 DEF vars, Audible, Floor!vars
<1>11. ASSUME NEW t \in Turns, PublishReplyTrack(t)
       PROVE  sentence[t] \in 0..MaxSentences
  BY DEF Inv, TypeOK
<1> QED
  BY <1>1, <1>2, <1>3, <1>4, <1>5, <1>6, <1>7, <1>8, <1>9, <1>10, <1>11
  DEF Next, AllReturned, Turn, Floor!Next

\* The room's caller hears what SpeakerFloor allows and nothing else.
THEOREM ImplementsSpeakerFloor == Spec => OneSpeakerAtATime
<1>1. Init => Floor!Init
  BY DEF Init, Floor!Init, Audible
<1> QED
  BY <1>1, StepFloor, InvCorrect, PTL DEF Spec, OneSpeakerAtATime, Floor!Spec
=============================================================================

---------------------------- MODULE TurnPipeline ----------------------------
(***************************************************************************)
(* The reply pipeline of one LiveKit room in voice-gateway (roombot):      *)
(*                                                                         *)
(*   - one reader goroutine per subscribed microphone track, which checks  *)
(*     every transcript for barge-in and starts one goroutine per final    *)
(*     transcript (stt_pipe.go);                                           *)
(*   - one handleFinal goroutine per final, which takes the turn mutex,    *)
(*     streams the reply from the orchestrator and speaks it sentence by   *)
(*     sentence (turn.go);                                                 *)
(*   - the bot goroutine that joins the room and tears it down (bot.go);   *)
(*   - the playback state they share (reply_audio.go).                     *)
(*                                                                         *)
(* Each step is one critical section of replyPlayback.mu, one operation on *)
(* a context, a track or the room, or one call that blocks.  A clip is     *)
(* named <<turn, sentence>>: every sentence gets a fresh LiveKit track.    *)
(***************************************************************************)
EXTENDS Integers

CONSTANTS Readers,       \* microphone tracks, each with its reader goroutine
          NumTurns,      \* bound: final transcripts over the call
          MaxSentences,  \* bound: sentences of one reply
          MaxInterims,   \* bound: interim transcripts over the call
          Bot,           \* the goroutine of Bot.Join
          NoTurn, NoClip, NoReader

Turns == 1..NumTurns
Actors == Readers \cup Turns \cup {Bot}
Clips == Turns \X (0..MaxSentences)

ASSUME BoundsAreNat ==
  NumTurns \in Nat /\ MaxSentences \in Nat /\ MaxInterims \in Nat
ASSUME NamesAreDistinct ==
  /\ Readers \cap Turns = {}
  /\ Bot \notin Readers \cup Turns
  /\ NoTurn \notin Actors
  /\ NoClip \notin Clips
  /\ NoReader \notin Readers

VARIABLES
  pc,          \* pc[a]: where actor a is
  snap,        \* snap[a]: the clip a's running Interrupt() took a snapshot of
  turnMu,      \* owner of joinState.turnMu, or NoTurn
  armed,       \* replyPlayback.cancel/track/pub/room: the armed clip or NoClip
  playing,     \* replyPlayback.playing
  published,   \* clips with a publication in the room
  cancelled,   \* clips whose playCtx is cancelled
  closed,      \* clips whose LocalTrack is closed
  complete,    \* clips whose OnWriteComplete fired (the done channel is closed)
  sentence,    \* sentence[t]: number of the sentence t speaks or spoke last
  phase,       \* phase[t]: where t's speak() was called from
  spoke,       \* speakState.spoke
  handling,    \* handling[r]: the turn of the final r dispatches, or NoTurn
  by,          \* by[t]: the reader that received t's final, or NoReader
  nextTurn,    \* the next final transcript to be received
  interims,    \* interim transcripts received so far
  ctxDone,     \* readers whose track context is cancelled
  room,        \* joinState.room: "none", "connected", "left" (Disconnect)
  services,    \* the clients that are configured
  bargedIn     \* history: clips a reader's Interrupt() has finished stopping

playbackVars == <<armed, playing>>
clipVars == <<published, cancelled, closed, complete>>
turnVars == <<sentence, phase, spoke>>
inputVars == <<handling, by, nextTurn, interims>>
roomVars == <<ctxDone, room, services>>
vars == <<pc, snap, turnMu, playbackVars, clipVars, turnVars, inputVars,
          roomVars, bargedIn>>

Clip(t) == <<t, sentence[t]>>
Goto(a, label) == pc' = [pc EXCEPT ![a] = label]

\* The labels of a turn that holds turnMu, of all turns, and of all actors.
Held == {"snap", "stream", "rest", "whole", "synth", "publish", "arm", "wait",
         "clearOk", "clearCut", "clearErr", "unlock"}
TurnLabels == Held \cup {"idle", "lock", "done"}
Labels == TurnLabels \cup {"recv", "check", "cancel", "close", "dispatch",
                           "joining", "joined", "leaving"}

TypeOK ==
  /\ pc \in [Actors -> Labels]
  /\ snap \in [Actors -> Clips \cup {NoClip}]
  /\ turnMu \in Turns \cup {NoTurn}
  /\ armed \in Clips \cup {NoClip}
  /\ playing \in BOOLEAN
  /\ published \subseteq Clips
  /\ cancelled \subseteq Clips
  /\ closed \subseteq Clips
  /\ complete \subseteq Clips
  /\ sentence \in [Turns -> 0..MaxSentences]
  /\ phase \in [Turns -> {"start", "stream", "rest", "whole", "failed"}]
  /\ spoke \in [Turns -> BOOLEAN]
  /\ handling \in [Readers -> Turns \cup {NoTurn}]
  /\ by \in [Turns -> Readers \cup {NoReader}]
  /\ nextTurn \in 1..(NumTurns + 1)
  /\ interims \in 0..MaxInterims
  /\ ctxDone \subseteq Readers
  /\ room \in {"none", "connected", "left"}
  /\ services \subseteq {"orchestrator", "tts"}
  /\ bargedIn \subseteq Clips

Init ==
  /\ pc = [a \in Actors |-> IF a \in Readers THEN "recv"
                            ELSE IF a = Bot THEN "joining" ELSE "idle"]
  /\ snap = [a \in Actors |-> NoClip]
  /\ turnMu = NoTurn
  /\ armed = NoClip
  /\ playing = FALSE
  /\ published = {} /\ cancelled = {} /\ closed = {} /\ complete = {}
  /\ sentence = [t \in Turns |-> 0]
  /\ phase = [t \in Turns |-> "start"]
  /\ spoke = [t \in Turns |-> FALSE]
  /\ handling = [r \in Readers |-> NoTurn]
  /\ by = [t \in Turns |-> NoReader]
  /\ nextTurn = 1
  /\ interims = 0
  /\ ctxDone = {}
  /\ room = "none"
  /\ services \in SUBSET {"orchestrator", "tts"}
  /\ bargedIn = {}

-----------------------------------------------------------------------------
(* Mutated forms of definitions below: plausible bugs that the runs must    *)
(* notice.  No action of Next uses them.                                    *)

\* Interrupt() without its nil checks.
SnapshotUnchecked(a) ==
  /\ pc[a] = "snap"
  /\ snap' = [snap EXCEPT ![a] = armed]
  /\ Goto(a, "cancel")
  /\ UNCHANGED <<turnMu, playbackVars, clipVars, turnVars, inputVars, roomVars,
                 bargedIn>>

\* Interrupt() that leaves the publication in the room.
CloseWithoutUnpublish(a) ==
  /\ pc[a] = "close"
  /\ closed' = closed \cup {snap[a]}
  /\ bargedIn' = IF a \in Readers THEN bargedIn \cup {snap[a]} ELSE bargedIn
  /\ snap' = [snap EXCEPT ![a] = NoClip]
  /\ Goto(a, IF a \in Readers THEN "dispatch" ELSE "leaving")
  /\ UNCHANGED <<turnMu, playbackVars, published, cancelled, complete,
                 turnVars, inputVars, roomVars>>

\* handleFinal without the turn mutex.
LockTurnUnguarded(t) ==
  /\ pc[t] = "lock"
  /\ turnMu' = t
  /\ Goto(t, "snap")
  /\ UNCHANGED <<snap, playbackVars, clipVars, turnVars, inputVars, roomVars,
                 bargedIn>>

\* makeSpeaker that forgets to set spoke.
SpokenUnrecorded(t) ==
  /\ UNCHANGED spoke
  /\ Goto(t, IF phase[t] = "stream" THEN "stream" ELSE "whole")

\* arm that does not raise the playing flag.
ArmSilently(t) ==
  /\ pc[t] = "arm"
  /\ armed' = Clip(t)
  /\ Goto(t, "wait")
  /\ UNCHANGED <<snap, turnMu, playing, clipVars, turnVars, inputVars,
                 roomVars, bargedIn>>

\* waitPlayout that returns on the context without stopping the track.
StoppedButPlaying(t) ==
  /\ pc[t] = "wait"
  /\ Clip(t) \in cancelled \/ by[t] \in ctxDone
  /\ Goto(t, IF by[t] \in ctxDone THEN "clearErr" ELSE "clearCut")
  /\ UNCHANGED <<snap, turnMu, playbackVars, clipVars, turnVars, inputVars,
                 roomVars, bargedIn>>

\* clearIfCurrent that keeps the playing flag.
ClearKeepsPlaying(t) ==
  IF armed = Clip(t)
  THEN cancelled' = cancelled \cup {Clip(t)} /\ armed' = NoClip
       /\ UNCHANGED playing
  ELSE UNCHANGED <<cancelled, armed, playing>>

\* The deferred clear does not run when the clip was interrupted.
InterruptedUncleared(t) ==
  /\ pc[t] = "clearCut"
  /\ Goto(t, "unlock")
  /\ UNCHANGED <<snap, turnMu, playbackVars, clipVars, turnVars, inputVars,
                 roomVars, bargedIn>>

\* handleFinal returns on an interrupted clip without unlocking.
InterruptedUnreleased(t) ==
  /\ pc[t] = "clearCut"
  /\ armed' = NoClip /\ playing' = FALSE
  /\ Goto(t, "done")
  /\ UNCHANGED <<snap, turnMu, clipVars, turnVars, inputVars, roomVars,
                 bargedIn>>

-----------------------------------------------------------------------------
(* replyPlayback.Interrupt: a snapshot under the mutex, then, outside it,   *)
(* cancel(), track.Close() and UnpublishTrack.  Readers call it on          *)
(* barge-in, a turn when it starts and when it fails, the bot when it       *)
(* leaves; AfterInterrupt is where each of them continues.                  *)

AfterInterrupt(a) ==
  IF a \in Readers THEN "dispatch"
  ELSE IF a = Bot THEN "leaving"
  ELSE IF phase[a] = "start" THEN "stream" ELSE "unlock"

InterruptSnapshot(a) ==
  /\ pc[a] = "snap"
  /\ snap' = [snap EXCEPT ![a] = armed]
  /\ Goto(a, IF armed = NoClip THEN AfterInterrupt(a) ELSE "cancel")
  /\ UNCHANGED <<turnMu, playbackVars, clipVars, turnVars, inputVars, roomVars,
                 bargedIn>>

InterruptCancel(a) ==
  /\ pc[a] = "cancel"
  /\ cancelled' = cancelled \cup {snap[a]}
  /\ Goto(a, "close")
  /\ UNCHANGED <<snap, turnMu, playbackVars, published, closed, complete,
                 turnVars, inputVars, roomVars, bargedIn>>

InterruptClose(a) ==
  /\ pc[a] = "close"
  /\ closed' = closed \cup {snap[a]}
  /\ published' = published \ {snap[a]}
  /\ bargedIn' = IF a \in Readers THEN bargedIn \cup {snap[a]} ELSE bargedIn
  /\ snap' = [snap EXCEPT ![a] = NoClip]
  /\ Goto(a, AfterInterrupt(a))
  /\ UNCHANGED <<turnMu, playbackVars, cancelled, complete, turnVars,
                 inputVars, roomVars>>

-----------------------------------------------------------------------------
(* readTranscripts, dispatchTranscript and maybeBargeIn.                    *)

\* The select of readTranscripts takes a transcript from the stream: it may
\* still do so after its context is done.  The stream never emits blank text.
ReceiveFinal(r) ==
  /\ pc[r] = "recv"
  /\ nextTurn <= NumTurns
  /\ handling' = [handling EXCEPT ![r] = nextTurn]
  /\ by' = [by EXCEPT ![nextTurn] = r]
  /\ nextTurn' = nextTurn + 1
  /\ Goto(r, "check")
  /\ UNCHANGED <<snap, turnMu, playbackVars, clipVars, turnVars, interims,
                 roomVars, bargedIn>>

ReceiveInterim(r) ==
  /\ pc[r] = "recv"
  /\ interims < MaxInterims
  /\ interims' = interims + 1
  /\ Goto(r, "check")
  /\ UNCHANGED <<snap, turnMu, playbackVars, clipVars, turnVars, handling, by,
                 nextTurn, roomVars, bargedIn>>

\* maybeBargeIn reads Playing() under the mutex and acts on it outside.
CheckPlaying(r) ==
  /\ pc[r] = "check"
  /\ Goto(r, IF playing THEN "snap" ELSE "dispatch")
  /\ UNCHANGED <<snap, turnMu, playbackVars, clipVars, turnVars, inputVars,
                 roomVars, bargedIn>>

\* `go pipeline.handleFinal`: only for finals, only with an orchestrator.
Dispatch(r) ==
  /\ pc[r] = "dispatch"
  /\ pc' = [a \in Actors |->
              IF a = r THEN "recv"
              ELSE IF a = handling[r] /\ "orchestrator" \in services THEN "lock"
              ELSE pc[a]]
  /\ handling' = [handling EXCEPT ![r] = NoTurn]
  /\ UNCHANGED <<snap, turnMu, playbackVars, clipVars, turnVars, by, nextTurn,
                 interims, roomVars, bargedIn>>

\* The context is done, or the stream closed its transcript channel.
ReaderExits(r) ==
  /\ pc[r] = "recv"
  /\ Goto(r, "done")
  /\ UNCHANGED <<snap, turnMu, playbackVars, clipVars, turnVars, inputVars,
                 roomVars, bargedIn>>

-----------------------------------------------------------------------------
(* handleFinal: the turn, under turnMu.                                     *)

LockTurn(t) ==
  /\ pc[t] = "lock"
  /\ turnMu = NoTurn
  /\ turnMu' = t
  /\ Goto(t, "snap")
  /\ UNCHANGED <<snap, playbackVars, clipVars, turnVars, inputVars, roomVars,
                 bargedIn>>

\* speak(text) for a sentence, the flushed rest or the whole reply.
Speak(t, from) ==
  /\ sentence[t] < MaxSentences
  /\ sentence' = [sentence EXCEPT ![t] = @ + 1]
  /\ phase' = [phase EXCEPT ![t] = from]
  /\ Goto(t, "synth")
  /\ UNCHANGED <<snap, turnMu, playbackVars, clipVars, spoke, inputVars,
                 roomVars, bargedIn>>

\* onChunk: a chunk of the reply completes a sentence.
StreamSentence(t) == pc[t] = "stream" /\ Speak(t, "stream")

\* StreamTurn returns nil; the reply may also be empty or ignored.
StreamEnds(t) ==
  /\ pc[t] = "stream"
  /\ Goto(t, "rest")
  /\ UNCHANGED <<snap, turnMu, playbackVars, clipVars, turnVars, inputVars,
                 roomVars, bargedIn>>

\* Any other error than an interrupted clip: logged, then Interrupt().
Fail(t) ==
  /\ phase' = [phase EXCEPT ![t] = "failed"]
  /\ Goto(t, "snap")
  /\ UNCHANGED <<snap, turnMu, playbackVars, clipVars, sentence, spoke,
                 inputVars, roomVars, bargedIn>>

\* The orchestrator fails, the 60 s deadline passes or the context ends.
StreamFails(t) == pc[t] = "stream" /\ Fail(t)

\* afterStream: Flush() left something to say.
SpeakRest(t) == pc[t] = "rest" /\ Speak(t, "rest")

NothingLeft(t) ==
  /\ pc[t] = "rest"
  /\ Goto(t, "whole")
  /\ UNCHANGED <<snap, turnMu, playbackVars, clipVars, turnVars, inputVars,
                 roomVars, bargedIn>>

\* Nothing was spoken and the reply has text: speak it in one piece.
SpeakWhole(t) == pc[t] = "whole" /\ ~spoke[t] /\ Speak(t, "whole")

AfterStreamReturns(t) ==
  /\ pc[t] = "whole"
  /\ Goto(t, "unlock")
  /\ UNCHANGED <<snap, turnMu, playbackVars, clipVars, turnVars, inputVars,
                 roomVars, bargedIn>>

\* speak() returned nil: spoke is set and its caller goes on.
Spoken(t) ==
  /\ spoke' = [spoke EXCEPT ![t] = TRUE]
  /\ Goto(t, IF phase[t] = "stream" THEN "stream" ELSE "whole")

\* speakSentence: Synthesize blocks on the text-to-speech service.
Synthesize(t) ==
  /\ pc[t] = "synth"
  /\ "tts" \in services
  /\ Goto(t, "publish")
  /\ UNCHANGED <<snap, turnMu, playbackVars, clipVars, turnVars, inputVars,
                 roomVars, bargedIn>>

SynthesizeFails(t) == pc[t] = "synth" /\ "tts" \in services /\ Fail(t)

\* No text-to-speech client, or no room yet: counted as spoken.
SkipSpeech(t) ==
  /\ \/ pc[t] = "synth" /\ "tts" \notin services
     \/ pc[t] = "publish" /\ room = "none"
  /\ Spoken(t)
  /\ UNCHANGED <<snap, turnMu, playbackVars, clipVars, sentence, phase,
                 inputVars, roomVars, bargedIn>>

-----------------------------------------------------------------------------
(* PlayOgg: publish, arm, wait, clear.                                      *)

PublishReplyTrack(t) ==
  /\ pc[t] = "publish"
  /\ room = "connected"
  /\ published' = published \cup {Clip(t)}
  /\ Goto(t, "arm")
  /\ UNCHANGED <<snap, turnMu, playbackVars, cancelled, closed, complete,
                 turnVars, inputVars, roomVars, bargedIn>>

\* newOggTrack or PublishTrack fails; the track nobody else saw is closed.
PublishFails(t) == pc[t] = "publish" /\ room # "none" /\ Fail(t)

\* arm stops whatever is armed before it installs the new clip.
Arm(t) ==
  /\ pc[t] = "arm"
  /\ cancelled' = cancelled \cup ({armed} \ {NoClip})
  /\ closed' = closed \cup ({armed} \ {NoClip})
  /\ armed' = Clip(t)
  /\ playing' = TRUE
  /\ Goto(t, "wait")
  /\ UNCHANGED <<snap, turnMu, published, complete, turnVars, inputVars,
                 roomVars, bargedIn>>

\* waitPlayout takes the done branch: the clip is reported as played, and its
\* publication is left in the room.
PlayoutDone(t) ==
  /\ pc[t] = "wait"
  /\ Clip(t) \in complete
  /\ Goto(t, "clearOk")
  /\ UNCHANGED <<snap, turnMu, playbackVars, clipVars, turnVars, inputVars,
                 roomVars, bargedIn>>

\* waitPlayout takes the playCtx branch (select picks either when both are
\* ready): errReplyInterrupted, or ctx.Err() when the track's context is done.
PlayoutStopped(t) ==
  /\ pc[t] = "wait"
  /\ Clip(t) \in cancelled \/ by[t] \in ctxDone
  /\ closed' = closed \cup {Clip(t)}
  /\ published' = published \ {Clip(t)}
  /\ Goto(t, IF by[t] \in ctxDone THEN "clearErr" ELSE "clearCut")
  /\ UNCHANGED <<snap, turnMu, playbackVars, cancelled, complete, turnVars,
                 inputVars, roomVars, bargedIn>>

\* The deferred clearIfCurrent, which also cancels the clip's context.
ClearIfCurrent(t) ==
  IF armed = Clip(t)
  THEN /\ cancelled' = cancelled \cup {Clip(t)}
       /\ armed' = NoClip
       /\ playing' = FALSE
  ELSE UNCHANGED <<cancelled, armed, playing>>

\* PlayOgg returns nil: the next sentence may follow.
ClearPlayed(t) ==
  /\ pc[t] = "clearOk"
  /\ ClearIfCurrent(t)
  /\ Spoken(t)
  /\ UNCHANGED <<snap, turnMu, published, closed, complete, sentence, phase,
                 inputVars, roomVars, bargedIn>>

\* PlayOgg returns errReplyInterrupted: the turn ends without an Interrupt().
ClearInterrupted(t) ==
  /\ pc[t] = "clearCut"
  /\ ClearIfCurrent(t)
  /\ Goto(t, "unlock")
  /\ UNCHANGED <<snap, turnMu, published, closed, complete, turnVars,
                 inputVars, roomVars, bargedIn>>

\* PlayOgg returns ctx.Err(): the turn fails.
ClearFailed(t) ==
  /\ pc[t] = "clearErr"
  /\ ClearIfCurrent(t)
  /\ phase' = [phase EXCEPT ![t] = "failed"]
  /\ Goto(t, "snap")
  /\ UNCHANGED <<snap, turnMu, published, closed, complete, sentence, spoke,
                 inputVars, roomVars, bargedIn>>

UnlockTurn(t) ==
  /\ pc[t] = "unlock"
  /\ turnMu' = NoTurn
  /\ Goto(t, "done")
  /\ UNCHANGED <<snap, playbackVars, clipVars, turnVars, inputVars, roomVars,
                 bargedIn>>

-----------------------------------------------------------------------------
(* The bot and the room.                                                    *)

\* ConnectToRoomWithToken returned: callbacks may have run before this store.
Joined ==
  /\ pc[Bot] = "joining"
  /\ room' = "connected"
  /\ Goto(Bot, "joined")
  /\ UNCHANGED <<snap, turnMu, playbackVars, clipVars, turnVars, inputVars,
                 ctxDone, services, bargedIn>>

\* The root context ends, and with it the context of every track.
Shutdown ==
  /\ pc[Bot] = "joined"
  /\ ctxDone' = Readers
  /\ Goto(Bot, "snap")
  /\ UNCHANGED <<snap, turnMu, playbackVars, clipVars, turnVars, inputVars,
                 room, services, bargedIn>>

\* Join's deferred closeAll and room.Disconnect, after its Interrupt().
Disconnect ==
  /\ pc[Bot] = "leaving"
  /\ room' = "left"
  /\ Goto(Bot, "done")
  /\ UNCHANGED <<snap, turnMu, playbackVars, clipVars, turnVars, inputVars,
                 ctxDone, services, bargedIn>>

\* A participant mutes, unpublishes or leaves: audioTrack.close cancels.
TrackEnds(r) ==
  /\ r \notin ctxDone
  /\ ctxDone' = ctxDone \cup {r}
  /\ UNCHANGED <<pc, snap, turnMu, playbackVars, clipVars, turnVars, inputVars,
                 room, services, bargedIn>>

\* LiveKit's writer of a published track ends: the clip was played to its
\* end, or the track was closed.  Either way OnWriteComplete fires.
WriteComplete(c) ==
  /\ c \in published \cup closed
  /\ c \notin complete
  /\ complete' = complete \cup {c}
  /\ UNCHANGED <<pc, snap, turnMu, playbackVars, published, cancelled, closed,
                 turnVars, inputVars, roomVars, bargedIn>>

-----------------------------------------------------------------------------
Interrupt(a) ==
  InterruptSnapshot(a) \/ InterruptCancel(a) \/ InterruptClose(a)

Reader(r) ==
  \/ ReceiveFinal(r) \/ ReceiveInterim(r) \/ CheckPlaying(r) \/ Dispatch(r)
  \/ ReaderExits(r) \/ TrackEnds(r)

PlayOgg(t) ==
  \/ PublishReplyTrack(t) \/ PublishFails(t) \/ Arm(t) \/ PlayoutDone(t)
  \/ PlayoutStopped(t) \/ ClearPlayed(t) \/ ClearInterrupted(t)
  \/ ClearFailed(t)

Turn(t) ==
  \/ LockTurn(t) \/ StreamSentence(t) \/ StreamEnds(t) \/ StreamFails(t)
  \/ SpeakRest(t) \/ NothingLeft(t) \/ SpeakWhole(t) \/ AfterStreamReturns(t)
  \/ Synthesize(t) \/ SynthesizeFails(t) \/ SkipSpeech(t) \/ PlayOgg(t)
  \/ UnlockTurn(t)

BotStep == Joined \/ Shutdown \/ Disconnect

\* Everything that was started has returned.
AllReturned ==
  /\ \A r \in Readers : pc[r] = "done"
  /\ \A t \in Turns : pc[t] \in {"idle", "done"}
  /\ pc[Bot] = "done"
  /\ UNCHANGED vars

Next ==
  \/ \E a \in Actors : Interrupt(a)
  \/ \E r \in Readers : Reader(r)
  \/ \E t \in Turns : Turn(t)
  \/ BotStep
  \/ \E c \in Clips : WriteComplete(c)
  \/ AllReturned

Spec == Init /\ [][Next]_vars

\* A runnable goroutine runs on; a blocking call returns (StreamTurn has a
\* deadline, Synthesize and PublishTrack return); a published track's writer
\* ends.  Transcripts, leaving tracks and shutdown may never come.
Fairness ==
  /\ \A a \in Actors : WF_vars(Interrupt(a))
  /\ \A r \in Readers : WF_vars(CheckPlaying(r) \/ Dispatch(r))
  /\ \A t \in Turns : WF_vars(Turn(t))
  /\ WF_vars(Disconnect)
  /\ \A c \in Clips : WF_vars(WriteComplete(c))

FairSpec == Spec /\ Fairness

-----------------------------------------------------------------------------
(* Properties.                                                              *)

\* The clips the caller hears.
Audible ==
  IF room = "left" THEN {} ELSE published \ (closed \cup complete)

\* The agent never talks over itself: at most one clip is heard in the room,
\* it belongs to the turn that holds turnMu, and that turn is inside PlayOgg.
OneVoice ==
  \A c \in Audible :
    /\ turnMu = c[1]
    /\ c = Clip(c[1])
    /\ pc[c[1]] \in {"arm", "wait"}

\* The playback record is only ever the clip of the turn that waits for it:
\* an armed clip is never displaced by arm, nor left behind by a turn that
\* returned, and the flag barge-in relies on agrees with it.
ArmedByOwner ==
  /\ playing <=> armed # NoClip
  /\ armed # NoClip =>
       /\ turnMu = armed[1]
       /\ armed = Clip(armed[1])
       /\ pc[armed[1]] \in {"wait", "clearOk", "clearCut", "clearErr"}

\* The Interrupt() a turn runs when it starts and when it fails finds nothing
\* to stop, so a reply is cut by a caller or by leaving the room, never by
\* another turn: barge-in rests on maybeBargeIn alone.
TurnsCutNobody ==
  \A t \in Turns : snap[t] = NoClip /\ pc[t] \notin {"cancel", "close"}

\* A clip whose barge-in has returned is silent and withdrawn from the room
\* for good, whatever the waiting turn does meanwhile.
BargedInStaysSilent == bargedIn \cap (published \cup Audible) = {}

\* The fallback that speaks the whole reply never repeats what was said: no
\* clip of a turn is published before it.
WholeReplyOnlyIfSilent ==
  \A t \in Turns :
    phase[t] = "whole" /\ pc[t] \in {"arm", "wait"}
      => \A c \in published \cup closed : c[1] = t => c = Clip(t)

\* Every final that was dispatched to the orchestrator is handled and its
\* turn lets go of the mutex, whatever interrupts it.
EveryTurnReturns ==
  \A t \in Turns : pc[t] = "lock" ~> pc[t] = "done"

\* What the room promises its caller: TurnPipeline implements SpeakerFloor.
\* A clip that was published stays in published or, once stopped, in closed.
Floor == INSTANCE SpeakerFloor WITH
  Numbers <- 0..MaxSentences,
  floor <- turnMu,
  voice <- Audible,
  uttered <- published \cup closed

OneSpeakerAtATime == Floor!Spec

-----------------------------------------------------------------------------
(* The inductive invariant behind the properties (TurnPipelineProofs).      *)

\* An Interrupt() past its snapshot has a clip to stop.
SnapInv == \A a \in Actors : pc[a] \in {"cancel", "close"} => snap[a] # NoClip

\* A turn is between lockTurn and unlockTurn exactly when it owns turnMu; no
\* turn ever finds a clip in its own Interrupt().
OwnerInv ==
  /\ \A t \in Turns : pc[t] \in TurnLabels
  /\ \A t \in Turns : pc[t] \in Held <=> turnMu = t
  /\ \A t \in Turns : snap[t] = NoClip

\* A final waits in one reader only, and its turn has not started.
HandlingInv ==
  /\ \A r \in Readers : handling[r] # NoTurn =>
       /\ pc[handling[r]] = "idle"
       /\ by[handling[r]] = r
       /\ handling[r] < nextTurn
  /\ \A t \in Turns : t >= nextTurn => pc[t] = "idle"

\* The waiting turn's clip is the armed one.
ArmedInv ==
  /\ ArmedByOwner
  /\ \A t \in Turns :
       pc[t] \in {"wait", "clearOk", "clearCut", "clearErr"} => armed = Clip(t)

Uttered == published \cup closed

\* Everything that names a clip names one that was published, and the clip a
\* turn is about to publish is a fresh one.
ClipInv ==
  /\ complete \subseteq Uttered
  /\ armed # NoClip => armed \in Uttered
  /\ \A a \in Actors : snap[a] # NoClip => snap[a] \in Uttered
  /\ \A t \in Turns : pc[t] = "arm" => Clip(t) \in Uttered
  /\ \A c \in Uttered : c[2] <= sentence[c[1]]
  /\ \A c \in Uttered :
       pc[c[1]] \in {"synth", "publish"} => c[2] < sentence[c[1]]

\* The bot has not left a room it is still joining.
RoomInv == pc[Bot] = "joining" => room = "none"

\* A barge-in that returned has closed and withdrawn its clip.
BargedInv == bargedIn \subseteq closed /\ bargedIn \cap published = {}

Quiet(t) == \A c \in Uttered : c[1] # t

\* As long as spoke is unset on the way to the fallback, nothing was said.
WholeInv ==
  \A t \in Turns :
    /\ pc[t] \in {"synth", "publish"} => phase[t] # "start"
    /\ phase[t] = "start" => Quiet(t)
    /\ pc[t] \in {"stream", "rest", "whole"} /\ ~spoke[t] => Quiet(t)
    /\ phase[t] = "whole" /\ pc[t] \in {"synth", "publish"} => Quiet(t)
    /\ phase[t] = "whole" /\ pc[t] \in {"arm", "wait"}
         => \A c \in Uttered : c[1] = t => c = Clip(t)

Inv ==
  /\ TypeOK /\ SnapInv /\ OwnerInv /\ HandlingInv /\ ArmedInv /\ ClipInv
  /\ RoomInv /\ OneVoice /\ BargedInv /\ WholeInv

-----------------------------------------------------------------------------
(* What the documents say and the code does not do.                         *)

\* tts-phase4.md: "Speaking again during a reply logs `roombot: barge-in` and
\* stops agent audio".  Once a barge-in was carried out on a clip, no further
\* clip of the same reply is published.
BargeInEndsReply ==
  [][\A c \in bargedIn : \A d \in published' \ published : d[1] # c[1]]_vars

\* orchestrator-phase3.md: "Same session ID keeps multi-turn context (second
\* utterance references prior turn)".  The utterances of one microphone are
\* handed to the orchestrator in the order they were spoken.
UtterancesInOrder ==
  \A t, u \in Turns :
    t < u /\ by[t] = by[u] /\ by[u] # NoReader
      => (pc[u] \notin {"idle", "lock"} => pc[t] \notin {"idle", "lock"})
=============================================================================

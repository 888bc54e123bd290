--------------------------- MODULE DeepgramStream ---------------------------
(***************************************************************************)
(* One speech-to-text stream of voice-gateway, from its first sample to    *)
(* the last goroutine that returns: the Deepgram websocket                 *)
(* (stt/deepgram/deepgram.go), the sttPipe around it (roombot/stt_pipe.go) *)
(* and the audioTrack that closes both (roombot/track.go).                 *)
(*                                                                         *)
(*   Writer    the PCM decode loop, which calls sttPipe.write              *)
(*   Reader    stream.readLoop                                             *)
(*   Consumer  readTranscripts                                             *)
(*   Closer    audioTrack.close, from an unsubscribe or from closeAll      *)
(*                                                                         *)
(* Two mutual exclusions guard the stream, stream.once and stream.write,   *)
(* and a third, sttPipe.once, guards its closing by the pipe.  A sync.Once *)
(* makes every later caller wait until the first call has returned.        *)
(***************************************************************************)
EXTENDS Integers

CONSTANTS Cap,             \* capacity of the events channel (16 in the code)
          MaxTranscripts,  \* bound: transcripts Deepgram sends
          Free, Finished   \* a lock or Once nobody holds; a Once that ran

Writer == "writer"
Reader == "readLoop"
Consumer == "consumer"
Closer == "closer"
Actors == {Writer, Reader, Consumer, Closer}

ASSUME CapIsPositive == Cap \in Nat \ {0} /\ MaxTranscripts \in Nat
ASSUME NobodyIsAnActor ==
  Free \notin Actors /\ Finished \notin Actors /\ Free # Finished

VARIABLES
  pc,            \* pc[a]: where goroutine a is
  ctxDone,       \* the track's context is cancelled
  sinkClosed,    \* pcm.Sink.closed
  dead,          \* sttPipe.dead
  pipeOnce,      \* sttPipe.once: Free, the caller inside it, or Finished
  once,          \* stream.once
  write,         \* stream.write: Free or its owner
  done,          \* stream.done is closed
  eventsClosed,  \* stream.events is closed
  queued,        \* transcripts in stream.events
  accepted,      \* transcripts ever sent on stream.events
  delivered,     \* transcripts readTranscripts dispatched
  arrived,       \* transcripts Deepgram sent
  err,           \* stream.err # nil
  conn           \* "open", "ended" by Deepgram, "reset", or "closed" by us

onceVars == <<pipeOnce, once, write>>
trackVars == <<ctxDone, sinkClosed, dead>>
eventVars == <<queued, accepted, delivered, arrived>>
streamVars == <<done, eventsClosed, err, conn>>
vars == <<pc, trackVars, onceVars, eventVars, streamVars>>

Goto(a, label) == pc' = [pc EXCEPT ![a] = label]

\* The labels inside stream.Close, and the ones inside stream.once.
InOnce == {"closeLock", "goodbye", "closeDone", "closeEvents", "failDone",
           "failEvents"}
Labels == InOnce \cup {"idle", "decode", "lock", "check", "send", "fail",
                       "loop", "read", "recordErr", "setErr", "emit", "select",
                       "cancel", "sink", "pipeEnd", "close", "returned"}

TypeOK ==
  /\ pc \in [Actors -> Labels]
  /\ ctxDone \in BOOLEAN /\ sinkClosed \in BOOLEAN /\ dead \in BOOLEAN
  /\ pipeOnce \in Actors \cup {Free, Finished}
  /\ once \in Actors \cup {Free, Finished}
  /\ write \in Actors \cup {Free}
  /\ done \in BOOLEAN /\ eventsClosed \in BOOLEAN /\ err \in BOOLEAN
  /\ queued \in 0..Cap
  /\ accepted \in 0..MaxTranscripts
  /\ delivered \in 0..MaxTranscripts
  /\ arrived \in 0..MaxTranscripts
  /\ conn \in {"open", "ended", "reset", "closed"}

\* openSTTStream returned a pipe: its goroutines run, nobody closes yet.
Init ==
  /\ pc = [a \in Actors |-> IF a = Writer THEN "decode"
                            ELSE IF a = Reader THEN "loop"
                            ELSE IF a = Consumer THEN "select" ELSE "idle"]
  /\ ctxDone = FALSE /\ sinkClosed = FALSE /\ dead = FALSE
  /\ pipeOnce = Free /\ once = Free /\ write = Free
  /\ done = FALSE /\ eventsClosed = FALSE /\ err = FALSE
  /\ queued = 0 /\ accepted = 0 /\ delivered = 0 /\ arrived = 0
  /\ conn = "open"

-----------------------------------------------------------------------------
(* Mutated forms of definitions below: plausible bugs that the runs must    *)
(* notice.  No action of Next uses them.                                    *)

\* closeConn without the write mutex.
CloseUnlocked(a) ==
  /\ pc[a] = "closeLock"
  /\ Goto(a, "goodbye")
  /\ UNCHANGED <<trackVars, onceVars, eventVars, streamVars>>

\* closeConn without its deferred unlock.
CloseKeepsLock(a) ==
  /\ pc[a] = "closeEvents"
  /\ conn' = "closed"
  /\ eventsClosed' = TRUE
  /\ once' = Finished
  /\ pipeOnce' = IF pipeOnce = a THEN Finished ELSE pipeOnce
  /\ Goto(a, IF a = Writer THEN "decode" ELSE "returned")
  /\ UNCHANGED <<trackVars, write, eventVars, done, err>>

\* fail without the Once.
FailUnguarded ==
  /\ pc[Writer] = "fail"
  /\ once' = Writer
  /\ Goto(Writer, "failDone")
  /\ UNCHANGED <<trackVars, pipeOnce, write, eventVars, streamVars>>

\* fail that forgets to close the events channel.
FailKeepsEvents ==
  /\ pc[Writer] = "failEvents"
  /\ conn' = "closed"
  /\ once' = Finished
  /\ write' = Free
  /\ Goto(Writer, "pipeEnd")
  /\ UNCHANGED <<trackVars, pipeOnce, eventVars, done, err, eventsClosed>>

\* readTranscripts that takes a closed channel's zero value for a transcript.
ConsumeUnchecked ==
  /\ pc[Consumer] = "select"
  /\ queued > 0 \/ eventsClosed
  /\ queued' = queued - 1
  /\ delivered' = delivered + 1
  /\ UNCHANGED <<pc, trackVars, onceVars, accepted, arrived, streamVars>>

\* readTranscripts that stops as soon as the stream is done.
StopsWhenDone ==
  /\ pc[Consumer] = "select"
  /\ done
  /\ Goto(Consumer, "pipeEnd")
  /\ UNCHANGED <<trackVars, onceVars, eventVars, streamVars>>

-----------------------------------------------------------------------------
(* stream.Close and the sttPipe calls that lead to it.                      *)

\* Where a goroutine goes on after its stream.Close().
AfterClose(a) == IF a = Writer THEN "decode" ELSE "returned"

\* sttPipe.end and closeQuietly: once.Do marks the pipe dead and closes.
PipeEnd(a) ==
  /\ pc[a] = "pipeEnd"
  /\ pipeOnce \in {Free, Finished}
  /\ pipeOnce' = IF pipeOnce = Free THEN a ELSE Finished
  /\ dead' = TRUE
  /\ Goto(a, IF pipeOnce = Free THEN "close" ELSE AfterClose(a))
  /\ UNCHANGED <<ctxDone, sinkClosed, once, write, eventVars, streamVars>>

\* A Close() that runs inside sttPipe.once ends that Once when it returns.
ReturnFromClose(a) ==
  /\ pipeOnce' = IF pipeOnce = a THEN Finished ELSE pipeOnce
  /\ Goto(a, AfterClose(a))

\* stream.Close: once.Do(closeConn), which waits while another call runs.
CloseEnter(a) ==
  /\ pc[a] = "close"
  /\ once = Free
  /\ once' = a
  /\ Goto(a, "closeLock")
  /\ UNCHANGED <<trackVars, pipeOnce, write, eventVars, streamVars>>

CloseAgain(a) ==
  /\ pc[a] = "close"
  /\ once = Finished
  /\ ReturnFromClose(a)
  /\ UNCHANGED <<trackVars, once, write, eventVars, streamVars>>

\* closeConn takes the write mutex inside the Once.
CloseLock(a) ==
  /\ pc[a] = "closeLock"
  /\ write = Free
  /\ write' = a
  /\ Goto(a, "goodbye")
  /\ UNCHANGED <<trackVars, pipeOnce, once, eventVars, streamVars>>

\* The CloseStream message and the close frame; their errors are ignored.
Goodbye(a) ==
  /\ pc[a] = "goodbye"
  /\ Goto(a, "closeDone")
  /\ UNCHANGED <<trackVars, onceVars, eventVars, streamVars>>

CloseDone(a) ==
  /\ pc[a] = "closeDone"
  /\ done' = TRUE
  /\ Goto(a, "closeEvents")
  /\ UNCHANGED <<trackVars, onceVars, eventVars, eventsClosed, err, conn>>

CloseEvents(a) ==
  /\ pc[a] = "closeEvents"
  /\ conn' = "closed"
  /\ eventsClosed' = TRUE
  /\ write' = Free
  /\ once' = Finished
  /\ ReturnFromClose(a)
  /\ UNCHANGED <<trackVars, eventVars, done, err>>

-----------------------------------------------------------------------------
(* The writer: runDecodeLoop, Sink.WriteSample, sttPipe.write and WritePCM. *)

\* A decoded sample passes the sink and the pipe, which drop it when closed.
DecodeSample ==
  /\ pc[Writer] = "decode"
  /\ ~sinkClosed /\ ~dead
  /\ Goto(Writer, "lock")
  /\ UNCHANGED <<trackVars, onceVars, eventVars, streamVars>>

\* The track ends, or the loop sees its context cancelled.
DecodeEnds ==
  /\ pc[Writer] = "decode"
  /\ Goto(Writer, "returned")
  /\ UNCHANGED <<trackVars, onceVars, eventVars, streamVars>>

WriteLock ==
  /\ pc[Writer] = "lock"
  /\ write = Free
  /\ write' = Writer
  /\ Goto(Writer, "check")
  /\ UNCHANGED <<trackVars, pipeOnce, once, eventVars, streamVars>>

\* closedErr: after a clean close s.err is nil and the write is attempted.
CheckClosed ==
  /\ pc[Writer] = "check"
  /\ IF done /\ err
     THEN write' = Free /\ Goto(Writer, "pipeEnd")
     ELSE UNCHANGED write /\ Goto(Writer, "send")
  /\ UNCHANGED <<trackVars, pipeOnce, once, eventVars, streamVars>>

SendSucceeds ==
  /\ pc[Writer] = "send"
  /\ conn # "closed"
  /\ write' = Free
  /\ Goto(Writer, "decode")
  /\ UNCHANGED <<trackVars, pipeOnce, once, eventVars, streamVars>>

\* A broken or ended connection refuses the message at once or later.
SendFails ==
  /\ pc[Writer] = "send"
  /\ conn # "open"
  /\ Goto(Writer, "fail")
  /\ UNCHANGED <<trackVars, onceVars, eventVars, streamVars>>

\* fail: once.Do while WritePCM still holds the write mutex.
FailEnter ==
  /\ pc[Writer] = "fail"
  /\ once = Free
  /\ once' = Writer
  /\ Goto(Writer, "failDone")
  /\ UNCHANGED <<trackVars, pipeOnce, write, eventVars, streamVars>>

FailAgain ==
  /\ pc[Writer] = "fail"
  /\ once = Finished
  /\ write' = Free
  /\ Goto(Writer, "pipeEnd")
  /\ UNCHANGED <<trackVars, pipeOnce, once, eventVars, streamVars>>

FailDone ==
  /\ pc[Writer] = "failDone"
  /\ err' = TRUE
  /\ done' = TRUE
  /\ Goto(Writer, "failEvents")
  /\ UNCHANGED <<trackVars, onceVars, eventVars, eventsClosed, conn>>

FailEvents ==
  /\ pc[Writer] = "failEvents"
  /\ conn' = "closed"
  /\ eventsClosed' = TRUE
  /\ once' = Finished
  /\ write' = Free
  /\ Goto(Writer, "pipeEnd")
  /\ UNCHANGED <<trackVars, pipeOnce, eventVars, done, err>>

-----------------------------------------------------------------------------
(* readLoop.                                                                *)

\* ctx.Err() at the top of the loop; a ReadMessage that blocks does not see
\* the context.  The deferred Close runs when the loop returns.
CheckContext ==
  /\ pc[Reader] = "loop"
  /\ Goto(Reader, IF ctxDone THEN "close" ELSE "read")
  /\ UNCHANGED <<trackVars, onceVars, eventVars, streamVars>>

\* ReadMessage returns something else than a result with text.
ReadOther ==
  /\ pc[Reader] = "read"
  /\ conn # "closed"
  /\ Goto(Reader, "loop")
  /\ UNCHANGED <<trackVars, onceVars, eventVars, streamVars>>

ReadTranscript ==
  /\ pc[Reader] = "read"
  /\ conn # "closed"
  /\ arrived < MaxTranscripts
  /\ arrived' = arrived + 1
  /\ Goto(Reader, IF done THEN "close" ELSE "emit")
  /\ UNCHANGED <<trackVars, onceVars, queued, accepted, delivered, streamVars>>

ReadFails ==
  /\ pc[Reader] = "read"
  /\ conn # "open"
  /\ Goto(Reader, "recordErr")
  /\ UNCHANGED <<trackVars, onceVars, eventVars, streamVars>>

\* recordReadErr looks at done, then writes s.err without a lock.
RecordReadErr ==
  /\ pc[Reader] = "recordErr"
  /\ Goto(Reader, IF done \/ conn = "ended" THEN "close" ELSE "setErr")
  /\ UNCHANGED <<trackVars, onceVars, eventVars, streamVars>>

SetReadErr ==
  /\ pc[Reader] = "setErr"
  /\ err' = TRUE
  /\ Goto(Reader, "close")
  /\ UNCHANGED <<trackVars, onceVars, eventVars, done, eventsClosed, conn>>

\* emit's select: a send on a closed channel panics and is recovered, which
\* ends the loop as the done case does.
EmitSends ==
  /\ pc[Reader] = "emit"
  /\ ~eventsClosed /\ queued < Cap
  /\ queued' = queued + 1
  /\ accepted' = accepted + 1
  /\ Goto(Reader, "loop")
  /\ UNCHANGED <<trackVars, onceVars, delivered, arrived, streamVars>>

EmitStops ==
  /\ pc[Reader] = "emit"
  /\ done
  /\ Goto(Reader, "close")
  /\ UNCHANGED <<trackVars, onceVars, eventVars, streamVars>>

-----------------------------------------------------------------------------
(* readTranscripts, audioTrack.close and the network.                       *)

ConsumeTranscript ==
  /\ pc[Consumer] = "select"
  /\ queued > 0
  /\ queued' = queued - 1
  /\ delivered' = delivered + 1
  /\ UNCHANGED <<pc, trackVars, onceVars, accepted, arrived, streamVars>>

ConsumerSeesContext ==
  /\ pc[Consumer] = "select"
  /\ ctxDone
  /\ Goto(Consumer, "returned")
  /\ UNCHANGED <<trackVars, onceVars, eventVars, streamVars>>

ConsumerSeesClosed ==
  /\ pc[Consumer] = "select"
  /\ eventsClosed /\ queued = 0
  /\ Goto(Consumer, "pipeEnd")
  /\ UNCHANGED <<trackVars, onceVars, eventVars, streamVars>>

\* The root context ends before closeAll reaches this track.
RootCancelled ==
  /\ ~ctxDone
  /\ ctxDone' = TRUE
  /\ UNCHANGED <<pc, sinkClosed, dead, onceVars, eventVars, streamVars>>

\* The microphone is unsubscribed, or the bot leaves: audioTrack.close.
TrackCloseBegins ==
  /\ pc[Closer] = "idle"
  /\ ctxDone' = TRUE
  /\ Goto(Closer, "sink")
  /\ UNCHANGED <<sinkClosed, dead, onceVars, eventVars, streamVars>>

TrackCloseSink ==
  /\ pc[Closer] = "sink"
  /\ sinkClosed' = TRUE
  /\ Goto(Closer, "pipeEnd")
  /\ UNCHANGED <<ctxDone, dead, onceVars, eventVars, streamVars>>

\* Deepgram ends the stream, or the network drops it.
ConnectionLost ==
  /\ conn = "open"
  /\ conn' \in {"ended", "reset"}
  /\ UNCHANGED <<pc, trackVars, onceVars, eventVars, done, eventsClosed, err>>

-----------------------------------------------------------------------------
Close(a) ==
  \/ PipeEnd(a) \/ CloseEnter(a) \/ CloseAgain(a) \/ CloseLock(a)
  \/ Goodbye(a) \/ CloseDone(a) \/ CloseEvents(a)

WritePCM ==
  \/ WriteLock \/ CheckClosed \/ SendSucceeds \/ SendFails \/ FailEnter
  \/ FailAgain \/ FailDone \/ FailEvents

ReadLoop ==
  \/ CheckContext \/ ReadFails \/ RecordReadErr \/ SetReadErr
  \/ EmitSends \/ EmitStops

Consume == ConsumeTranscript \/ ConsumerSeesContext \/ ConsumerSeesClosed

AllReturned ==
  /\ \A a \in Actors : pc[a] = "returned"
  /\ UNCHANGED vars

Next ==
  \/ \E a \in Actors : Close(a)
  \/ DecodeSample \/ DecodeEnds \/ WritePCM
  \/ ReadLoop \/ ReadTranscript \/ ReadOther
  \/ Consume
  \/ RootCancelled \/ TrackCloseBegins \/ TrackCloseSink
  \/ ConnectionLost
  \/ AllReturned

Spec == Init /\ [][Next]_vars

\* Goroutines that can run do; a message on the wire is written or refused.
\* The decode loop ends once its context is cancelled (the remote track has
\* ended then).  Samples, transcripts, cancellation and loss may never come.
Fairness ==
  /\ \A a \in Actors : WF_vars(Close(a))
  /\ WF_vars(WritePCM)
  /\ WF_vars(ReadLoop)
  /\ WF_vars(Consume)
  /\ WF_vars(TrackCloseSink)
  /\ WF_vars(ctxDone /\ DecodeEnds)

FairSpec == Spec /\ Fairness

-----------------------------------------------------------------------------
(* Properties.                                                              *)

\* gorilla/websocket allows one concurrent writer: a sample and the goodbye
\* of closeConn are never written at the same time.
OneConnWriter ==
  \A a, b \in Actors :
    pc[a] \in {"send", "goodbye"} /\ pc[b] \in {"send", "goodbye"} => a = b

\* close(done) and close(events) run once; a second close of either would
\* panic outside emit's recover and take the gateway down.
NoDoubleClose ==
  \A a \in Actors :
    /\ pc[a] \in {"closeDone", "failDone"} => ~done
    /\ pc[a] \in {"closeEvents", "failEvents"} => ~eventsClosed

\* A consumer that was not cancelled leaves no transcript in the channel: it
\* dispatched every one the reader put there before the stream closed.
NothingLeftBehind ==
  /\ accepted = queued + delivered
  /\ pc[Consumer] \in {"pipeEnd", "close", "closeLock", "goodbye", "closeDone",
                       "closeEvents"}
       => queued = 0 /\ eventsClosed

\* Somebody closes the stream and waits for the write mutex inside the Once,
\* while the writer holds that mutex and waits for the Once.
LockCycle ==
  /\ once \in Actors \ {Writer} /\ pc[once] = "closeLock"
  /\ write = Writer /\ pc[Writer] = "fail"

\* Where a goroutine waits for another: for the write mutex, for stream.once,
\* for sttPipe.once.
Waits(a) ==
  \/ pc[a] \in {"lock", "closeLock"} /\ write # Free
  \/ pc[a] \in {"close", "fail"} /\ once \in Actors
  \/ pc[a] = "pipeEnd" /\ pipeOnce \in Actors

\* Where a goroutine may hold a lock: each has a step to take unless it waits.
Holding == InOnce \cup {"check", "send", "fail", "close"}

\* There is no other cycle: as long as that one is open, of the goroutines
\* that hold a lock others wait for, one goes on.
NoOtherCycle ==
  ~LockCycle /\ (\E a \in Actors : Waits(a))
    => \E b \in {write, once, pipeOnce} \cap Actors :
         pc[b] \in Holding /\ ~Waits(b)

\* Once closed, the cycle never opens: the stream's goroutines are lost.
CycleIsForever == [][LockCycle => LockCycle']_vars

\* The only thing that can keep the goroutines of a closed track alive is
\* that cycle: otherwise the writer, the reader, the consumer and the closer
\* all return, whatever the network does.
WindsDownOrCycle ==
  (pc[Closer] # "idle") ~> (LockCycle \/ \A a \in Actors : pc[a] = "returned")

\* However the stream dies (failed write, failed read, ended by Deepgram),
\* the consumer learns of it even if nobody closes the track.
DeathIsNoticedOrCycle ==
  (dead \/ done) ~> (LockCycle \/ pc[Consumer] = "returned")

-----------------------------------------------------------------------------
(* The inductive invariant behind the safety properties.                    *)

\* The write mutex: closeConn and WritePCM hold it where they say they do.
WriteInv ==
  /\ \A a \in Actors :
       pc[a] \in {"goodbye", "closeDone", "closeEvents"} => write = a
  /\ pc[Writer] \in {"check", "send", "fail", "failDone", "failEvents"}
       => write = Writer
  /\ \A a \in Actors \ {Writer} :
       pc[a] \notin {"lock", "check", "send", "fail", "failDone", "failEvents"}

\* The converse: who holds the write mutex or sttPipe.once is on the way to
\* giving it back.
HolderInv ==
  /\ write \in Actors =>
       \/ pc[write] \in {"goodbye", "closeDone", "closeEvents"}
       \/ write = Writer /\ pc[Writer] \in {"check", "send", "fail", "failDone",
                                            "failEvents"}
  /\ pipeOnce \in Actors =>
       pc[pipeOnce] \in {"close", "closeLock", "goodbye", "closeDone",
                         "closeEvents"}

\* stream.once: one caller inside, and the channels closed exactly as far as
\* that caller has come.
OnceInv ==
  /\ \A a \in Actors : pc[a] \in InOnce <=> once = a
  /\ done <=> \/ once = Finished
              \/ once \in Actors /\ pc[once] \in {"closeEvents", "failEvents"}
  /\ eventsClosed <=> once = Finished

\* Transcripts are sent, queued and delivered in turn.
QueueInv ==
  /\ NothingLeftBehind
  /\ accepted <= arrived
  /\ pc[Reader] = "emit" => accepted < arrived

Inv == TypeOK /\ WriteInv /\ HolderInv /\ OnceInv /\ QueueInv

-----------------------------------------------------------------------------
(* What the documents say and the code does not do.                         *)

\* stt-phase2.md: "Disconnect browser: no panic; `pcm: stopped` / track close
\* logs" and "Ctrl+C gateway: clean shutdown".  Closing a track returns.
TrackCloseReturns == pc[Closer] = "sink" ~> pc[Closer] = "returned"
=============================================================================

----------------------------- MODULE GatewayRoom -----------------------------
(***************************************************************************)
(* The life of a room in the voice-gateway process: the session that       *)
(* starts the bot (session), the bot that joins and leaves (roombot/bot),  *)
(* the audio pipelines of the tracks it subscribes to (roombot/track), and *)
(* the process that ends (cmd/voice-gateway).                              *)
(*                                                                         *)
(* A subscription is one OnTrackSubscribed callback with the pipeline it   *)
(* builds; a track that is unsubscribed and subscribed again keeps its id. *)
(* LiveKit runs the callbacks of a track and of its end on different       *)
(* goroutines: when an id is subscribed again, the callback of its last    *)
(* end may still be running.                                               *)
(***************************************************************************)
EXTENDS Naturals

CONSTANTS NumSubs,  \* bound: subscriptions over the life of the room
          Ids,      \* track ids
          TrackOf,  \* TrackOf[s]: the track of subscription s
          NoSub

Subs == 1..NumSubs

ASSUME NumSubsIsNat == NumSubs \in Nat
ASSUME SubsAreOfTracks == TrackOf \in [Subs -> Ids]
ASSUME NoSubIsNone == NoSub \notin Subs

VARIABLES
  proc,        \* "serving", "draining" (rootCtx is cancelled), or "exited"
  join,        \* where the goroutine of Bot.Join is
  start,       \* start[s]: where startAudioTrack is
  pipe,        \* pipe[s]: trackCtx, which the decode loop and the turns watch
  stream,      \* stream[s]: its speech-to-text stream
  entries,     \* trackSet.entries
  subscribed,  \* subscriptions LiveKit did not end yet
  stop,        \* stop[s]: where stopAudioTrack is for the end of s
  target,      \* target[s]: the pipeline that stopAudioTrack closes
  leaving,     \* the pipelines that closeAll took and did not close yet
  displaced,   \* history: pipelines whose entry another add() replaced
  late,        \* history: pipelines added after remove() looked for them
  mistaken,    \* history: pipelines that the end of another subscription took
  orphaned     \* history: pipelines in a map that no closeAll will take

procVars == <<proc, join>>
pipeVars == <<pipe, stream>>
endVars == <<subscribed, stop, target>>
histVars == <<displaced, late, mistaken, orphaned>>
vars == <<procVars, start, pipeVars, entries, endVars, leaving, histVars>>

Entry(s) == entries[TrackOf[s]]
Registered == {entries[i] : i \in Ids} \ {NoSub}

TypeOK ==
  /\ proc \in {"serving", "draining", "exited"}
  /\ join \in {"none", "connecting", "joined", "closing", "returned"}
  /\ start \in [Subs -> {"none", "opening", "starting", "adding", "added",
                         "aborted"}]
  /\ pipe \in [Subs -> {"none", "live", "cancelled"}]
  /\ stream \in [Subs -> {"none", "open", "closed"}]
  /\ entries \in [Ids -> Subs \cup {NoSub}]
  /\ subscribed \subseteq Subs
  /\ stop \in [Subs -> {"none", "called", "closing", "done"}]
  /\ target \in [Subs -> Subs \cup {NoSub}]
  /\ leaving \subseteq Subs
  /\ displaced \subseteq Subs /\ late \subseteq Subs
  /\ mistaken \subseteq Subs /\ orphaned \subseteq Subs

Init ==
  /\ proc = "serving" /\ join = "none"
  /\ start = [s \in Subs |-> "none"]
  /\ pipe = [s \in Subs |-> "none"]
  /\ stream = [s \in Subs |-> "none"]
  /\ entries = [i \in Ids |-> NoSub]
  /\ subscribed = {}
  /\ stop = [s \in Subs |-> "none"]
  /\ target = [s \in Subs |-> NoSub]
  /\ leaving = {}
  /\ displaced = {} /\ late = {} /\ mistaken = {} /\ orphaned = {}

\* audioTrack.close and abortAudioTrack: the context, and the stream if any.
ClosePipeline(s) ==
  /\ pipe' = [pipe EXCEPT ![s] = "cancelled"]
  /\ stream' = [stream EXCEPT ![s] = IF @ = "none" THEN @ ELSE "closed"]

-----------------------------------------------------------------------------
(* Mutated forms of definitions below: plausible bugs that the runs must    *)
(* notice.  No action of Next uses them.                                    *)

\* remove without the delete.
RemoveKeepsEntry(s) ==
  /\ stop[s] = "called"
  /\ target' = [target EXCEPT ![s] = Entry(s)]
  /\ stop' = [stop EXCEPT ![s] =
                IF Entry(s) = NoSub THEN "done" ELSE "closing"]
  /\ UNCHANGED <<procVars, start, pipeVars, entries, subscribed, leaving,
                 histVars>>

\* remove that deletes the entry and does not close its pipeline.
RemoveOnlyDeletes(s) ==
  /\ stop[s] = "called"
  /\ entries' = [entries EXCEPT ![TrackOf[s]] = NoSub]
  /\ stop' = [stop EXCEPT ![s] = "done"]
  /\ UNCHANGED <<procVars, start, pipeVars, subscribed, target, leaving,
                 histVars>>

\* closeAll that goes over the map without replacing it.
LeaveKeepsEntries ==
  /\ join = "joined" /\ proc = "draining"
  /\ leaving' = Registered
  /\ join' = "closing"
  /\ UNCHANGED <<proc, start, pipeVars, entries, endVars, histVars>>

\* closeAll that also closes what is not there.
LeaveTakesNil ==
  /\ join = "joined" /\ proc = "draining"
  /\ leaving' = {entries[i] : i \in Ids}
  /\ entries' = [i \in Ids |-> NoSub]
  /\ join' = "closing"
  /\ UNCHANGED <<proc, start, pipeVars, endVars, histVars>>

\* abortAudioTrack that cancels and does not close the stream.
AbortKeepsStream(s) ==
  /\ start[s] = "starting"
  /\ start' = [start EXCEPT ![s] = "aborted"]
  /\ pipe' = [pipe EXCEPT ![s] = "cancelled"]
  /\ UNCHANGED <<procVars, stream, entries, endVars, leaving, histVars>>

\* abortAudioTrack that closes what is registered under any track.
AbortClosesEntries(s) ==
  /\ start[s] = "starting"
  /\ start' = [start EXCEPT ![s] = "aborted"]
  /\ pipe' = [u \in Subs |-> IF u = s \/ \E i \in Ids : entries[i] = u
                             THEN "cancelled" ELSE pipe[u]]
  /\ UNCHANGED <<procVars, stream, entries, endVars, leaving, histVars>>

-----------------------------------------------------------------------------
(* The process, the session and the bot.                                    *)

\* POST /v1/sessions: Create, which starts the goroutine of Join.
CreateSession ==
  /\ join = "none"
  /\ join' = "connecting"
  /\ UNCHANGED <<proc, start, pipeVars, entries, endVars, leaving, histVars>>

\* connect mints a token and dials LiveKit.
Connect ==
  /\ join = "connecting"
  /\ join' = "joined"
  /\ UNCHANGED <<proc, start, pipeVars, entries, endVars, leaving, histVars>>

\* Join returns the error, with no closeAll for what callbacks added so far.
ConnectFails ==
  /\ join = "connecting"
  /\ join' = "returned"
  /\ orphaned' = orphaned \cup Registered
  /\ UNCHANGED <<proc, start, pipeVars, entries, endVars, leaving, displaced,
                 late, mistaken>>

\* The signal cancels rootCtx, and with it every trackCtx, which derive from
\* it; waitForShutdown calls srv.Shutdown.
Signal ==
  /\ proc = "serving"
  /\ proc' = "draining"
  /\ pipe' = [s \in Subs |-> IF pipe[s] = "live" THEN "cancelled" ELSE pipe[s]]
  /\ UNCHANGED <<join, start, stream, entries, endVars, leaving, histVars>>

\* Shutdown returned, or ListenAndServe failed: main does not wait for Join.
Exit ==
  /\ proc' = "exited"
  /\ UNCHANGED <<join, start, pipeVars, entries, endVars, leaving, histVars>>

\* Join's deferred closeAll takes every entry, and closes them one by one.
LeaveTake ==
  /\ join = "joined" /\ proc = "draining"
  /\ leaving' = Registered
  /\ entries' = [i \in Ids |-> NoSub]
  /\ join' = "closing"
  /\ UNCHANGED <<proc, start, pipeVars, endVars, histVars>>

LeaveClose(s) ==
  /\ s \in leaving
  /\ ClosePipeline(s)
  /\ leaving' = leaving \ {s}
  /\ UNCHANGED <<procVars, start, entries, endVars, histVars>>

\* The deferred room.Disconnect; callbacks that run go on.
Disconnect ==
  /\ join = "closing" /\ leaving = {}
  /\ join' = "returned"
  /\ UNCHANGED <<proc, start, pipeVars, entries, endVars, leaving, histVars>>

-----------------------------------------------------------------------------
(* OnTrackSubscribed: startAudioTrack.                                      *)

\* Callbacks come until the room is disconnected, also before connect returned.
\* A track is subscribed again once it was unsubscribed.  After the signal
\* trackCtx is cancelled from the start.
Subscribe(s) ==
  /\ join \in {"connecting", "joined", "closing"}
  /\ start[s] = "none"
  /\ \A u \in subscribed : TrackOf[u] # TrackOf[s]
  /\ start' = [start EXCEPT ![s] = "opening"]
  /\ pipe' = [pipe EXCEPT ![s] =
                IF proc = "serving" THEN "live" ELSE "cancelled"]
  /\ subscribed' = subscribed \cup {s}
  /\ UNCHANGED <<procVars, stream, entries, stop, target, leaving, histVars>>

\* openSTTStream dials for up to ten seconds.  Without a client or when the
\* dial fails, as it does when trackCtx is cancelled, the pipeline goes on
\* without a stream.
OpenSTTStream(s) ==
  /\ start[s] = "opening"
  /\ start' = [start EXCEPT ![s] = "starting"]
  /\ \E opened \in {"open", "none"} :
       /\ opened = "open" => pipe[s] = "live"
       /\ stream' = [stream EXCEPT ![s] = opened]
  /\ UNCHANGED <<procVars, pipe, entries, endVars, leaving, histVars>>

\* StartRemoteTrack launches the decode loop.
StartRemoteTrack(s) ==
  /\ start[s] = "starting"
  /\ start' = [start EXCEPT ![s] = "adding"]
  /\ UNCHANGED <<procVars, pipeVars, entries, endVars, leaving, histVars>>

\* StartRemoteTrack refuses the codec: abortAudioTrack.
Abort(s) ==
  /\ start[s] = "starting"
  /\ start' = [start EXCEPT ![s] = "aborted"]
  /\ ClosePipeline(s)
  /\ UNCHANGED <<procVars, entries, endVars, leaving, histVars>>

\* add looks neither at what it replaces nor whether closeAll is still to come.
Add(s) ==
  /\ start[s] = "adding"
  /\ start' = [start EXCEPT ![s] = "added"]
  /\ displaced' = displaced \cup ({Entry(s)} \ {NoSub})
  /\ late' = IF stop[s] \in {"closing", "done"} THEN late \cup {s} ELSE late
  /\ orphaned' = IF join \in {"closing", "returned"} THEN orphaned \cup {s}
                  ELSE orphaned
  /\ entries' = [entries EXCEPT ![TrackOf[s]] = s]
  /\ UNCHANGED <<procVars, pipeVars, endVars, leaving, mistaken>>

\* The stream ends by itself (Deepgram, the network, a failed write): the pipe
\* closes it, the pipeline stays, and nothing opens another.
StreamDies(s) ==
  /\ stream[s] = "open"
  /\ stream' = [stream EXCEPT ![s] = "closed"]
  /\ UNCHANGED <<procVars, start, pipe, entries, endVars, leaving, histVars>>

-----------------------------------------------------------------------------
(* OnTrackUnsubscribed: stopAudioTrack.                                     *)

\* The track may end while its callback still builds the pipeline.
Unsubscribe(s) ==
  /\ s \in subscribed
  /\ subscribed' = subscribed \ {s}
  /\ stop' = [stop EXCEPT ![s] = "called"]
  /\ UNCHANGED <<procVars, start, pipeVars, entries, target, leaving,
                 histVars>>

\* remove takes whatever is under the id under the lock, and closes it outside.
RemoveTake(s) ==
  /\ stop[s] = "called"
  /\ target' = [target EXCEPT ![s] = Entry(s)]
  /\ stop' = [stop EXCEPT ![s] =
                IF Entry(s) = NoSub THEN "done" ELSE "closing"]
  /\ entries' = [entries EXCEPT ![TrackOf[s]] = NoSub]
  /\ mistaken' = mistaken \cup ({Entry(s)} \ {s, NoSub})
  /\ UNCHANGED <<procVars, start, pipeVars, subscribed, leaving, displaced,
                 late, orphaned>>

RemoveClose(s) ==
  /\ stop[s] = "closing"
  /\ ClosePipeline(target[s])
  /\ stop' = [stop EXCEPT ![s] = "done"]
  /\ target' = [target EXCEPT ![s] = NoSub]
  /\ UNCHANGED <<procVars, start, entries, subscribed, leaving, histVars>>

-----------------------------------------------------------------------------
Start(s) ==
  OpenSTTStream(s) \/ StartRemoteTrack(s) \/ Abort(s) \/ Add(s)
Stop(s) == Unsubscribe(s) \/ RemoveTake(s) \/ RemoveClose(s)
Leave == LeaveTake \/ Disconnect \/ \E s \in Subs : LeaveClose(s)

\* Nothing runs any more, in whatever state it was.
Gone == proc = "exited" /\ UNCHANGED vars

Next ==
  \/ /\ proc # "exited"
     /\ \/ CreateSession \/ Connect \/ ConnectFails
        \/ Signal \/ Exit \/ Leave
        \/ \E s \in Subs : Subscribe(s) \/ Start(s) \/ StreamDies(s) \/ Stop(s)
  \/ Gone

Spec == Init /\ [][Next]_vars

-----------------------------------------------------------------------------
(* Properties.                                                              *)

Open(s) == pipe[s] = "live" \/ stream[s] = "open"
BeingStopped == {target[s] : s \in Subs} \ {NoSub}

\* startAudioTrack still has the pipeline, which is not in the map yet.
Building(s) == start[s] \in {"opening", "starting", "adding"}

\* An entry is a pipeline of that track that was built and that nobody closed:
\* while the process serves, what the end of a track takes is worth closing.
\* (From the signal on every context is cancelled, of the entries too.)
EntriesLive ==
  \A i \in Ids : entries[i] # NoSub =>
    /\ TrackOf[entries[i]] = i
    /\ start[entries[i]] = "added"
    /\ proc = "serving" => pipe[entries[i]] = "live"

\* No two goroutines close the same pipeline: when a track ends while the bot
\* leaves, one of them takes it from the map.
OneCloser ==
  /\ \A s, u \in Subs : target[s] = target[u] /\ target[s] # NoSub => s = u
  /\ leaving \cap BeingStopped = {}
  /\ (leaving \cup BeingStopped) \cap Registered = {}

\* While the process serves, a caller who is subscribed keeps the pipeline, but
\* for one race: remove() goes by the id, and the end of an earlier
\* subscription of the track that reaches it late takes the live entry.
\* Failed starts, adds that are late or displace an entry, and the ends of
\* other tracks never cut the caller.
StillHeard ==
  \A s \in subscribed \ mistaken :
    proc = "serving" /\ start[s] # "aborted" => pipe[s] = "live"

\* A pipeline in the map that its own end or closeAll is still going to take.
WillBeTaken(s) ==
  /\ s \in Registered
  /\ join \in {"connecting", "joined"}
  /\ stop[s] \in {"none", "called"}

\* What is open is in the hands of the callback that builds it, of a goroutine
\* that closes it, or in the map for the end of its track to find, but for
\* three leaks: another add() replaced its entry; it was added after its own
\* end had looked for it, and waits in the map for the bot to leave; or it is
\* in a map that no closeAll takes, as it was added after closeAll or as
\* connect failed.
OnlyKnownLeaks ==
  \A s \in Subs : Open(s) =>
    \/ Building(s)
    \/ s \in BeingStopped \cup leaving
    \/ WillBeTaken(s)
    \/ s \in displaced
    \/ s \in Registered \cap (late \cup orphaned)

\* Once stopAudioTrack returned, the pipeline it was called for is closed, or
\* the bot that leaves or another end of the same track is closing it, unless
\* it was not yet in the map when remove() looked, or an older one had taken
\* its place.
EndedTracksAreClosed ==
  \A s \in Subs :
    stop[s] = "done" /\ start[s] = "added" /\ s \notin late \cup displaced
      => ~Open(s) \/ s \in leaving \cup BeingStopped

-----------------------------------------------------------------------------
(* The inductive invariant.                                                 *)

\* Where the callbacks of a subscription are, its pipeline agrees; the signal
\* leaves none live.
SubsInv ==
  \A s \in Subs :
    /\ join = "none" => start[s] = "none"
    /\ s \in subscribed => start[s] # "none" /\ stop[s] = "none"
    /\ start[s] = "none" => /\ pipe[s] = "none" /\ stream[s] = "none"
                            /\ stop[s] = "none"
    /\ Building(s) /\ proc = "serving" => pipe[s] = "live"
    /\ proc = "draining" => pipe[s] # "live"
    /\ start[s] = "aborted" => ~Open(s)
    /\ stop[s] = "closing" <=> target[s] # NoSub

\* What was taken from the map had been added to it, under the same track;
\* if another end took it, that is on record.
TakenInv ==
  /\ \A s \in Subs : target[s] # NoSub =>
       /\ start[target[s]] = "added" /\ TrackOf[target[s]] = TrackOf[s]
       /\ target[s] # s => target[s] \in mistaken
  /\ \A s \in leaving : start[s] = "added"
  /\ leaving # {} => join = "closing" /\ proc # "serving"

\* An entry whose own end has looked for it came late, and one that no closeAll
\* is going to take is on record.
EntriesInv ==
  \A s \in Registered :
    /\ stop[s] \in {"closing", "done"} => s \in late
    /\ join \notin {"connecting", "joined"} => s \in orphaned

\* EndedTracksAreClosed, from the moment remove() has the entry.
EndedInv ==
  \A s \in Subs :
    stop[s] \in {"closing", "done"} /\ start[s] = "added"
      /\ s \notin late \cup displaced
      => ~Open(s) \/ s \in leaving \cup BeingStopped

Inv ==
  /\ TypeOK
  /\ SubsInv
  /\ TakenInv
  /\ EntriesInv
  /\ EntriesLive
  /\ OneCloser
  /\ StillHeard
  /\ OnlyKnownLeaks
  /\ EndedInv
=============================================================================

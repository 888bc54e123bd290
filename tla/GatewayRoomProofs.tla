-------------------------- MODULE GatewayRoomProofs --------------------------
(***************************************************************************)
(* Proofs about GatewayRoom for any number of subscriptions and tracks.    *)
(* Inv is inductive: a pipeline leaves the map in the step that gives it   *)
(* to its closer or that an add() replaces it, what another end takes is   *)
(* on record, and an entry that nobody is going to take came late.         *)
(***************************************************************************)
EXTENDS GatewayRoom, TLAPS

LEMMA InitInv == Init => Inv
<1> SUFFICES ASSUME Init PROVE Inv
  OBVIOUS
<1> USE NumSubsIsNat, SubsAreOfTracks, NoSubIsNone
    DEF Init, Open, Building, Registered, BeingStopped
<1>1. TypeOK
  BY DEF TypeOK
<1>2. SubsInv /\ TakenInv /\ EntriesInv
  BY DEF SubsInv, TakenInv, EntriesInv
<1>3. EntriesLive /\ OneCloser /\ StillHeard
  BY DEF EntriesLive, OneCloser, StillHeard
<1>4. OnlyKnownLeaks /\ EndedInv
  BY DEF OnlyKnownLeaks, EndedInv
<1> QED BY <1>1, <1>2, <1>3, <1>4 DEF Inv

\* Who is registered, in terms of the map.
LEMMA RegisteredIsEntry ==
  ASSUME Inv
  PROVE  /\ \A s \in Subs : s \in Registered <=> Entry(s) = s
         /\ \A s \in Subs : Entry(s) # NoSub => Entry(s) \in Registered
         /\ Registered \subseteq Subs /\ BeingStopped \subseteq Subs
BY SubsAreOfTracks, NoSubIsNone
   DEF Inv, TypeOK, EntriesLive, Registered, BeingStopped, Entry

\* Steps of the process, the session and the bot.
LEMMA RoomStep ==
  ASSUME Inv,
         \/ CreateSession \/ Connect \/ ConnectFails
         \/ Signal \/ Exit \/ Leave
  PROVE  Inv'
<1> USE NumSubsIsNat, SubsAreOfTracks, NoSubIsNone
    DEF Inv, TypeOK, Open, Building, procVars, pipeVars, endVars, histVars
<1>1. CASE CreateSession \/ Connect \/ ConnectFails \/ Disconnect
  <2> USE <1>1 DEF CreateSession, Connect, ConnectFails, Disconnect
  <2>1. /\ Registered' = Registered /\ BeingStopped' = BeingStopped
        /\ Registered \subseteq Subs
    BY RegisteredIsEntry DEF Registered, BeingStopped
  <2>2. TypeOK' /\ SubsInv' /\ TakenInv'
    BY <2>1 DEF SubsInv, TakenInv
  <2>3. EntriesInv'
    BY <2>1 DEF EntriesInv
  <2>4. EntriesLive' /\ OneCloser' /\ StillHeard'
    BY <2>1 DEF EntriesLive, OneCloser, StillHeard
  <2>5. OnlyKnownLeaks' /\ EndedInv'
    BY <2>1 DEF OnlyKnownLeaks, WillBeTaken, EndedInv
  <2> QED BY <2>2, <2>3, <2>4, <2>5
<1>2. CASE Signal \/ Exit
  <2> USE <1>2 DEF Signal, Exit
  <2>1. TypeOK' /\ SubsInv' /\ TakenInv' /\ EntriesInv'
    BY DEF SubsInv, TakenInv, EntriesInv, Registered
  <2>2. EntriesLive' /\ OneCloser' /\ StillHeard'
    BY DEF EntriesLive, OneCloser, StillHeard, Registered, BeingStopped
  <2>3. OnlyKnownLeaks' /\ EndedInv'
    BY DEF OnlyKnownLeaks, WillBeTaken, EndedInv, Registered, BeingStopped
  <2> QED BY <2>1, <2>2, <2>3
<1>3. CASE LeaveTake
  <2>1. /\ leaving = {} /\ leaving' = Registered
        /\ Registered' = {}
        /\ UNCHANGED <<proc, start, pipeVars, endVars, histVars>>
    BY <1>3 DEF LeaveTake, TakenInv, Registered
  <2>2. entries' = [i \in Ids |-> NoSub]
    BY <1>3 DEF LeaveTake
  <2>3. TypeOK'
    <3>1. join' = "closing"
      BY <1>3 DEF LeaveTake
    <3> QED BY <2>1, <2>2, <3>1, RegisteredIsEntry
  <2>4. EntriesLive'
    BY <2>2 DEF EntriesLive
  <2>5. SubsInv' /\ EntriesInv' /\ StillHeard'
    BY <1>3, <2>1 DEF LeaveTake, SubsInv, EntriesInv, StillHeard
  <2>6. TakenInv'
    BY <1>3 DEF LeaveTake, TakenInv, EntriesLive, Registered
  <2>7. BeingStopped' = BeingStopped
    BY <2>1 DEF BeingStopped
  <2>8. OneCloser'
    BY <2>1, <2>7 DEF OneCloser
  <2>9. OnlyKnownLeaks'
    BY <2>1, <2>7 DEF OnlyKnownLeaks, WillBeTaken
  <2>10. EndedInv'
    BY <2>1, <2>7 DEF EndedInv
  <2> QED BY <2>3, <2>4, <2>5, <2>6, <2>8, <2>9, <2>10
<1>4. ASSUME NEW s \in Subs, LeaveClose(s) PROVE Inv'
  <2> USE <1>4 DEF LeaveClose, ClosePipeline
  <2>1. Registered' = Registered /\ BeingStopped' = BeingStopped
    BY DEF Registered, BeingStopped
  <2>2. TypeOK' /\ TakenInv'
    BY DEF TakenInv
  <2>3. SubsInv'
    BY DEF SubsInv, TakenInv
  <2>4. EntriesInv'
    BY <2>1 DEF EntriesInv
  <2>5. EntriesLive'
    BY DEF EntriesLive, TakenInv
  <2>6. OneCloser'
    BY <2>1 DEF OneCloser
  <2>7. StillHeard'
    BY DEF StillHeard, TakenInv
  <2>8. OnlyKnownLeaks' /\ EndedInv'
    BY <2>1 DEF OnlyKnownLeaks, WillBeTaken, EndedInv
  <2> QED BY <2>2, <2>3, <2>4, <2>5, <2>6, <2>7, <2>8
<1> QED BY <1>1, <1>2, <1>3, <1>4 DEF Leave

\* Steps of OnTrackSubscribed and of the stream it opens.
LEMMA StartStep ==
  ASSUME Inv, NEW s \in Subs, Subscribe(s) \/ Start(s) \/ StreamDies(s)
  PROVE  Inv'
<1> USE NumSubsIsNat, SubsAreOfTracks, NoSubIsNone
    DEF Inv, TypeOK, Open, Building, procVars, pipeVars, endVars, histVars
<1>1. CASE \/ Subscribe(s) \/ OpenSTTStream(s) \/ StartRemoteTrack(s)
           \/ Abort(s) \/ StreamDies(s)
  <2> USE <1>1 DEF Subscribe, OpenSTTStream, StartRemoteTrack, Abort,
                   ClosePipeline, StreamDies
  <2>1. Registered' = Registered /\ BeingStopped' = BeingStopped
    BY DEF Registered, BeingStopped
  <2>2. TypeOK' /\ TakenInv'
    BY DEF TakenInv
  <2>3. SubsInv'
    BY DEF SubsInv
  <2>4. EntriesInv'
    BY <2>1 DEF EntriesInv
  <2>5. EntriesLive'
    BY DEF EntriesLive
  <2>6. OneCloser'
    BY <2>1 DEF OneCloser
  <2>7. StillHeard'
    BY DEF StillHeard
  <2>8. OnlyKnownLeaks'
    BY <2>1 DEF OnlyKnownLeaks, WillBeTaken
  <2>9. EndedInv'
    BY <2>1 DEF EndedInv
  <2> QED BY <2>2, <2>3, <2>4, <2>5, <2>6, <2>7, <2>8, <2>9
<1>2. CASE Add(s)
  <2> USE <1>2 DEF Add, Entry
  <2>1. /\ Registered' = (Registered \ {Entry(s)}) \cup {s}
        /\ BeingStopped' = BeingStopped
        /\ displaced' = displaced \cup ({Entry(s)} \ {NoSub})
    BY RegisteredIsEntry DEF Registered, BeingStopped, EntriesLive
  <2>2. s \notin BeingStopped \cup leaving
    BY DEF TakenInv, BeingStopped
  <2>3. TypeOK' /\ SubsInv' /\ TakenInv'
    BY DEF SubsInv, TakenInv
  <2>4. EntriesInv'
    BY <2>1 DEF EntriesInv, SubsInv
  <2>5. EntriesLive' /\ StillHeard'
    BY DEF EntriesLive, StillHeard, SubsInv
  <2>6. OneCloser'
    BY <2>1, <2>2 DEF OneCloser
  <2>7. OnlyKnownLeaks'
    BY <2>1, RegisteredIsEntry DEF OnlyKnownLeaks, WillBeTaken, SubsInv
  <2>8. EndedInv'
    BY <2>1 DEF EndedInv
  <2> QED BY <2>3, <2>4, <2>5, <2>6, <2>7, <2>8
<1> QED BY <1>1, <1>2 DEF Start

\* Steps of OnTrackUnsubscribed.
LEMMA StopStep ==
  ASSUME Inv, NEW s \in Subs, Stop(s)
  PROVE  Inv'
<1> USE NumSubsIsNat, SubsAreOfTracks, NoSubIsNone
    DEF Inv, TypeOK, Open, Building, procVars, pipeVars, endVars, histVars
<1>1. CASE Unsubscribe(s)
  <2> USE <1>1 DEF Unsubscribe
  <2>1. Registered' = Registered /\ BeingStopped' = BeingStopped
    BY DEF Registered, BeingStopped
  <2>2. TypeOK' /\ SubsInv' /\ TakenInv'
    BY DEF SubsInv, TakenInv
  <2>3. EntriesInv' /\ EntriesLive' /\ OneCloser' /\ StillHeard'
    BY <2>1 DEF EntriesInv, EntriesLive, OneCloser, StillHeard
  <2>4. OnlyKnownLeaks' /\ EndedInv'
    BY <2>1 DEF OnlyKnownLeaks, WillBeTaken, EndedInv
  <2> QED BY <2>2, <2>3, <2>4
<1>2. CASE RemoveTake(s)
  <2> USE <1>2 DEF RemoveTake, Entry
  <2>1. /\ Registered' = Registered \ {Entry(s)}
        /\ target[s] = NoSub
        /\ BeingStopped' = BeingStopped \cup ({Entry(s)} \ {NoSub})
    BY RegisteredIsEntry
    DEF Registered, BeingStopped, EntriesLive, SubsInv
  <2>2. Entry(s) # NoSub =>
          /\ Entry(s) \in Registered /\ start[Entry(s)] = "added"
          /\ TrackOf[Entry(s)] = TrackOf[s]
    BY RegisteredIsEntry DEF EntriesLive
  <2>3. TypeOK' /\ SubsInv'
    BY <2>2 DEF SubsInv
  <2>4. TakenInv'
    BY <2>2 DEF TakenInv
  <2>5. EntriesInv'
    BY <2>1, RegisteredIsEntry DEF EntriesInv
  <2>6. EntriesLive' /\ StillHeard'
    BY DEF EntriesLive, StillHeard
  <2>7. OneCloser'
    BY <2>1, <2>2, RegisteredIsEntry DEF OneCloser, BeingStopped
  <2>8. OnlyKnownLeaks'
    BY <2>1, RegisteredIsEntry DEF OnlyKnownLeaks, WillBeTaken
  <2>9. EndedInv'
    BY <2>1, RegisteredIsEntry
    DEF EndedInv, OnlyKnownLeaks, WillBeTaken, EntriesInv
  <2> QED BY <2>3, <2>4, <2>5, <2>6, <2>7, <2>8, <2>9
<1>3. CASE RemoveClose(s)
  <2> USE <1>3 DEF RemoveClose, ClosePipeline
  <2>1. target[s] \in Subs /\ start[target[s]] = "added"
    BY DEF SubsInv, TakenInv
  <2>2. /\ Registered' = Registered
        /\ BeingStopped' = BeingStopped \ {target[s]}
    BY DEF Registered, BeingStopped, OneCloser
  <2>3. TypeOK' /\ SubsInv' /\ TakenInv'
    BY <2>1 DEF SubsInv, TakenInv
  <2>4. EntriesInv'
    BY <2>2 DEF EntriesInv
  <2>5. EntriesLive'
    <3>1. \A i \in Ids : entries[i] # target[s]
      BY <2>1 DEF OneCloser, Registered, BeingStopped
    <3> QED BY <2>1, <3>1 DEF EntriesLive
  <2>6. OneCloser'
    BY <2>2 DEF OneCloser
  <2>7. StillHeard'
    BY <2>1 DEF StillHeard, TakenInv, SubsInv
  <2>8. OnlyKnownLeaks'
    BY <2>1, <2>2 DEF OnlyKnownLeaks, WillBeTaken
  <2>9. EndedInv'
    BY <2>1, <2>2 DEF EndedInv
  <2> QED BY <2>3, <2>4, <2>5, <2>6, <2>7, <2>8, <2>9
<1> QED BY <1>1, <1>2, <1>3 DEF Stop

LEMMA StepInv == Inv /\ [Next]_vars => Inv'
<1> SUFFICES ASSUME Inv, [Next]_vars PROVE Inv'
  OBVIOUS
<1>1. CASE UNCHANGED vars
  BY <1>1 DEF vars, procVars, pipeVars, endVars, histVars, Inv, TypeOK,
     SubsInv, TakenInv, EntriesInv, EntriesLive, OneCloser, StillHeard,
     OnlyKnownLeaks, WillBeTaken, EndedInv, Open, Building, Registered,
     BeingStopped
<1>2. CASE Next
  BY <1>1, <1>2, RoomStep, StartStep, StopStep DEF Next, Gone
<1> QED BY <1>1, <1>2

\* Inv holds for any number of subscriptions and tracks.
THEOREM Invariance == Spec => []Inv
<1> QED BY InitInv, StepInv, PTL DEF Spec

\* The types of the state of a room.
THEOREM TypeCorrect == Spec => []TypeOK
<1>1. Inv => TypeOK
  BY DEF Inv
<1> QED BY <1>1, Invariance, PTL

\* The map of track.go holds pipelines of its tracks that nobody closed, which
\* are live until the signal.
THEOREM EntriesStayLive == Spec => []EntriesLive
<1>1. Inv => EntriesLive
  BY DEF Inv
<1> QED BY <1>1, Invariance, PTL

\* A pipeline is closed by the end of its track or by closeAll, not by both.
THEOREM ClosedByOne == Spec => []OneCloser
<1>1. Inv => OneCloser
  BY DEF Inv
<1> QED BY <1>1, Invariance, PTL

\* Only the late end of an earlier subscription of the same track cuts a caller
\* who is subscribed.
THEOREM CallersAreHeard == Spec => []StillHeard
<1>1. Inv => StillHeard
  BY DEF Inv
<1> QED BY <1>1, Invariance, PTL

\* A pipeline is lost by an add() that replaces its entry, that comes after its
\* own end, or whose map nobody closes, and in no other way.
THEOREM NothingElseIsLost == Spec => []OnlyKnownLeaks
<1>1. Inv => OnlyKnownLeaks
  BY DEF Inv
<1> QED BY <1>1, Invariance, PTL

\* stopAudioTrack closes what it was called for, but for the two races.
THEOREM EndsClose == Spec => []EndedTracksAreClosed
<1>1. Inv => EndedTracksAreClosed
  BY NoSubIsNone DEF Inv, SubsInv, EndedInv, EndedTracksAreClosed
<1> QED BY <1>1, Invariance, PTL
=============================================================================

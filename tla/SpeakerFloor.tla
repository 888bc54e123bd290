---------------------------- MODULE SpeakerFloor ----------------------------
(***************************************************************************)
(* What the reply pipeline of one room promises to the caller: replies are *)
(* spoken one turn at a time and one clip at a time.  A turn takes the     *)
(* floor in silence, says its clips one after the other, each at most once *)
(* and in order, and leaves the floor in silence.  Nothing here says how   *)
(* turns are scheduled, how a clip is published or how a barge-in stops    *)
(* it: TurnPipeline is the detailed specification that implements this.    *)
(***************************************************************************)
EXTENDS Integers

CONSTANTS Turns,     \* the final transcripts that may become turns
          Numbers,   \* the numbers of a turn's clips
          NoTurn     \* nobody has the floor

VARIABLES floor,     \* the turn that has the floor, or NoTurn
          voice,     \* the clips the caller hears now: <<turn, number>>
          uttered    \* every clip the caller began to hear

vars == <<floor, voice, uttered>>

Init ==
  /\ floor = NoTurn
  /\ voice = {}
  /\ uttered = {}

Take(t) ==
  /\ floor = NoTurn
  /\ voice = {}
  /\ floor' = t
  /\ UNCHANGED <<voice, uttered>>

\* A sentence that could not be published leaves a gap in the numbering: the
\* next clip may skip numbers, it never repeats or goes back.
Say(t, k) ==
  /\ floor = t
  /\ voice = {}
  /\ \A c \in uttered : c[1] = t => c[2] < k
  /\ voice' = {<<t, k>>}
  /\ uttered' = uttered \cup {<<t, k>>}
  /\ UNCHANGED floor

\* A clip stops: played to its end, cut by a barge-in, or lost with the room.
Hush ==
  /\ voice # {}
  /\ voice' = {}
  /\ UNCHANGED <<floor, uttered>>

Yield ==
  /\ floor # NoTurn
  /\ voice = {}
  /\ floor' = NoTurn
  /\ UNCHANGED <<voice, uttered>>

Next ==
  \/ \E t \in Turns : Take(t)
  \/ \E t \in Turns, k \in Numbers : Say(t, k)
  \/ Hush
  \/ Yield

Spec == Init /\ [][Next]_vars
=============================================================================

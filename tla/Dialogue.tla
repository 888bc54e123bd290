------------------------------ MODULE Dialogue ------------------------------
(***************************************************************************)
(* What the orchestrator promises to a session: its log holds what was     *)
(* said.  An utterance is logged in the step that asks the LLM about it,   *)
(* with all that was logged before; its reply is logged after it, once,    *)
(* and never if the turn failed; the caller is told that a turn is         *)
(* complete only when its reply is logged and before a later utterance     *)
(* is asked.  Nothing here says that a reply is a stream, which goroutines *)
(* carry it, or which turns are abandoned: Conversation is the detailed    *)
(* specification that implements this.                                     *)
(***************************************************************************)
EXTENDS Naturals, Sequences

CONSTANT NumTurns

Turns == 1..NumTurns

VARIABLES log,       \* <<"user", t>> and <<"assistant", t>>, in order
          asked,     \* asked[t]: the log the LLM answered turn t from
          complete,  \* turns whose reply the caller knows to be whole
          failed     \* turns whose reply the caller knows to be lost

vars == <<log, asked, complete, failed>>

Logged(m) == \E i \in 1..Len(log) : log[i] = m

Init ==
  /\ log = <<>>
  /\ asked = [t \in Turns |-> <<>>]
  /\ complete = {}
  /\ failed = {}

\* The utterance of an abandoned turn may even be asked after a later one.
Ask(t) ==
  /\ ~Logged(<<"user", t>>)
  /\ log' = Append(log, <<"user", t>>)
  /\ asked' = [asked EXCEPT ![t] = log']
  /\ UNCHANGED <<complete, failed>>

\* The reply of an abandoned turn may be logged at any later time.
Answer(t) ==
  /\ Logged(<<"user", t>>) /\ ~Logged(<<"assistant", t>>)
  /\ t \notin failed
  /\ log' = Append(log, <<"assistant", t>>)
  /\ UNCHANGED <<asked, complete, failed>>

Complete(t) ==
  /\ Logged(<<"assistant", t>>)
  /\ \A u \in Turns : u > t => asked[u] = <<>>
  /\ complete' = complete \cup {t}
  /\ UNCHANGED <<log, asked, failed>>

Fail(t) ==
  /\ ~Logged(<<"assistant", t>>)
  /\ failed' = failed \cup {t}
  /\ UNCHANGED <<log, asked, complete>>

Next == \E t \in Turns : Ask(t) \/ Answer(t) \/ Complete(t) \/ Fail(t)

Spec == Init /\ [][Next]_vars
=============================================================================

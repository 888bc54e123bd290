---------------------------- MODULE Conversation ----------------------------
(***************************************************************************)
(* The turns of one session between voice-gateway and ai-orchestrator: the *)
(* gateway's orchestrator client (orchestrator/httpclient), the turn       *)
(* endpoint (httpserver), the conversation service with its in-memory      *)
(* store (conversation) and the streaming LLM client (llm/openai).         *)
(*                                                                         *)
(* Each turn is one HTTP request with four processes:                      *)
(*                                                                         *)
(*   client   StreamTurn, one at a time: handleFinal holds turnMu          *)
(*   handler  handleTurn and streamTurn, which writes server-sent events   *)
(*   forward  forwardTurn, which collects the reply and stores it          *)
(*   pump     pumpStream, which reads the LLM's stream                     *)
(*                                                                         *)
(* pump -> upstream -> forward -> out -> handler -> wire -> client.  The   *)
(* next turn starts as soon as the client gave up on the last, while the   *)
(* three others of the old turn may still run.                             *)
(***************************************************************************)
EXTENDS Naturals, Sequences, SequencesExt, Subsequence

CONSTANTS NumTurns,   \* bound: turns of the session
          MaxChunks,  \* bound: MaxChunks[t] chunks of the reply of turn t
          Cap         \* capacity of the two channels (16 in the code)

Turns == 1..NumTurns

ASSUME BoundsAreNat ==
  NumTurns \in Nat /\ MaxChunks \in [Turns -> Nat] /\ Cap \in Nat \ {0}

\* A chunk of the reply is a word or white space only; "error" is Chunk.Err.
Texts == {"word", "blank"}
Chunks == Texts \cup {"error"}
\* What the client reads: text, the error event, [DONE], or another response
\* than a stream: 202 for a partial transcript, an error status.
Events == {"word", "error", "done", "ignored", "status"}
\* What a request carries: a final transcript, a partial one, or no text.
Kinds == {"final", "partial", "empty"}

VARIABLES
  client,      \* client[t]: "idle", "reading", or "ended"
  outcome,     \* outcome[t]: how StreamTurn returned
  heard,       \* heard[t]: the reply text collected by the client
  handler,     \* handler[t]: where handleTurn is; at first, what it received
  gone,        \* turns whose request context is cancelled
  forward,     \* forward[t]: where forwardTurn is
  carry,       \* carry[t]: the chunk forwardTurn is sending
  assistant,   \* assistant[t]: the reply forwardTurn collected
  pump,        \* pump[t]: where pumpStream is
  produced,    \* produced[t]: number of chunks the LLM sent
  upstream,    \* upstream[t]: the channel pump -> forward
  upClosed,    \* turns whose upstream is closed
  out,         \* out[t]: the channel forward -> handler
  outClosed,   \* turns whose out is closed
  wire,        \* wire[t]: events written and not yet read
  history,     \* store.sessions[id]: <<role, turn>> after the system prompt
  prompt,      \* prompt[t]: the messages the LLM was asked to continue
  llm          \* the LLM client is configured

clientVars == <<client, outcome, heard>>
serverVars == <<handler, gone>>
forwardVars == <<forward, carry, assistant>>
pumpVars == <<pump, produced>>
channelVars == <<upstream, upClosed, out, outClosed>>
storeVars == <<history, prompt>>
vars == <<clientVars, serverVars, forwardVars, pumpVars, channelVars, wire,
          storeVars, llm>>

Messages == {"user", "assistant"} \X Turns

TypeOK ==
  /\ client \in [Turns -> {"idle", "reading", "ended"}]
  /\ outcome \in [Turns -> {"none", "replied", "ignored", "failed", "aborted"}]
  /\ heard \in [Turns -> Seq({"word"})]
  /\ handler \in [Turns -> Kinds \cup {"idle", "stream", "copy", "returned"}]
  /\ gone \subseteq Turns
  /\ forward \in [Turns -> {"idle", "take", "send", "close", "returned"}]
  /\ carry \in [Turns -> Chunks \cup {"none"}]
  /\ assistant \in [Turns -> Seq(Texts)]
  /\ pump \in [Turns -> {"idle", "scan", "returned"}]
  /\ produced \in [Turns -> Nat]
  /\ upstream \in [Turns -> Seq(Chunks)]
  /\ upClosed \subseteq Turns
  /\ out \in [Turns -> Seq(Chunks)]
  /\ outClosed \subseteq Turns
  /\ wire \in [Turns -> Seq(Events)]
  /\ history \in Seq(Messages)
  /\ prompt \in [Turns -> Seq(Messages)]
  /\ llm \in BOOLEAN
  /\ \A t \in Turns :
       /\ produced[t] <= MaxChunks[t]
       /\ Len(upstream[t]) <= Cap /\ Len(out[t]) <= Cap

Init ==
  /\ client = [t \in Turns |-> "idle"]
  /\ outcome = [t \in Turns |-> "none"]
  /\ heard = [t \in Turns |-> <<>>]
  /\ handler = [t \in Turns |-> "idle"]
  /\ gone = {}
  /\ forward = [t \in Turns |-> "idle"]
  /\ carry = [t \in Turns |-> "none"]
  /\ assistant = [t \in Turns |-> <<>>]
  /\ pump = [t \in Turns |-> "idle"]
  /\ produced = [t \in Turns |-> 0]
  /\ upstream = [t \in Turns |-> <<>>] /\ upClosed = {}
  /\ out = [t \in Turns |-> <<>>] /\ outClosed = {}
  /\ wire = [t \in Turns |-> <<>>]
  /\ history = <<>>
  /\ prompt = [t \in Turns |-> <<>>]
  /\ llm \in BOOLEAN

\* f[t] becomes v.
Put(f, t, v) == [f EXCEPT ![t] = v]

-----------------------------------------------------------------------------
(* Mutated forms of definitions below: plausible bugs that the runs must    *)
(* notice.  No action of Next uses them.                                    *)

\* forwardTurn that closes out when the stream ends, and never stores.
CloseBeforeStoring(t) ==
  /\ forward[t] = "take"
  /\ upstream[t] = <<>> /\ t \in upClosed
  /\ outClosed' = outClosed \cup {t}
  /\ forward' = Put(forward, t, "close")
  /\ UNCHANGED <<clientVars, serverVars, carry, assistant, pumpVars, upstream,
                 upClosed, out, wire, storeVars, llm>>

\* forwardTurn that keeps the last chunk instead of all of them.
TakeOverwrites(t) ==
  /\ forward[t] = "take"
  /\ upstream[t] # <<>>
  /\ carry' = Put(carry, t, Head(upstream[t]))
  /\ assistant' = Put(assistant, t, IF Head(upstream[t]) \in Texts
                                    THEN <<Head(upstream[t])>>
                                    ELSE assistant[t])
  /\ upstream' = Put(upstream, t, Tail(upstream[t]))
  /\ forward' = Put(forward, t, "send")
  /\ UNCHANGED <<clientVars, serverVars, pumpVars, upClosed, out, outClosed,
                 wire, storeVars, llm>>

\* forwardTurn that goes on after an error as if the reply were whole.
SendGoesOn(t) ==
  /\ forward[t] = "send"
  /\ Len(out[t]) < Cap
  /\ out' = Put(out, t, Append(out[t], carry[t]))
  /\ carry' = Put(carry, t, "none")
  /\ forward' = Put(forward, t, "take")
  /\ UNCHANGED <<clientVars, serverVars, assistant, pumpVars, upstream,
                 upClosed, outClosed, wire, storeVars, llm>>

\* forwardTurn without the deferred close(out).
ReturnUnclosed(t) ==
  /\ forward[t] = "close"
  /\ forward' = Put(forward, t, "returned")
  /\ UNCHANGED <<clientVars, serverVars, carry, assistant, pumpVars,
                 channelVars, wire, storeVars, llm>>

\* streamTurn that takes an empty channel for a closed one.
CopyDoneEarly(t) ==
  /\ handler[t] = "copy"
  /\ out[t] = <<>>
  /\ wire' = Put(wire, t, IF client[t] = "ended" THEN wire[t]
                          ELSE Append(wire[t], "done"))
  /\ handler' = Put(handler, t, "returned")
  /\ UNCHANGED <<clientVars, gone, forwardVars, pumpVars, channelVars,
                 storeVars, llm>>

\* streamTurn that goes on after the error event.
CopyErrorGoesOn(t) ==
  /\ handler[t] = "copy"
  /\ out[t] # <<>> /\ Head(out[t]) = "error"
  /\ wire' = Put(wire, t, IF client[t] = "ended" THEN wire[t]
                          ELSE Append(wire[t], "error"))
  /\ out' = Put(out, t, Tail(out[t]))
  /\ UNCHANGED <<clientVars, serverVars, forwardVars, pumpVars, upstream,
                 upClosed, outClosed, storeVars, llm>>

\* streamTurn that returns when the client is gone, without draining out.
CopyTextGivesUp(t) ==
  /\ handler[t] = "copy"
  /\ out[t] # <<>> /\ Head(out[t]) \in Texts
  /\ out' = Put(out, t, Tail(out[t]))
  /\ IF client[t] = "ended"
     THEN handler' = Put(handler, t, "returned") /\ UNCHANGED wire
     ELSE /\ wire' = Put(wire, t, Append(wire[t], Head(out[t])))
          /\ UNCHANGED handler
  /\ UNCHANGED <<clientVars, gone, forwardVars, pumpVars, upstream, upClosed,
                 outClosed, storeVars, llm>>

\* emitChunk without the context case, and no capacity in the channel.
ScanUnbounded(t, chunk) ==
  /\ pump[t] = "scan"
  /\ t \notin gone
  /\ produced[t] < MaxChunks[t]
  /\ upstream' = Put(upstream, t, Append(upstream[t], chunk))
  /\ produced' = Put(produced, t, produced[t] + 1)
  /\ UNCHANGED <<clientVars, serverVars, forwardVars, pump, upClosed, out,
                 outClosed, wire, storeVars, llm>>

-----------------------------------------------------------------------------
(* The gateway: StreamTurn and readSSEText.                                 *)

\* handleFinal holds turnMu: the previous turn has returned.
Post(t) ==
  /\ client[t] = "idle"
  /\ \A u \in Turns : u < t => client[u] = "ended"
  /\ client' = Put(client, t, "reading")
  /\ \E kind \in Kinds : handler' = Put(handler, t, kind)
  /\ UNCHANGED <<outcome, heard, gone, forwardVars, pumpVars, channelVars,
                 wire, storeVars, llm>>

\* How StreamTurn returns on an event that ends it.
OutcomeOf(event) ==
  CASE event = "done" -> "replied"
    [] event = "ignored" -> "ignored"
    [] OTHER -> "failed"

\* appendSSELine: text is collected and handed to onChunk.
ReadText(t) ==
  /\ client[t] = "reading"
  /\ wire[t] # <<>> /\ Head(wire[t]) = "word"
  /\ heard' = Put(heard, t, Append(heard[t], "word"))
  /\ wire' = Put(wire, t, Tail(wire[t]))
  /\ UNCHANGED <<client, outcome, serverVars, forwardVars, pumpVars,
                 channelVars, storeVars, llm>>

ReadEnd(t) ==
  /\ client[t] = "reading"
  /\ wire[t] # <<>> /\ Head(wire[t]) # "word"
  /\ outcome' = Put(outcome, t, OutcomeOf(Head(wire[t])))
  /\ client' = Put(client, t, "ended")
  /\ wire' = Put(wire, t, Tail(wire[t]))
  /\ UNCHANGED <<heard, serverVars, forwardVars, pumpVars, channelVars,
                 storeVars, llm>>

\* onChunk fails (barge-in, text-to-speech), the 60 s deadline passes or the
\* track's context ends: the request is cancelled and its body closed.
Abort(t) ==
  /\ client[t] = "reading"
  /\ outcome' = Put(outcome, t, "aborted")
  /\ client' = Put(client, t, "ended")
  /\ wire' = Put(wire, t, <<>>)
  /\ UNCHANGED <<heard, serverVars, forwardVars, pumpVars, channelVars,
                 storeVars, llm>>

-----------------------------------------------------------------------------
(* The handler: handleTurn, HandleTurn and streamTurn.                      *)

\* The server notices that the client is gone and cancels r.Context().
Disconnected(t) ==
  /\ outcome[t] = "aborted"
  /\ t \notin gone
  /\ handler[t] # "returned"
  /\ gone' = gone \cup {t}
  /\ UNCHANGED <<clientVars, handler, forwardVars, pumpVars, channelVars,
                 wire, storeVars, llm>>

\* Write errors are ignored: an event for a client that left is dropped.
Write(t, event) ==
  wire' = Put(wire, t, IF client[t] = "ended" THEN wire[t]
                       ELSE Append(wire[t], event))

\* A partial transcript gets 202; an empty one, or no LLM, an error status.
Refuse(t) ==
  /\ handler[t] \in Kinds
  /\ handler[t] = "final" => ~llm
  /\ Write(t, IF handler[t] = "partial" THEN "ignored" ELSE "status")
  /\ handler' = Put(handler, t, "returned")
  /\ UNCHANGED <<clientVars, gone, forwardVars, pumpVars, channelVars,
                 storeVars, llm>>

\* store.appendUser appends and copies under one lock.
AppendUser(t) ==
  /\ handler[t] = "final" /\ llm
  /\ history' = Append(history, <<"user", t>>)
  /\ prompt' = Put(prompt, t, history')
  /\ handler' = Put(handler, t, "stream")
  /\ UNCHANGED <<clientVars, gone, forwardVars, pumpVars, channelVars, wire,
                 llm>>

\* LLM.Stream fails: an error status; the user message stays in the store.
StreamFails(t) ==
  /\ handler[t] = "stream"
  /\ Write(t, "status")
  /\ handler' = Put(handler, t, "returned")
  /\ UNCHANGED <<clientVars, gone, forwardVars, pumpVars, channelVars,
                 storeVars, llm>>

StreamOpens(t) ==
  /\ handler[t] = "stream"
  /\ t \notin gone
  /\ handler' = Put(handler, t, "copy")
  /\ forward' = Put(forward, t, "take")
  /\ pump' = Put(pump, t, "scan")
  /\ UNCHANGED <<clientVars, gone, carry, assistant, produced, channelVars,
                 wire, storeVars, llm>>

\* streamTurn skips chunks of white space.
CopyText(t) ==
  /\ handler[t] = "copy"
  /\ out[t] # <<>> /\ Head(out[t]) \in Texts
  /\ IF Head(out[t]) = "blank" THEN UNCHANGED wire ELSE Write(t, Head(out[t]))
  /\ out' = Put(out, t, Tail(out[t]))
  /\ UNCHANGED <<clientVars, serverVars, forwardVars, pumpVars, upstream,
                 upClosed, outClosed, storeVars, llm>>

CopyError(t) ==
  /\ handler[t] = "copy"
  /\ out[t] # <<>> /\ Head(out[t]) = "error"
  /\ Write(t, "error")
  /\ out' = Put(out, t, Tail(out[t]))
  /\ handler' = Put(handler, t, "returned")
  /\ UNCHANGED <<clientVars, gone, forwardVars, pumpVars, upstream, upClosed,
                 outClosed, storeVars, llm>>

CopyDone(t) ==
  /\ handler[t] = "copy"
  /\ out[t] = <<>> /\ t \in outClosed
  /\ Write(t, "done")
  /\ handler' = Put(handler, t, "returned")
  /\ UNCHANGED <<clientVars, gone, forwardVars, pumpVars, channelVars,
                 storeVars, llm>>

-----------------------------------------------------------------------------
(* forwardTurn.                                                             *)

TakeChunk(t) ==
  /\ forward[t] = "take"
  /\ upstream[t] # <<>>
  /\ carry' = Put(carry, t, Head(upstream[t]))
  /\ assistant' = Put(assistant, t, IF Head(upstream[t]) \in Texts
                                    THEN Append(assistant[t], Head(upstream[t]))
                                    ELSE assistant[t])
  /\ upstream' = Put(upstream, t, Tail(upstream[t]))
  /\ forward' = Put(forward, t, "send")
  /\ UNCHANGED <<clientVars, serverVars, pumpVars, upClosed, out, outClosed,
                 wire, storeVars, llm>>

\* An error is sent on and ends the turn: nothing is stored, out is closed.
SendChunk(t) ==
  /\ forward[t] = "send"
  /\ Len(out[t]) < Cap
  /\ out' = Put(out, t, Append(out[t], carry[t]))
  /\ carry' = Put(carry, t, "none")
  /\ IF carry[t] = "error"
     THEN /\ forward' = Put(forward, t, "returned")
          /\ outClosed' = outClosed \cup {t}
     ELSE forward' = Put(forward, t, "take") /\ UNCHANGED outClosed
  /\ UNCHANGED <<clientVars, serverVars, assistant, pumpVars, upstream,
                 upClosed, wire, storeVars, llm>>

\* The range loop ends: appendAssistant, unless nothing was collected.
StoreReply(t) ==
  /\ forward[t] = "take"
  /\ upstream[t] = <<>> /\ t \in upClosed
  /\ history' = IF assistant[t] = <<>> THEN history
                ELSE Append(history, <<"assistant", t>>)
  /\ forward' = Put(forward, t, "close")
  /\ UNCHANGED <<clientVars, serverVars, carry, assistant, pumpVars,
                 channelVars, wire, prompt, llm>>

\* The deferred close(out).
CloseOut(t) ==
  /\ forward[t] = "close"
  /\ outClosed' = outClosed \cup {t}
  /\ forward' = Put(forward, t, "returned")
  /\ UNCHANGED <<clientVars, serverVars, carry, assistant, pumpVars, upstream,
                 upClosed, out, wire, storeVars, llm>>

-----------------------------------------------------------------------------
(* pumpStream and the LLM behind it.                                        *)

\* A data line with text: processSSELine looks at the context first, and a
\* cancellation that emitChunk's select loses is one that came after it.
ScanText(t, chunk) ==
  /\ pump[t] = "scan"
  /\ t \notin gone
  /\ produced[t] < MaxChunks[t]
  /\ Len(upstream[t]) < Cap
  /\ upstream' = Put(upstream, t, Append(upstream[t], chunk))
  /\ produced' = Put(produced, t, produced[t] + 1)
  /\ UNCHANGED <<clientVars, serverVars, forwardVars, pump, upClosed, out,
                 outClosed, wire, storeVars, llm>>

\* [DONE], or the end of the body without it: close(out), no error.
ScanEnds(t) ==
  /\ pump[t] = "scan"
  /\ upClosed' = upClosed \cup {t}
  /\ pump' = Put(pump, t, "returned")
  /\ UNCHANGED <<clientVars, serverVars, forwardVars, produced, upstream, out,
                 outClosed, wire, storeVars, llm>>

\* A bad line, a read error, the 30 s timeout or a cancelled context: the
\* error is sent without looking at the context, then out is closed.
ScanFails(t) ==
  /\ pump[t] = "scan"
  /\ Len(upstream[t]) < Cap
  /\ upstream' = Put(upstream, t, Append(upstream[t], "error"))
  /\ upClosed' = upClosed \cup {t}
  /\ pump' = Put(pump, t, "returned")
  /\ UNCHANGED <<clientVars, serverVars, forwardVars, produced, out,
                 outClosed, wire, storeVars, llm>>

-----------------------------------------------------------------------------
StreamTurn(t) == ReadText(t) \/ ReadEnd(t)

Handle(t) ==
  \/ Refuse(t) \/ AppendUser(t) \/ StreamFails(t) \/ StreamOpens(t)
  \/ CopyText(t) \/ CopyError(t) \/ CopyDone(t)

ForwardTurn(t) == TakeChunk(t) \/ SendChunk(t) \/ StoreReply(t) \/ CloseOut(t)

PumpStream(t) ==
  \/ \E chunk \in Texts : ScanText(t, chunk)
  \/ ScanEnds(t) \/ ScanFails(t)

Returned(t) ==
  /\ handler[t] = "returned"
  /\ forward[t] \in {"idle", "returned"}
  /\ pump[t] \in {"idle", "returned"}

AllReturned ==
  /\ \A t \in Turns : client[t] = "ended" /\ Returned(t)
  /\ UNCHANGED vars

Next ==
  \/ \E t \in Turns :
       \/ Post(t) \/ StreamTurn(t) \/ Abort(t)
       \/ Disconnected(t) \/ Handle(t) \/ ForwardTurn(t) \/ PumpStream(t)
  \/ AllReturned

Spec == Init /\ [][Next]_vars

\* Runnable goroutines run, and the LLM's stream goes on, ends or times out.
\* The client may stop reading for ever, a new turn may never come and a lost
\* connection may go unnoticed.
Fairness ==
  \A t \in Turns :
    WF_vars(Handle(t)) /\ WF_vars(ForwardTurn(t)) /\ WF_vars(PumpStream(t))

FairSpec == Spec /\ Fairness

-----------------------------------------------------------------------------
(* Properties.                                                              *)

InSeq(m, s) == \E i \in 1..Len(s) : s[i] = m
Words(s) == Only(s, {"word"})

\* A reply the caller heard to its end is part of every later prompt, after
\* the utterance it answers: [DONE] is only sent once the reply is stored.
CompletedTurnsAreRemembered ==
  \A t, u \in Turns :
    outcome[t] = "replied" /\ heard[t] # <<>> /\ t < u /\ prompt[u] # <<>>
      => \E i, j \in 1..Len(prompt[u]) :
           /\ i < j
           /\ prompt[u][i] = <<"user", t>>
           /\ prompt[u][j] = <<"assistant", t>>

\* No reply is stored twice, none without its utterance before it, and none
\* of a turn that failed: a broken stream leaves no half reply in the context.
RepliesAreSound ==
  /\ \A i, j \in 1..Len(history) : history[i] = history[j] => i = j
  /\ \A j \in 1..Len(history) : history[j][1] = "assistant" =>
       /\ \E i \in 1..(j - 1) : history[i] = <<"user", history[j][2]>>
       /\ outcome[history[j][2]] # "failed"

\* What the caller heard of a completed turn are the words of the reply that
\* forwardTurn collected, in order, through three channels; of any other turn
\* it is a prefix of them.
HeardIsReply ==
  \A t \in Turns :
    /\ IsPrefix(heard[t], Words(assistant[t]))
    /\ outcome[t] = "replied" => heard[t] = Words(assistant[t])

\* Who waits on a channel: pumpStream for room in upstream, forwardTurn for a
\* chunk or for room in out, streamTurn for a chunk.
PumpWaits(t) == pump[t] = "scan" /\ Len(upstream[t]) = Cap
ForwardWaits(t) ==
  \/ forward[t] = "take" /\ upstream[t] = <<>> /\ t \notin upClosed
  \/ forward[t] = "send" /\ Len(out[t]) = Cap
HandlerWaits(t) == handler[t] = "copy" /\ out[t] = <<>> /\ t \notin outClosed

\* No goroutine of a request waits on a channel whose other end has returned,
\* an error having ended one of them first, and the three never wait for each
\* other: as long as they have not all returned, one of them runs.
NobodyIsStranded ==
  \A t \in Turns :
    /\ PumpWaits(t) => forward[t] \in {"take", "send"}
    /\ ForwardWaits(t) /\ forward[t] = "take" => pump[t] = "scan"
    /\ ForwardWaits(t) /\ forward[t] = "send" => handler[t] = "copy"
    /\ HandlerWaits(t) => forward[t] \in {"take", "send", "close"}
    /\ handler[t] # "idle" /\ ~Returned(t) =>
         \/ pump[t] = "scan" /\ ~PumpWaits(t)
         \/ forward[t] \in {"take", "send", "close"} /\ ~ForwardWaits(t)
         \/ handler[t] # "returned" /\ ~HandlerWaits(t)

\* An abandoned request leaves nothing running: whether the client reads on,
\* gives up or is lost, and however the LLM's stream ends, the handler,
\* forwardTurn and pumpStream return.  A write to the event stream is assumed
\* to return: the client's deadline closes a connection that is full.
RequestsWindDown == \A t \in Turns : handler[t] # "idle" ~> Returned(t)

\* What the session is promised: Conversation implements Dialogue.  A turn is
\* complete for the caller once [DONE] came after some text.
Log == INSTANCE Dialogue WITH
  log <- history,
  asked <- prompt,
  complete <- {t \in Turns : outcome[t] = "replied" /\ heard[t] # <<>>},
  failed <- {t \in Turns : outcome[t] = "failed"}

KeepsTheDialogue == Log!Spec

-----------------------------------------------------------------------------
(* The inductive invariant behind the properties (ConversationProofs).      *)

User(t) == InSeq(<<"user", t>>, history)
Stored(t) == InSeq(<<"assistant", t>>, history)

\* Turns come one after the other.
OneClient ==
  \A t, u \in Turns : t < u /\ client[u] # "idle" => client[t] = "ended"

\* The four goroutines of a request start and end in this order.
Progress(t) ==
  /\ client[t] = "idle" => handler[t] = "idle"
  /\ client[t] # "ended" <=> outcome[t] = "none"
  /\ handler[t] \in Kinds \cup {"idle", "stream"} =>
       /\ forward[t] = "idle"
       /\ wire[t] = <<>> /\ outcome[t] \in {"none", "aborted"}
  /\ forward[t] = "idle" => assistant[t] = <<>> /\ out[t] = <<>>
  /\ t \in outClosed <=> forward[t] = "returned"
  /\ forward[t] = "send" <=> carry[t] # "none"

\* An utterance is in the store once HandleTurn appended it.
Asked(t) ==
  /\ User(t) <=> prompt[t] # <<>>
  /\ handler[t] \in Kinds \cup {"idle"} => prompt[t] = <<>>
  /\ handler[t] \in {"stream", "copy"} => prompt[t] # <<>>
  /\ forward[t] # "idle" => prompt[t] # <<>>

\* A failure is on its way to the client, or has reached it: forwardTurn has
\* returned, or never ran, and stored nothing.
Failing(t) ==
  \/ InSeq("error", out[t])
  \/ InSeq("error", wire[t]) \/ InSeq("status", wire[t])
  \/ outcome[t] = "failed"

Lost(t) ==
  Failing(t) =>
    /\ ~Stored(t)
    /\ forward[t] \in {"idle", "returned"}
    /\ forward[t] = "idle" => handler[t] = "returned"

\* forwardTurn collected some text: true as soon as any of it is further on.
Speaks(t) ==
  \/ heard[t] # <<>> \/ InSeq("word", wire[t])
  \/ InSeq("word", out[t]) \/ InSeq("blank", out[t])
  \/ carry[t] \in Texts

\* A reply is stored by the time out is closed without an error, so that it is
\* when [DONE] is written and read.
Kept(t) ==
  /\ Stored(t) => forward[t] \in {"close", "returned"}
  /\ Speaks(t) => assistant[t] # <<>>
  /\ InSeq("done", wire[t]) \/ outcome[t] = "replied" =>
       forward[t] = "returned" /\ (assistant[t] = <<>> \/ Stored(t))
  /\ forward[t] = "close" => assistant[t] = <<>> \/ Stored(t)
  /\ forward[t] = "returned" /\ handler[t] = "copy" /\ ~InSeq("error", out[t])
       => assistant[t] = <<>> \/ Stored(t)

TurnInv == \A t \in Turns : Progress(t) /\ Asked(t) /\ Lost(t) /\ Kept(t)

\* No word of the reply is lost or repeated on its way: while the client
\* reads, the words it heard and those in the channels are the reply.
Conserved(t) ==
  heard[t] \o Words(wire[t]) \o Words(out[t]) \o Words(<<carry[t]>>)
    = Words(assistant[t])

\* [DONE] is the last event, and nothing is on its way by then.
Flow(t) ==
  /\ client[t] # "ended" => Conserved(t)
  /\ IsPrefix(heard[t], Words(assistant[t]))
  /\ \A i \in 1..Len(wire[t]) : wire[t][i] = "done" => i = Len(wire[t])
  /\ InSeq("done", wire[t]) \/ outcome[t] = "replied" =>
       handler[t] = "returned" /\ forward[t] = "returned" /\ out[t] = <<>>
  /\ outcome[t] = "replied" => heard[t] = Words(assistant[t])

WordsFlow == \A t \in Turns : Flow(t)

\* The goroutines at the two ends of a channel: the one that writes stays
\* until it closed it, the one that reads until it was closed or failed.
Partners(t) ==
  /\ pump[t] = "scan" => forward[t] \in {"take", "send"} /\ t \notin upClosed
  /\ forward[t] \in {"take", "send"} => pump[t] = "scan" \/ t \in upClosed
  /\ forward[t] \in {"take", "send", "close"} => handler[t] = "copy"
  /\ handler[t] = "copy" => forward[t] # "idle"
  /\ forward[t] = "idle" => t \notin upClosed
  /\ InSeq("error", upstream[t]) \/ carry[t] = "error" => t \in upClosed

AllPartners == \A t \in Turns : Partners(t)

Inv ==
  /\ TypeOK /\ OneClient /\ TurnInv /\ WordsFlow /\ AllPartners
  /\ CompletedTurnsAreRemembered /\ RepliesAreSound

-----------------------------------------------------------------------------
(* What the documents say and the code does not do.                         *)

\* service.go:41: "Final transcripts append user input, stream an assistant
\* reply, and persist it".  The reply that is persisted is the one streamed.
PersistsWhatItStreams ==
  \A t \in Turns :
    outcome[t] = "replied" /\ InSeq(<<"assistant", t>>, history)
      => heard[t] = assistant[t]
=============================================================================

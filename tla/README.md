# Verification of the AI voice platform

TLA+ models of the voice platform in this repository, checked with TLC, and
theorems about them, proved with TLAPS. `PROJECT.json` lists the components,
the runs, the source lines every definition stands for, the hazards and the
theorems.

## The system

A caller's browser joins a LiveKit room; `voice-gateway` joins the same room as
a bot. The bot decodes the caller's microphone, streams it to Deepgram, hands
every final transcript to `ai-orchestrator` over HTTP, receives the reply as
server-sent events, has Deepgram speak it sentence by sentence and publishes
the audio in the room. A caller who speaks during a reply interrupts it.

| Part | State it keeps | Operations | Hard behaviour |
|---|---|---|---|
| reply pipeline (`roombot/turn.go`, `reply_audio.go`, `stt_pipe.go`) | `turnMu`, the armed clip (`cancel`, `track`, `pub`, `room`, `playing`), `speakState` per turn | `handleFinal`, `PlayOgg`, `Interrupt`, `maybeBargeIn` | readers, turns and the bot call `Interrupt()` at the same time; it acts on a snapshot; `select` between done and cancelled |
| speech-to-text stream (`stt/deepgram`, `stt_pipe.go`, `audio/pcm`) | `done`, `events`, `err`, two `sync.Once`, one mutex, the websocket | `WritePCM`, `Close`, `fail`, `readLoop`, `readTranscripts`, `audioTrack.close` | four goroutines close the same stream; a Once and a mutex taken in two orders |
| conversation (`ai-orchestrator`: `httpserver`, `conversation`, `llm/openai`; gateway: `orchestrator/httpclient`) | the messages of a session, three goroutines and two channels per request | `HandleTurn`, `forwardTurn`, `pumpStream`, `streamTurn`, `StreamTurn` | an abandoned request goes on while the next one runs; bounded channels; errors in the middle of a stream |
| sentence splitting (`roombot/sentence.go`) | the unfinished text | `Push`, `Flush` | arbitrary chunk boundaries |
| audio tracks of a room (`roombot/track.go`, `bot.go`) | map of track id to pipeline | subscribe, unsubscribe, `closeAll` | a subscription that takes seconds races with its end, the ends of earlier subscriptions of the track and the bot's leaving |
| sessions, HTTP server, process (`session`, `httpserver`, `cmd`) | the root context | `POST /v1/sessions`, shutdown | goroutines nobody waits for |
| text-to-speech client, tokens, configuration, resampling, tone | none | one call each | - |
| quality gate (`tools/quality`) | the changed files and violations of one run | list, analyse, compare, report | four versions of a file (merge-base, HEAD, index, working tree); git commands that fail; moved files, duplicate names |
| voice prototype (`apps`) | one room | connect, disconnect | failed connect |

`api-gateway`, `call-service`, `pkg`, `proto` and `deployments` hold no code.

What makes each part correct: one clip is heard at a time and a barge-in ends
it; a stream that is closed or dies leaves nothing running, closes no channel
twice and loses no queued transcript; a prompt is the whole log up to the
utterance it answers, and every completed reply is part of the later ones; the
sentences spoken are the reply; each audio pipeline is closed by one goroutine
and callers are heard while they are subscribed; the gate fails for a function
that is worse than on the merge-base, and for nothing else. Where the code
falls short of these, the findings and the exceptions named below say how.

## Modules

| Module | What it is |
|---|---|
| `SpeakerFloor` | abstract: one turn holds the floor, says numbered clips one at a time, is hushed or yields |
| `TurnPipeline` | the reply pipeline of a room; implements `SpeakerFloor` |
| `TurnPipelineProofs` | theorems about it |
| `DeepgramStream` | one speech-to-text stream and the goroutines around it |
| `DeepgramStreamProofs` | theorems about it |
| `Dialogue` | abstract: the log of a session, what is asked of the LLM, answered, completed, lost |
| `Conversation` | the turns of a session between gateway and orchestrator; implements `Dialogue` |
| `ConversationProofs` | theorems about it |
| `GatewayRoom` | sessions, joining and leaving, the map of audio tracks, the end of the process |
| `GatewayRoomProofs` | theorems about it |
| `SentenceBuffer` | cutting a streamed reply into sentences |
| `SentenceBufferProofs` | theorems about it |
| `Subsequence` | the elements of a sequence that are in a set |
| `SubsequenceProofs` | induction over numbers and sequences, and lemmas on selecting and flattening |
| `QualityGate` | one run of the quality gate |
| `QualityGateProofs` | theorems about it |
| `MC...` | the instances TLC checks |

### TurnPipeline

Actors are the microphone readers, one `handleFinal` goroutine per final
transcript (the turns) and the bot. `pc[a]` is where an actor is. `armed` and
`playing` are the fields of `replyPlayback`; a clip is named by its turn and
the number of its sentence, as every sentence gets a fresh LiveKit track, and
`published`, `cancelled`, `closed` and `complete` are the sets of clips with a
publication, a cancelled `playCtx`, a closed track and a closed `done` channel.
`Interrupt()` is three steps, as in the code: a snapshot under the mutex, then
`cancel()`, then `Close` and `UnpublishTrack`. `waitPlayout` is two actions,
`PlayoutDone` and `PlayoutStopped`, both possible when both cases are ready.
Services that are not configured are in `services`; `speakState.ignored` is
never set in the code and does not appear. LiveKit's track writer is the
external action `WriteComplete`: it fires at the end of a clip or once the
track is closed. What a reply says is left out; how it is cut is
`SentenceBuffer`.

Refinement: `floor` is the owner of `turnMu`, `voice` the audible clips
(published, not closed, not complete, in a room the bot has not left) and
`uttered` everything ever published.

### DeepgramStream

The writer is the PCM decode loop, the reader `readLoop`, the consumer
`readTranscripts` and the closer `audioTrack.close`. `once`, `write` and
`pipeOnce` hold the goroutine inside; a `sync.Once` makes later callers wait
for the first, which is why `CloseEnter` needs it free and `CloseAgain` needs
it finished. A channel is a number of queued transcripts and a closed flag.
`conn` is the websocket: open, ended by Deepgram, reset by the network, or
closed by us. Reads of `s.err` and writes to it are separate steps in any order,
as no lock orders them. A `WriteMessage` is assumed to return eventually,
although the code sets no write deadline.

### Conversation

`client`, `handler`, `forward` and `pump` are the four goroutines of a request,
`upstream`, `out` and `wire` the two channels and the event stream between
them. Turns are posted one after the other, as `handleFinal` holds `turnMu`,
but a client that aborts leaves the other three running. A chunk is a word,
white space, or an error; what else it says does not matter. `history` is the
store's message list without the system prompt, a message being a role and the
turn it belongs to. Only one session is modelled: sessions share the store's
lock and nothing else. A restart of the orchestrator loses the store, as its
documentation says, and is not modelled. `MaxChunks[t]` bounds the stream of
each turn by itself, so that one turn can fill the channels while another is
short.

Refinement: `log` is `history`, `asked` the prompts, `complete` and `failed`
the turns whose client read `[DONE]` or an error. What `Dialogue` allows and a
reader might not expect is what the code allows: an abandoned turn may be asked
and answered after a later one.

### GatewayRoom

`start[s]` is where `startAudioTrack` is for subscription `s`, `pipe[s]` its
`trackCtx` and `stream[s]` its Deepgram stream; `entries` is the map of
`trackSet`. `remove` and `closeAll` take entries under the lock and close them
after it, in steps of their own: `target[s]` is what the end of `s` closes,
`leaving` what the bot still has to close. The signal cancels `rootCtx` and in
the same step every `trackCtx`, which derive from it; a subscription that comes
later has a cancelled context from the start and its dial fails. The callbacks
come from LiveKit, which is external: a track's end may come while its start
still dials Deepgram, and a track may be subscribed again while the callback of
its last end is still running; it is not subscribed twice without an end
between. `Exit` is possible at any time, as `main` waits for nobody.

Four history variables say what became of a pipeline: `displaced`, a later
`add` replaced its entry; `late`, it was added after its own end had looked for
it; `mistaken`, the end of another subscription of the track took it;
`orphaned`, it is in a map that no `closeAll` takes. They name what the model
shows the code to do wrong, and the properties say that it does nothing else
wrong:

- `remove` goes by the id and does not look whose entry it takes. An end that
  comes after its track was subscribed and added again closes the live
  pipeline, and the caller is not heard any more (the exception of
  `StillHeard`).
- A pipeline leaks, with its Deepgram stream, in three ways
  (`OnlyKnownLeaks`): `add` replaced its entry; its track ended before it was
  added, so that it stays until the bot leaves; or it was added after
  `closeAll`, or before a `connect` that then failed, and nobody closes it.

### SentenceBuffer

A character is its class (letter, stop, closer, space, newline, which is a
space and a stop) and its position, so that two equal letters differ.
`Boundary` and `SplitSentences` translate the scan; `Push` and `Flush` are the
two operations, with the speaking that follows each of them. The scan is a
function of the position where the next sentence starts, which the proofs can
reason about by induction.

### QualityGate

One run of the command, from `loadConfig` to the exit code; `step` is the next
call. The inputs are a request (`.quality.yaml`, `--fail-on`, `--base`) and a
repository: three trees and an index, which do not change during the run.
What a file measures is an input too, per metric the values in declaration
order: several if the file has several functions of a name. `changed` is the
list `gitChangedGoFiles` builds or `collectGoFiles` walks, `violations`
`Result.Violations`, `unread` the files in `ParseErrors` and `missing` those
`git show` gave no base version of. Any call to git, to the file system or for
the report may fail, as it does in the code: with exit code 2, as a parse
error, or without a word (`blind`). The root is taken to be the top of the
repository, as it is by default. Left out are the paths git quotes, which no
diff of the gate lists.

Four things the tool's README says are narrower in the code, and the
properties say where. "Only NEW degradations fail the gate" has an exception in
`PassMeansNoWorse`: functions that share a name are compared with the last of
them on the base (`diff.go:95`), so that one of them may become worse and pass;
the property then says only that this last one was as bad. "Unchanged legacy debt does not fail the PR" has the
exceptions of `FailMeansWorse`: a moved file, a failed `git show`, and functions
that share a name. "Lists changed `.go` files" has those of `PassMeansNoWorse`:
a committed path with a space, and a failed `git diff HEAD`. "Ignored: vendor/"
holds of the walk, not of a comparison, whose `Watched` files include them.

## Runs

| Run | Instance | Shows |
|---|---|---|
| `turn_pipeline` | 2 microphones, 2 turns, 2 sentences each | type and inductive invariant, `OneVoice`, `ArmedByOwner`, `TurnsCutNobody`, `BargedInStaysSilent`, `WholeReplyOnlyIfSilent`, refinement of `SpeakerFloor` |
| `turn_pipeline_live` | 1 microphone, 2 turns, 1 sentence, 1 interim | `EveryTurnReturns` |
| `barge_in_resumes` | one reply | finding: `BargeInEndsReply` fails |
| `utterance_order` | two finals | finding: `UtterancesInOrder` fails |
| `deepgram_stream` | channel of 2, 4 transcripts | type and inductive invariant, `OneConnWriter`, `NoDoubleClose`, `NothingLeftBehind`, `CycleIsForever`, and that everything winds down unless the lock cycle closes |
| `deepgram_deadlock` | the same | finding: `TrackCloseReturns` fails |
| `conversation` | 2 turns, 3 and 1 chunks, channels of 1 | type and inductive invariant, `CompletedTurnsAreRemembered`, `RepliesAreSound`, `HeardIsReply`, `NobodyIsStranded`, `RequestsWindDown`, refinement of `Dialogue` |
| `reply_spacing` | 1 turn, 3 chunks | finding: `PersistsWhatItStreams` fails |
| `gateway_room` | 3 subscriptions of 2 tracks | type and inductive invariant, `EntriesLive`, `OneCloser`, `StillHeard`, `OnlyKnownLeaks`, `EndedTracksAreClosed` |
| `sentence_buffer` | all replies of 5 characters, all divisions into chunks | `NothingLost`, `NoSentenceWaits`, `SpeechFollowsReply` |
| `sentence_flush` | 3 characters | finding: `FlushSpeaksTheRest` fails |
| `quality_gate` | one file with every history and of every kind of path, one with legacy debt, 8 requests | `PassMeansNoWorse`, `FailMeansWorse`, `FullScanFindsAll` |

Why the bounds are enough. Two turns are one that speaks and one that waits for
`turnMu`, two microphones are two concurrent barge-ins, two sentences are one
interrupted and one that follows; a third of either repeats a case. Microphones
are symmetric in the safety run, which checks no liveness. A capacity of 1 or 2
instead of 16 makes the channels fill. A transcript more than fills the events
channel. Three subscriptions of two tracks are one that comes back and one
beside it: a late start can meet its own end and its successor, and a late end
its successor's entry. Five characters hold two sentences, or one with a closer and a space.
Three chunks with channels of 1 fill both channels and leave one in the pump's
hands. The gate treats files one by one but for the verdict, which one file
may decide alone: the second file is what the first must not be blamed for.
Values up to 4 over thresholds 1 and 2 have every band, and a worse value in
the worst. The models are capped by `NumTurns`, `MaxSentences`, `MaxInterims`,
`MaxTranscripts`, `MaxChunks`, `NumSubs` and `MaxLen` and by nothing else.

Fairness. Goroutines that can run do run, and blocking calls return: the
orchestrator call has a deadline, text-to-speech and publishing are HTTP or
signalling calls assumed to return, LiveKit's writer reaches the end of a
track, the LLM's stream ends or times out, and a write to the event stream
returns, as the client's deadline closes a connection it does not read. Nothing is assumed of the world
outside: transcripts, samples, a client that reads, the loss of a connection,
leaving and shutdown may come or not. A `sync.Once` or mutex is only fair as
far as the action that takes it stays enabled, so a deadlock stays one. The
decode loop is assumed to end once its context is cancelled, as the remote
track has ended or delivers packets.

## Findings

1. **An interrupted reply can go on** (`barge_in_resumes`, `reply_audio.go:168`).
   `Interrupt()` cancels the clip's context and closes its track, and closing
   the track completes `done`. If both happen before the turn waits in the
   `select`, Go may take `done`; `PlayOgg` then reports a played clip and the
   next sentence follows.
2. **Utterances may be handled out of order** (`utterance_order`,
   `stt_pipe.go:105`).
3. **Closing a stream can deadlock with a failing write** (`deepgram_deadlock`,
   `deepgram.go:161`): `stream.once` then `stream.write` on one side,
   `stream.write` then `stream.once` on the other. `CycleIsForever` is proved:
   nothing opens the cycle again. So is `NoOtherCycle`: it is the only way in
   which the goroutines of a stream can all wait for each other.
4. **White space between chunks is lost in speech** (`reply_spacing`,
   `server.go:115`), though not in the stored reply.
5. **`Flush` drops text** (`sentence_flush`, `sentence.go:28`). What is proved
   of it: after `Flush` the whole reply was spoken exactly if the rest has one
   part at most (`FlushSpeaksOnePart`).

## Proofs

`TurnPipelineProofs` proves for any set of microphones and any bounds: `Inv` is
an invariant, and with it the type invariant, `OneVoice`, `ArmedByOwner`,
`TurnsCutNobody`, `BargedInStaysSilent`, `WholeReplyOnlyIfSilent`, and that
`TurnPipeline` implements `SpeakerFloor`. `OneVoice` is not inductive: it needs
that a turn is inside `handleFinal` exactly when it owns `turnMu` (`OwnerInv`),
that the waiting turn's clip is the armed one (`ArmedInv`), that every clip
named anywhere was published and the next one is fresh (`ClipInv`), and that
finals wait in one reader only (`HandlingInv`). Each conjunct has a lemma with
one step per action. From the assumptions `BoundsAreNat` and
`NamesAreDistinct` only.

`DeepgramStreamProofs` proves for any capacity and number of transcripts:
`Inv`, the type invariant, `OneConnWriter`, `NoDoubleClose`,
`NothingLeftBehind`, and `CycleIsForever`. `OnceInv` ties the Once to the
channels (they are closed exactly as far as its caller has come), `WriteInv`
the mutex to the labels, and `HolderInv` says where the goroutine inside the
mutex or a Once can be. From it follows `NoOtherCycle`: when a goroutine waits
and the cycle of finding 3 is not closed, one of the goroutines that hold a
lock does not wait. It is the safety half of `WindsDownOrCycle`.

`GatewayRoomProofs` proves for any subscriptions and tracks: `Inv`, the type
invariant, and every property of the `gateway_room` run. The strengthening is
that a pipeline agrees with where the callbacks of its subscription are
(`SubsInv`), that closers hold only what had been in the map, and what another
end took is on record (`TakenInv`), and that an entry whose own end has looked
for it came late, and one that no `closeAll` is going to take is on record
(`EntriesInv`). With `OnlyKnownLeaks` it follows that an end which does not find
its own pipeline leaves it closed or in other hands (`EndedInv`). From the
assumptions on the constants only.

`ConversationProofs` proves for any number of turns, any number of chunks of
each and any capacity of the channels: `Inv`, the type invariant,
`CompletedTurnsAreRemembered`, `RepliesAreSound`, `HeardIsReply`,
`NobodyIsStranded`, and that `Conversation` implements
`Dialogue`. `Inv` speaks of one turn at a time
(`TurnInv`): how far its goroutines are (`Progress`), whether its utterance was
asked (`Asked`), whether an error is on its way (`Failing`, `Lost`) or `[DONE]`
(`Speaks`), and what the store then keeps (`Kept`). A step of a turn leaves the
other turns' parts alone but for the store, to which it adds messages of its
own turn only; that is one lemma, and each action needs one more.
`HeardIsReply` needs to know where the words are (`WordsFlow`): while the client
reads, those it heard, those in the event stream, in `out` and in
`forwardTurn`'s hands are in this order the words collected (`Conserved`), and
`[DONE]` is the last event. `NobodyIsStranded` is the safety half of
`RequestsWindDown`: whoever waits on a channel has a partner that is still at
its other end, also after an error ended one of them, and not all of them
wait. It follows from `AllPartners`: the goroutine that writes to a channel
stays until it closed it, the one that reads until it was closed or failed.

`SubsequenceProofs` holds what these proofs and the next need of sequences. The
library's induction theorems have an operator as parameter; here induction over
numbers (`NatInduct`) and over sequences (`SeqInduct`) is stated for a set,
from the well-foundedness of `<`, which suffices wherever a property selects a
subset of the numbers or sequences at hand. `PrefixRecursion` and
`LaterRecursion` give that a function defined by recursion over smaller or over
larger positions exists and satisfies its equation. With these, selecting
(`Only`) and flattening (`FlattenSeq`) are shown to distribute over
concatenation.

`SentenceBufferProofs` proves for replies of every length and every division
into chunks: the type invariant, `NothingLost`, `NoSentenceWaits`,
`SpeechFollowsReply`, and the action property `FlushSpeaksOnePart`. The four
invariants together are inductive (`Inv`). Trimming a piece of text takes only
white space from it (`TrimSolid`) and is done after once (`TrimTwice`). By
induction over the start of the next sentence, from the end of the buffer
down, the sentences split off and the rest are together the buffer but for
white space, and no end of a sentence lies in the rest (`Keeps`,
`SplitKeeps`). An end of a sentence in the rest, taken by itself, would be one
in the buffer, as only what follows a position decides whether it is one
(`RestHasNoEnd`), so splitting the rest again yields nothing.

`QualityGateProofs` proves for any repositories, thresholds and requests:
`Inv`, the type invariant, and the three properties of the run. `Inv` says at
each step which of the changed files are listed (`ChangesListed`,
`EverythingListed`), that the violations are those of the files read, marked
against the base (`Measured`), and that the exit code is theirs (`Verdict`).
The properties follow from what one value of one file contributes
(`ReportedValue`, `ReportedOnly`), and from the fact that a tracked file no diff
lists is as on the merge-base (`UnlistedIsUnchanged`). From the assumptions on
the constants: typed inputs, and that only a file that parses measures
anything. `Inv` is not in the run's list, which holds what a user of the gate
would ask; on the run's instance TLC finds it to hold as well.

Only model-checked: liveness under fairness, which is out of the prover's reach
(`EveryTurnReturns`, `RequestsWindDown`, `WindsDownOrCycle` and
`DeathIsNoticedOrCycle`). Every safety property of a passing run is a theorem.
`FlushSpeaksOnePart` and `NoOtherCycle` are theorems that no run lists; TLC
finds them to hold on the instances of `sentence_buffer` and `deepgram_stream`,
and the second follows from conjuncts of `Inv`, which that run checks.

## Not modelled

Verification tone, resampling, tokens, configuration and the voice prototype:
one call each, with no state that the rest shares. Parsing of requests, of
Deepgram's and of the LLM's JSON: a message is what the receiver does with it.
`SendTurn`, which only tests call. A restart of either process beyond its end:
neither persists anything. Torn reads of `stream.err`, a two-word interface
value that no lock guards. What the gate measures: the metrics of
`analyzer/metrics.go` count nodes and lines of Go's syntax tree and keep no
state; their values are inputs of `QualityGate` (one of them is not what its
comment says: a line of code with a comment behind it is not counted, as
`markComments` excludes every line a comment touches, `metrics.go:65`). The
formats of its reports.

## Plan

1. A composition of `TurnPipeline` with `Conversation` on one turn: what the
   store holds against what the caller heard when a reply is interrupted.
2. The metrics of `analyzer/metrics.go` as operators on an abstract syntax tree,
   against a reference definition.
3. The next sentence as `TurnPipeline` says it: a refinement of the abstract
   reply that composes `SentenceBuffer` with the turn that speaks.

# TLA+ models of hellogrok

hellogrok is a local proxy between Grok Build and model providers. While it
runs it lends Grok Build's `config.toml` its own endpoints, forwards every
request to the channel it belongs to, repairs what the providers get wrong, and
gives the user's configuration back when it stops. This directory holds TLA+
models of its parts, the TLC configurations that check them on small instances,
and TLAPS proofs of what matters most.

## 1. The system

| Component | State | Operations | Behaves badly when |
|---|---|---|---|
| recovery transaction (`internal/cfgpatch`, driven by `cmd/hellogrok`) | `config.toml`, the rewrite state file | apply, update, restore, relinquish | the user edits the file meanwhile, an operation fails, the process dies between two file operations |
| application (`cmd/hellogrok/main.go`, `internal/tray`) | running flag, listener, workers, queues | start, stop, shutdown, tray clicks, signals | operations overlap, workers outlive the state they write |
| server (`internal/proxy/server.go`) | enabled flag, listener, lifecycle context, upstream connections | reserve, serve, enable, disable, stop | requests are admitted while it is being disabled, a dial ends after the sweep |
| timeouts (`upstream_timeout.go`, `stream_content_watchdog.go`) | timers and their generations | read, expire, close | the timer fires while the answer arrives |
| request recovery (`facade.go`, `facade_recovery.go`, `absorb.go`) | per request: body, decider flags, absorb window | attempt, wait, rewrite, dispose | failures of different families alternate, a stop falls between an attempt and the decision about it |
| dead-channel breaker (`breaker.go`) | per channel: failures, open, probe | allow, recordSuccess, recordFailure, reset | requests that started in another phase report late, a probe never reports |
| Responses stream (`server.go`, `responses_hold.go`, `response_ids.go`) | held frames, item ids, sequence numbers, terminal flag | per frame | the stream ends, stops or fails at any frame |
| translated streams (`facade_stream.go`, `facade_response.go`) | open items, pieces of calls, pending searches | per frame, or one body | blocks end twice or never, calls come in pieces, a search ends in several places |
| native streams (`chat_stream_rectifier.go`, `stream_tool_rectifiers.go`, `thought_gate.go`) | held calls, open blocks | per frame, or one body | the stream ends while something is held |
| inline think (`inline_think.go`) | a buffer and a mode | feed, flush | a tag is cut by the border of a delta |
| capacity (`internal/capacity`, `main.go`) | observed limits by source, a queue, a worker | observe, merge, update | observations meet in the queue, an update fails or finds other settings |
| Grok session refresh (`internal/groksync`, `main.go`) | a pending request, retries | queue, take, retry | a newer request replaces one being retried |
| reasoning provenance, context usage guard | memories of a conversation, one of them a file | capture, filter, flush; observe, prune | requests overlap, the process dies before a flush, reports come late |
| requests and tool compatibility (`facade_request.go`, `tool_compat.go`), routes, preferences, autostart, desktop | data and small files | convert, save | input of another shape |

How they interact: `App.Start` restores what an earlier run left behind, loads
the routes, applies the recovery transaction, hands the routes to the server and
enables it; `App.Stop` disables the server (which cancels every upstream
request), restores the configuration and closes the listener. A request handler
asks the breaker, then loops over attempts under the recovery decider; an attempt
waits under the two timers for its upstream, and the answer goes through one of
the streams. Its observations go through a queue to a worker of the application,
which may update the configuration through the recovery transaction and then asks
the other worker to tell Grok Build's sessions. Breaker, memories, transaction and
App are shared by all handlers; decider, absorb window and stream belong to one.

What makes each part correct is stated next to its model, in sections 3 to 11.

## 2. Modules

| Module | Models | Checked by | Proved in |
|---|---|---|---|
| `Breaker` | one entry of `breakerStore`, its handlers, stop and start | `MCBreaker` | `BreakerAndWorkersProofs` |
| `ConfigPatch` | `ApplyTargets`, `Restore`, `Relinquish` and their callers | `MCConfigPatch` | `ConfigPatchProofs` |
| `Recovery` | the attempt loop, `recoveryDecider`, `absorbState` | `MCRecovery` | `RecoveryAndConversationProofs` |
| `AppLifecycle` | `Start`, `Stop`, `Shutdown`, the background workers, the tray and the signal handler | `MCAppLifecycle` | `AppLifecycleProofs` |
| `EventStream` | what the client of any stream is promised (abstract) | refined by `ResponsesStream`, `NativeStream`, `ItemStream` | |
| `ResponsesStream` | `streamResponsesSSE`, its hold, item ids and thought gate | `MCResponsesStream` | `ResponsesStreamProofs` |
| `ItemStream` | what the client of a translated stream is promised (abstract) | refined by `TranslatedStream` | `TranslatedStreamProofs` |
| `StreamTranslation`, `MessagesTranslation`, `ChatTranslation`, `BufferedAnswer` | the handlers of a Messages and of a Chat frame, and of a whole body, as sets of outcomes | with `TranslatedStream` | `TranslatedStreamProofs` |
| `TranslatedStream` | the scan, the writer, the watchdog and the end around them | `MCTranslatedStream` | `TranslatedStreamProofs` |
| `FrameBurst` | what a rectifier makes of a frame: its state, an error, and what is written and in which order | with `NativeStream` | |
| `ChatRectifier`, `MessagesRectifier` | what is held back, dropped and put in order on a native stream | with `NativeStream` | |
| `NativeStream` | `streamNativeSSE` and the end it makes up | `MCNativeStream`, `MCNativeStreamText` | `NativeStreamProofs` |
| `InlineThink` | `inlineThinkState` | `MCInlineThink` | `TranslatedStreamProofs` |
| `UpstreamBody` | `doUpstreamRequest` and `idleTimeoutReadCloser` with their timers | with `Server` | |
| `Server` | the facade's life and its upstream connections around `UpstreamBody` | `MCServer` | `ServerProofs` |
| `SessionRefresh` | the refresh worker and its queue | with `Workers` | |
| `Workers` | the capacity worker, its queue, cache and updates, composed with `SessionRefresh` and what they see of the App | `MCWorkers` | `BreakerAndWorkersProofs` |
| `ReasoningIndex`, `UsageGuard` | the two memories | with `Conversation` | |
| `Conversation` | overlapping requests of one conversation, crashes and starts around the two memories | `MCConversation` | `RecoveryAndConversationProofs` |

Three modules of proofs hold two parts each: breaker and workers, which serve the
whole process; request recovery and the memories, which serve its requests; and
the translated streams, and the splitter of think spans they use.

The `MC` modules only give constants their values. Some definitions are what the
one below them would be with a plausible bug; they are used nowhere,
`PROJECT.json` names them under `mutants`, and they show that a property can
tell the difference. Every number and set below that bounds a run is a constant
or is named in an `MC` module.

## 3. The dead-channel breaker

State: the channel's entry (`failures`, `open` for a set `openedAt`, `probing`),
with the ages of `openedAt` and `probeStarted` instead of the times. An age
counts only up to the period it is compared with, so the model has no bound on
time. `enabled` and `live` are `Server.enabled` and the lifecycle context;
`req` is where each handler is and the copy of the policy it was handed.

Each critical section of `breakerStore` is one action (`Pass`, `Probe`,
`FastFail`, `RecordSuccess`, `RecordFailure`); what the handler does between
them (`Bind`, `Answer`, `DialFail`, `OnRequestError`) are actions of their own,
so the report of a failure may come long after the failure. `Disable` and
`CancelUpstream` are separate because `Server.Disable` clears the flag before it
cancels. `Enable` includes the reset of the breaker and the reload of the route.

- `ProbesLeaseApart`: probes through an open breaker are at least a lease apart.
  A stray failure clears the probing flag of somebody else's probe; it is safe
  because it re-arms the cooldown as well, and only because `Lease <= Cooldown`
  (2 and 5 minutes in the code), which is the assumption the proof uses.
- `OpenAfterStreak`: an open breaker stands for at least a threshold of failures
  since the last response reported or reset.
- `NeverLatched`: an open breaker always lets another probe through, if a client
  keeps retrying an opted-in route.

`MCBreaker.cfg` has two handlers (one reports late while the other probes; the
proofs cover any number), thresholds 2 and 3 and an opted-out route, cooldown 3
and lease 2. Fairness:
time passes; handlers run on (a header timeout or the client ends an attempt
that hangs, `Abandon`); `Disable` completes and the user enables the proxy
again; Grok Build keeps sending requests.

`BreakerAndWorkersProofs` proves the type invariant, `ProbesLeaseApart` and
`OpenAfterStreak` for any handlers, policies and periods. The strengthening of
the former relates the three ages: while the breaker is open and probing, the
lease runs since the last probe, and while it is open and not probing, either
the cooldown is younger than the last probe or no probe is within the lease.

## 4. The recovery transaction

State: `config.toml` as its form (valid, broken, missing) and the content of
each managed field; the state file as one `ManagedLineState` per field; the
operation hellogrok is in, with its locals (`op`). `wants` is a history
variable: what the user last wrote in each field, as far as hellogrok ever read
it. It is what a restore should bring back.

Every read, write, comparison, rename and removal of `ApplyTargets` and
`Restore` is a step. Between any two the user may type (also half an
assignment, `Torn`), delete or create the file, a file operation may fail, or
the process may crash. `MaxEvents` bounds these.

One model table is kept, and fields by their kind: `Base` is always rewritten,
`Fill` only while the user has none, `Optional` may be overridden by the user
without failing validation, `Lent[f]` are the values hellogrok may project:
one for most fields, several for a window that capacity learning updates.

- `StableRecoverable`: no crash, failure or edit strands a field whose projection is fixed.
- `NoRouteCaptured`: the state file never takes a local route for the user's endpoint.
- `OriginalsFrozen` (proved only): a recorded original does not change while it is recorded.
- `RecordClears`: when edits, failures and crashes cease, retrying clears the
  record, or a local route that nobody recorded blocks it.

`MCConfigPatch.cfg` checks four fields, one of each kind, and up to three events
in any place: a crash in an update, an edit and a failing rollback in one
behaviour (the proofs cover any number of them). Fairness: the operation in progress takes its next step; the
user keeps trying to stop or to run `hellogrok restore` (strong fairness, as
either may be disabled now and then by an operation in progress).

`ConfigPatchProofs` proves all three safety properties and the type invariant
for any fields, values and number of events. `StableRecoverable` is not
inductive: the invariant adds what the locals of the operation in progress
guarantee at each step: what the record that was read covers, what the record
to be written will cover both before and after the rename, and which of the two
is on disk at which step. `NoRouteCaptured` rests on an invariant about the
endpoints of the running proxy and about what a valid configuration may hold when `Load` has passed.

Where the code and what is said of it part:

- A capacity update records the new projection before it writes it (patch.go:533).
  After a crash between the two, `Restore` sees neither the original nor the
  recorded projection, takes the old one for an edit, and leaves it behind
  (patch.go:125 says the recorded values find what is ours). That is why
  `StableRecoverable` speaks of fixed projections only.
- The rollback after a failed validation (patch.go:798) does not compare before
  it writes, and overwrites an edit made in between (README.md:122 of the
  repository says edits are kept).

## 5. Request recovery

State: `body` and `originalBody` as what a rewrite can take away from them
(images, opaque reasoning, the `include` a strict upstream rejects, undeclared
tool fields) and whether the completion limit was clamped; the four persistent
flags of `recoveryDecider`; the `absorbState`, with the time spent so far. A
reply is what the decisions read: how far the attempt came, status,
`X-Should-Retry`, the verdict of `classifyStructuredRetry`, the complaint and
`Retry-After`. The upstream may answer anything in `Reply` at any attempt.

Actions are the branches of the loop in `forwardFacade`: `Receive` is the
attempt; `Respond`, `Refuse`, `HoldCut`, `OnRequestError`, `OnSuccessEnvelope`,
the four rewrites, `Dispose` and `DisposeHeld` are what follows it; `Wake` and
`Interrupted` end a wait. `Disable`, `CancelUpstream`, `Enable` and
`ClientLeaves` happen between any two of them.

- `WindowKept`: the waits of one request never exceed its window.
- `AnsweredUnlessCancelled` (proved only): only a cancelled request ends in silence.
- `RewritesAreFresh`: a rewrite never sends a body that was sent before, so complaints cannot make the rewrites go in circles.
- `LimitKept`: a clamped completion limit survives every later rewrite.
- `Terminates`: every request ends, under weak fairness of the attempt (header
  and idle timeouts end it), the handler and the wait.

`MCRecovery.cfg` has a window of 3 ticks, into which two waits fit and the last
one is cut; it has a failure for every branch, attempts of 0 or 2 ticks, routes
with and without a window, and bodies with everything and with nothing to
strip. A request that has ended stops, so deadlock is not checked.

`RecoveryAndConversationProofs` proves the type invariant and the four safety properties for
any routes, replies and windows. `WindowKept` is strengthened by what a wait in
progress may still take, `RewritesAreFresh` by the ranks of the bodies sent:
every rewrite takes something away that the original body still has, and the
flags remember which. `AnsweredUnlessCancelled` needs that a context is only
ever cancelled by a stop or by the client, and `LimitKept` that the clamp is
never in the original body.

One sentence of the documentation does not hold: a held stream that fails after
a reasoning recovery is disposed of under the verdict of that earlier attempt and
not retried (facade.go:248, against README.md:68 of the repository).

## 6. The application

State: `mu` is `App.mu` with its holder, `pc` where the four threads are (the
tray's operation, the signal handler, the tray loop that runs Exit, the exit
callback of the tray library), `running`, the facade's listener and its enabled
flag, whose endpoints `config.toml` holds, the worker generation the App knows
(`bg`), the cancelled generations and the workers of each.

A lock is held over the steps that the code makes under it; a thread that waits
for it is simply not enabled. `Restore`, `ApplyTargets` and the rest of the
recovery transaction are one step that succeeds or fails (section 4 has what
happens inside). `stopBackgroundWorkers` is `Cancel`, `Join` (or `parked` and
`Woken`) and `Clear`, because other threads run between them. One `WaitGroup`
counts the workers of all generations: the last `Leave` wakes who waits, and a
waiter that finds the group used again panics, as Go's does.

- `ProjectedIsAnswered`: until the exit, endpoints in the config are answered.
- `WorkersInReach`: workers that run are the ones the next stop cancels.
- `OperationsEnd`: while nothing fails, a tray operation ends, although it joins
  workers that need the lock and a signal or Exit may stop the App as well.

`MCAppLifecycle.cfg` allows everything: the tray, Exit, signals, failing starts
and stops. Four generations are enough: two threads can hold on to one each, the
App to another, and one must be free. Fairness: threads and
workers run on, and a worker that looks at a cancelled context again and again
leaves at last (Go's `select` is fair in that sense).

`AppLifecycleProofs` proves the two safety properties for any number of
generations. `WorkersInReach` needs to know that a generation a thread has read
(`seen`) is cancelled, which lets `Clear` forget it. `ProjectedIsAnswered` needs
`FacadeInv`: the lock is held exactly at the places under it, the loop that
still runs has not started its Shutdown, and, as long as nobody has told the App
to exit, a running App serves, a start has the facade ready by the step that
projects, and projected endpoints belong to an App that runs or to a start about
to say so. A Shutdown can only get past its Stop after that.

Two sentences of the repository's README do not hold: Exit may wait for workers
that a deferred stop started again, forever (main.go:836, README.md:392), and a
start that overlaps Exit projects endpoints nobody restores (main.go:1248,
README.md:127). `ProjectedIsAnswered` therefore ends with the exit, and
`OperationsEnd` with the first failure.

## 7. The Responses stream

`EventStream` is the promise: the client gets one stream of events, numbered
without a gap, opened and closed at most once, with no visible reasoning after
the answer's text; or one plain HTTP error. `ResponsesStream` is the handler:
it reads frames, holds the first ones back (`queue`, up to
`maxResponsesHoldFrames`), releases or withholds them, and then handles one
frame at a time. `client` is what the client was shown, over all attempts; it
is the refinement mapping, and `ClientSeesOneStream` says that it behaves as an `EventStream`.

A frame is what the handler decides on: its kind, the output index and id it
names, and one flag (for a terminal event: is its envelope valid). The upstream
may send any frame at any time. The other variables are the locals of
`streamResponsesSSE`: `terminal`, `events`, `deferred` (finished searches
without sources, put off until the terminal event), `registry` (item ids by
output index), `gate` (text was seen, items dropped), `seen` (what a made-up
terminal event would need) and `failed` (the stream's error and whether it was
a write). `live` is the context of the upstream request: the client's departure
ends it, and so does a stop of the proxy, after which a write may still get
through. `Retry`, `PassThrough` and `Vanish` are what `forwardFacade` does with
a withheld attempt; which of them it chooses is section 5 and free here.

- `ClientSeesOneStream`: the counter starts again with every attempt and also
  counts failed writes, but what is shown has neither gap nor repetition.
- `IdsApart`: the client knows each slot under one id of its own, although upstreams reuse, change and omit ids.
- `DropsOnlyLate` (proved only): the gate remembers dropped items by id, and still drops only items that began after text.
- `SearchesReported`: no terminal event, also a made-up one, overtakes a search that was put off.
- `AnsweredUnlessInvalid` (proved only): a live request ends in a terminal event or an error.

`MCResponsesStream.cfg` has two slots, two ids the upstream uses and one made
up for each slot, every kind of frame, a hold of two frames, three frames per
attempt (an item, text and a late thought; or a hold that overflows) and two
attempts; heartbeats are not counted. Longer streams only repeat the relations
between these, and the proofs cover any length. A request that has ended stops,
so deadlock is not checked.

`ResponsesStreamProofs` proves the type invariant, the refinement and the four
invariants for any frames, slots, ids and bounds. The refinement needs that
`events` is the client's number while no write has failed and that the gate has
seen text whenever the client has; `IdsApart` and `DropsOnlyLate` need an
invariant about the registry: a slot is shown only under its registered id,
registered ids differ, and every late slot has one.

Two sentences do not hold: a terminal event that fails its validation is
swallowed, and no error event replaces it (server.go:665, against line 97 of the
CHANGELOG); and heartbeats alone keep a native Responses stream open for ever
(server.go:757, against CHANGELOG:29), because the content watchdog of the other
streams is not started here.

## 8. The other streams

### Translated from Messages and Chat

`ItemStream` is the promise: an event stream that speaks of output items, each
announced under the next index, with at most one content part around its deltas,
done once and silent afterwards, and none left open by a terminal event. Each of
its actions is one of `EventStream` with something added, so its clients get what
the clients of all streams get.
`TranslatedStream` has the two handlers' common frame: the scan, the writer
whose every event may fail once the request is cancelled, the watchdog in a
goroutine of its own, and what is said at the end when the upstream says nothing.
A frame's handler is an operator from the state to the set of its outcomes (state,
events, error), a set because the order of a Go map decides some: those of
`messagesStreamState` are in `MessagesTranslation`, those of `chatStreamState` in
`ChatTranslation`. The events of an outcome are then written one by one.
Where the end of a stream loops over blocks, searches or calls, one turn of the
loop is a step (`Continue`), taken when the events of the turn before are written.
`BufferedAnswer` is an upstream that ignored `stream=true`: its body becomes
items, block by block (`Convert`), and these are replayed, one in each turn.

- `ClientSeesItems`: the refinement of `ItemStream`.
- `CallsReported`: a completed answer has reported every call and every search
  the upstream began, also those that waited for a name, arguments or sources.
- `StreamEnds`: a stream that is over, cancelled or watched ends, and who has
  stayed has its end. An unwatched one whose upstream sends heartbeats for ever need not.

`MCTranslatedStream.cfg` has two blocks or two calls, a search id both blocks may
name, three frames in any order, and every body of two blocks or of three whose
order matters. Three frames bring every pair of states together in which a block,
call or search can be when the next frame or the end arrives. Assumed of the
upstream: deltas name blocks that are not stopped, and two search calls have
different ids. Fairness: the handler runs, the watchdog's timer expires, and a
body that ends is noticed.

`TranslatedStreamProofs` proves `ClientSeesItems` and `CallsReported` for any
blocks, calls, frames and bodies, under the same assumption on the upstream, and
that an `ItemStream` without its items is an `EventStream` (`ItemsAreEvents`). Its
notion of what a client has seen is a view: the items, whether text was seen, and
the end. An event suits a view if the stream may go on with it there, and a
sequence of events leads from one view to the next (`Leads`). The invariant:

- the events that are yet to be written lead from what the client has seen to a
  view that fits the handler's state (`Fit`): every item in it is done, or the
  state knows it as the open item of one block, part, call or search and nothing
  else; before an answer of one body is replayed to its end, its first items are
  shown and the others unknown;
- the state can still account for what the upstream announced: each call is an
  item that is done, an open one, or one that `finish` has yet to begin, and while
  a body is converted its items and what is held of it account for the blocks taken;
- which of a handler's places agree with which of its flags: a write that failed
  leaves nothing to write, and the scan goes on only while no end was emitted.

An outcome therefore has to show only where its own events lead, a sequence of
calls in a handler (`Then`) leads where its parts do, and `Emit` is one proof for
every event of every handler. `CallsReported` follows at the one event that may
end a stream well: it suits a view only when no item is open, and the state that
emits it has nothing left to report.

### Passed on as Chat or Messages

`NativeStream` is `streamNativeSSE`: each frame goes through rectifiers that hold
back the tool calls until they are complete, drop visible reasoning after text
and the blocks of hosted searches, and split think spans (`ChatRectifier`,
`MessagesRectifier`). What comes of a frame is a burst (`FrameBurst`): some frames,
then the calls or blocks that were held, in the order of their index, then what
has to wait for them; it is written frame by frame, and any write may fail.
`client` also records what became of each block.

- `ClientSeesOneStream`: the refinement of `EventStream`.
- `BlocksInOrder`: a block or call is started once, then continued, then stopped, and nothing of a dropped one is shown.
- `CallsReported`: a completed answer has shown every call the upstream finished.
- `EndStands`: who stays sees the end, and only the watchdog's error may follow it.
- `TextArrives` is refuted by `MCNativeStreamText.cfg`: when a chunk brings text
  together with a tool call or a finish reason, `mergeChatThinkDelta` deletes the
  text that was just released (chat_stream_rectifier.go:81).

`MCNativeStream.cfg` has two calls, one of a tool that requires arguments, two
blocks, five frames in any order (a call in pieces, another between them, and
the end) and every body of up to three blocks. The blocks of the upstream are
started, continued and stopped in order, as its protocol demands, and its timer
does not fire once the client has seen the end.

`NativeStreamProofs` proves the refinement and the three invariants for any calls,
blocks, frames and bodies, under the same assumption on the upstream. The
invariant has three parts:

- what is written next is in order behind what the client has and within itself:
  a block starts once and before its continuation, a held one is shown from
  its start, thoughts come before texts, and an end is the last;
- what the client will have once it is written (`Reached`) agrees with what the
  rectifier remembers: an open block is open there, a dropped one unknown, a
  held one not begun, and a text is noted, which is why the gate may rely on its
  own flag;
- the end the handler believes in is one that the client has, or will get with
  what is written next (`EndInv`), and by then a call the upstream finished has
  been shown or is in that burst.

So every handler answers for its own burst only, and writing a frame is one proof
for all of them.

Seen on the way: the calls held when DeepSeek reports
`insufficient_system_resource` are written after `[DONE]` (`EndStands` allows
it); Messages blocks still held when a `message_stop` has to be made up are lost,
though CHANGELOG:72 says they are flushed at the end (`CallsReported` asks for
those that were stopped); `noteLateDiscard` is never reached in a stream; the content of
`message_start` passes no gate. A Messages body whose first text is led by
`<think>` is refused with 502: thought_gate.go:340 inserts a thinking block
without a signature and facade_response.go:626 then asks for one, although
CHANGELOG:201 says such blocks are peeled out. A thinking block without text
is dropped together with its signature. On translated streams the watchdog may
report an error although the answer's end was read (facade_stream.go:757, against
the comment at 1248, which wants no error for a turn that is finished).

### Inline think

`InlineThink` splits `<think>` spans out of a text that arrives in deltas. A
text is a sequence of tokens, a tag is two of them, so that a delta may end
inside one; letters are told apart by their place, and whatever the code holds or
hands on of the text is a set of places, read in order. Each turn of `feed`'s loop
is an action.

- `EveryLetterOnce`: every letter is handed on once, in order (`shown.ordered`), as reasoning or text.
- `LeadingSpanApart`: what a span at the head encloses is never shown as text.

`MCInlineThink.cfg` has every answer of up to six words (letter, quote, either
tag) under every cut: two spans, a stray tag, and text around them. A stray
`</think>` ahead of a whole span, and a span after visible text whose end comes
in a later delta (inline_think.go:191, against CHANGELOG:63), are shown as text;
the properties do not speak of them.

`TranslatedStreamProofs` proves both for any text and any cuts. The invariant keeps the
books (what was handed on, as either, and what is buffered are apart, the latter
lies behind, and every letter is in one of them) and knows the head: until the
span that may begin there is cut out, everything is in the buffer, and afterwards
everything shown as text or buffered lies behind its end.

## 9. The server and its upstream connections

State: of the facade `enabled`, the lifecycle context by number and which of
them are `dead`, `lifecycleMu`, the connection tracker (`gate`, `registered`, the
`sweep` that `CloseAll` copied), its socket and HTTP server by number, and where
each thread is in `Enable`, `Disable`, `Serve` or `Stop`; the tray's operation runs
under `App.mu`, the exits do not. Of a request: where `doUpstreamRequest` is, its
header timer, the body with the generation of its idle timer and the timers that
elapsed but have not run (`due`), and its connection. A timer elapses in one
step and its function runs in a later one.

- `StoppedIsSilent`: when the facade refuses and nobody is switching it, no
  connection it could have closed is open, also one dialled during the sweep.
- `EnabledIsLive`: a facade that admits has a live context and an open gate.
- `SocketIsKnown`: the socket that listens is the one a stop closes, although `Stop` clears what it read before it waited.
- `HeaderTimerSparesBody`: the header timer never cuts a response that has come.
- `ChunksArrive`: data taken off the connection reaches the handler.
- `OwnTimerOnly`: a body times out by the timer of the Read under way only.
- `RequestsEnd`: every admitted request ends, whatever its upstream does.

`MCServer.cfg` has one request with two attempts and one Read that brings data,
the tray and one exit, and two contexts, sockets and servers: one stop and the
start after it overlap with an exit and every step of the request. The proofs
cover any number of each. Fairness: operations, handlers and timers go on;
`Bind`, which takes `lifecycleMu` to read, strongly, because a waiting reader of
Go's `RWMutex` gets it before the next writer.

`ServerProofs` proves the type invariant and the six safety properties. The
invariant has one part per request (what the header timer, the body and its
timers can be at each place of the handler; an open connection is tracked, about
to be, or in a sweep under way) and one for the facade: a closed gate leaves
nothing tracked, a facade that refuses with an open gate is being switched, and
before any exit begins whatever the tray does leaves an admitting facade alive.

Seen on the way: a request admitted before a `Disable` may bind after the next
`Enable` to the fresh context; handlers may still run when `Stop` has returned;
an exit that overlaps a start may leave an enabled facade with a dead context, or
a recorded server without a socket (hence the condition of `EnabledIsLive`); an
end of the body in the moment of the idle timer is reported as a timeout. A
server that was never served and is replaced keeps its number.

## 10. Capacities and sessions

`Workers` has the queue of observations (`capacityPending`, merged per model, and
the signal after it), the worker's `batch`, the `cache`, the user's settings in
`config.toml` with those at the start (`route`), and what is managed and written.
An update of `config.toml` is one step that succeeds or fails. It is composed
with `SessionRefresh`: the queue of one request, the delays and attempts of the
worker, and which configuration each session works with. `want` is a history
variable, every observation merged as it came; `gaveUp` has the sessions a
refresh failed for or that stayed busy to the last attempt.

- `EvidenceKept`: cache, batch and queue together amount to every observation
  taken one by one.
- `RoomLeft`: once all evidence is in, the projected window is the learned one,
  and the threshold in effect leaves room for the output and the margin; but for
  models whose last update failed or that the user has edited since the start.
- `SessionsCatchUp`: when the refresh worker rests, the sessions it did not give
  up work with the present configuration.
- `QueuesDrain`: again and again both workers have nothing left to do.

`MCWorkers.cfg` has one model with three possible observations (a limit
reported, a smaller one, a request that was accepted) and two settings, one session, two
attempts (18 in the code), three changes and two observations: one is queued
while the other is applied, in any order with a start, an edit, a stop and a stop
that fails. Fairness: workers, starts and stops go on; a cancelled worker
leaves at last, though its `select` may take a signal first.

`BreakerAndWorkersProofs` proves `EvidenceKept`, `RoomLeft` and `SessionsCatchUp`
for any number of models, sessions, observations and attempts. The first rests on merging being
associative (`MergesAssociate`): a merge of two observations may take the place of
both only because a source outranks the same values before and after. `RoomLeft`
rests on an invariant about every model that was not edited while the App runs:
its settings are those of the start, and unless its last update failed the
projection is what `ApplyTargets` makes of them and of the cache; a threshold that
is managed is at most the share of the window that leaves the room (`SafeShare`),
whatever the window. `SessionsCatchUp`
rests on an invariant, too: who lags is still to be told by a queued request, the
refresh under way or the next attempt, and a refresh under way tells the present
configuration unless another request is queued.

Seen on the way: an update that fails after the cache has learned is not tried
again for the same evidence; a stop whose restore fails forgets queued
observations and refreshes (`want` and `gaveUp` say so); a busy session is not
tried again once the App stops; a value that is observed again keeps its old date.

## 11. The memories of a conversation

`Conversation` is one conversation of Grok Build that changes channels: requests
that overlap, each with at most one opaque reasoning item in its answer, which
Grok Build replays with every later request; reports of usage; exits, crashes
and starts; failing reads and writes. `ReasoningIndex` is the provenance store
(`entries`, `dirty`, the `file`), `UsageGuard` the baseline of bytes to tokens per
channel, kept as a pair so that all comparisons are of integers.

- `CleanMeansSaved`: an index that says it is clean is on disk, whichever handler flushed for whom.
- `OwnNeverDropped`: a channel's own items are never removed from its requests.
- `FlushedStaysFiltered`: what a successful flush stood for is never sent to another channel, until it is evicted or an unreadable file replaced.
- `MeterFollowsHonest`: after an honest report that was checked nothing inflated
  is shown on the channel, and only a report more than a quarter above it is
  suppressed. Two exceptions are the code's. A report nobody checks is shown as it
  is: a request whose opaque items were rejected is sent again without guard and
  session key (facade_recovery.go:204), one may come without a session's identity
  (facade.go:58), and native Messages have no check; the repository's README says at
  line 587 that every report is checked. And a body under 3/4 of the last passes
  for a rewritten context, also when it is that of an older request which is late.

`MCConversation.cfg` has three requests on two channels (one that captures before
it writes, one after), an index of two items, so that one is evicted, two lives
of the process, and three kinds of conversation: one in which every answer brings
an item, those with three reports, all of them checked or but those of one request,
and those with an item and three reports, so that a recovered request reports
between two that are checked. Requests are symmetric.

`RecoveryAndConversationProofs` proves the type invariant and the four properties,
for any number of requests, channels and items and any limit. The invariant of
the first three:
every record, in memory or on disk, names the one channel of the request that
brought the item, and what was promised is in the file and, while the process
runs, in memory. That of `MeterFollowsHonest`: the baseline is a pair of bytes and
of a multiple of them that was shown last, so that to compare two reports is to
compare their multiples. Unchecked reports leave the baseline alone, which is why
they do not open the way for later ones.

Seen on the way: an under-report becomes the baseline; a late report of a request
under 3/4 of the size resets it; an index that could not be
read starts empty and overwrites the file at its next flush. In translated
streams an item is delivered before it is captured.

## 12. Proved and only checked

Proved for all constants: the theorems listed in `PROJECT.json`, from the named
`ASSUME` of each module alone.

Only model-checked:

- liveness (`NeverLatched`, `RecordClears`, `Terminates`, `OperationsEnd`,
  `StreamEnds`, `RequestsEnd`, `QueuesDrain`): the prover handles neither
  fairness nor `ENABLED`;
- the refuted sentence `TextArrives`.

## 13. Not modelled

- Parsing, formatting, hashing, logging, windows and dialogs: no state that interleaves.
- The adaptation of requests to another protocol and the compatibility of tools
  (`facade_request.go`, `tool_compat.go`, `patch.go`): JSON of one shape becomes JSON
  of another, without state; their order of tool calls and results is the next candidate.
- Routes, preferences, log retention, autostart: small files read and written as a whole.
- Of modelled parts: the reuse of idle connections; `managedIdleTimeouts`; the
  expiry of a cached limit while the program runs; `GROK_AUTO_COMPACT`; the
  refresh of sessions that were relinquished; more than one choice in a Chat
  chunk; the texts, usage values and sources events carry.

## 14. Plan

1. `ToolHistory`: the pairing of calls and results in an adapted request, against a reference definition;
2. Responses bodies that are not streamed, with the sources filled in later;
3. preferences and log retention across a change of day.

# Weft SDK: formal models, checks and proofs

TLA+ models of the stateful core of the Weft SDK (`src/packages`), the TLC
instances that check them, and theorems that TLAPS proves for every value of
their constants.  Paths below are relative to the repository unless they name a
file of this directory.  In short:

| area | modules | checked by TLC | proved by TLAPS |
|---|---|---|---|
| session reducer | `RuntimeState` | inside the two runtimes | effects of its actions, with each runtime |
| abstract queue of turns | `TurnQueue` | as a `PROPERTY` of both runtimes | no message is sent twice, by either runtime |
| eager runtime (Claude, Codex, CLI fallback) | `EagerRuntime` | safety, liveness, refinement | types, refinement of `TurnQueue`, single flight, mirror, true state (`EagerRuntimeProofs`) |
| deferred runtime (Flitro) | `DeferredRuntime`, `RunServer` | safety, liveness, refinement, replay | types, refinement of `TurnQueue`, single flight, mirror, true state, no call of the past (`DeferredRuntimeProofs`) |
| abstract turn of a driver | `TurnDriver` | as a `PROPERTY` of both drivers | refined by both drivers |
| Codex driver and JSON-RPC client | `CodexDriver` | safety, liveness, refinement, death of the process | types, approvals, names, late items dropped, refinement (`CodexDriverProofs`) |
| Claude driver | `ClaudeDriver` | safety, liveness, refinement | types, one conversation, one verdict, refinement (`ClaudeDriverProofs`) |
| from the server to the screen | `SseStream`, `Timeline`, `ChatSession` | folds, framing, catch-up, liveness | types, nothing is lost, doubled or out of order, no cursor runs ahead (`ChatSessionProofs`) |
| event processor, grouping into turns | `EventProcessor`, `Filters`, `TurnGrouping` | safety, two scans against each other | types, one message for each text, call and bubble, states that are shown (`EventProcessorProofs`) |
| webhooks, retries and history | `RetryQueue`, `Automations`, `Filters` | safety under crashes, liveness | types, nothing is lost, repeated by crashes only, the history within its limits, both limiters, `Automations` implements `RetryQueue` (`RetryQueueProofs`) |
| tokens of sources | `TokenRefresh` | safety, action property, liveness | types, outcome, rationing (`TokenRefreshProofs`) |

## 1. The system

Weft embeds a chat with an agent in an application.  A *host* (a React hook or
an Electron main process) holds an `AgentRuntime` and calls its commands; a
*provider* (Flitro over HTTP, Claude or Codex in a local process) does the work
and reports it as *timeline envelopes*, each with an epoch and a seq; the chat
folds the envelopes into what is shown.

    host / chat hook --commands--> scaffold --sendMessage, abort, respond--> driver --> provider
          ^                          |  ^                                      |
          |                 dispatch |  | appendEnvelope                        |
          |                          v  |                                      |
          +---- subscribe ------- reducer + local timeline <---- stream -------+

### Components

**Session reducer** (`runtime-core/src/state.ts`).
State: status, accepted and queued messages, the permission request waited for.
Operations: one pure case per action.
Correct when a late signal of a turn cannot overwrite `failed` or `disposed`,
and when `complete` takes the queue in order.

**Runtime scaffold** (`providers/src/shared/runtime-scaffold.ts`).
State: the reducer's state, `pendingQueue`, the disposed flag and, for Flitro,
the epoch, replay mode, the seen keys, the suspended tools and the fallback
timer.  Operations: preflight, sendMessage, abort, respondToPermission, dispose,
armReplay, and the folding of every envelope.
Two modes.  *Eager*: the promise of `driver.sendMessage` is the turn, and when it
settles the queue is drained.  *Deferred*: a send is a POST that returns at
once, and the terminal envelope drains.
Hard: every await is a gap in which other commands and envelopes come in; one
queue is kept in two places; a history that is replayed must not be acted upon.
Correct when no message is sent twice or out of order, at most one is in flight,
both copies of the queue agree, no status is stuck and no parked message is
stranded.

**Drivers** (`providers/src/claude`, `codex`, `flitro`).
State: the active query, turn or run, open permission requests, pending turns.
The driver appends items and settles the promise; the Codex driver also talks
JSON-RPC to a child process.
Hard: abort during the start of a turn, a notification that overtakes the
response of its request, the death of the process.
Correct when every send settles once, after its items.

**Timeline stream** (`providers/src/flitro/client/timeline-stream.ts`).
State: cursor and epoch, the abort controller, the reconnect timer and its
backoff.  Correct when no envelope is skipped, however the stream breaks and
however the text is cut into chunks.

**Timeline** (`timeline/src/index.ts`) and **chat session hook**
(`chat/src/use-agent-chat-session.ts`).
State: the buffered envelopes, the batch of a frame, the processed keys, the
cursor of the catch-up, the two folds.  Hard: the server restarts under a new
epoch while a batch waits, a fetch answers after newer events, the effect runs
again at each render.  Correct when folding a batch equals folding its events
one by one, when the incremental merge equals the full one, and when a catch-up
neither loses nor repeats.

**Event processor** (`ui/src/processor`, `ui/src/chat/turn-grouping.ts`).
State: the messages of a session and the text of the streaming state.
Operations: one handler per event.  Hard: results before starts, background
work that outlives its turn, a user's message queued behind a turn, late
completions of reasoning, messages found by their text.  Correct when each text
and call has one message of its own, each user message one that only its
repetitions share, when what has ended is shown so, and when the display
leaves nothing out.

**Automations** (`automations/src`).  Webhooks with deferred retries in a queue
file, a history file with compaction, an event bus with a rate limit, a
scheduler.  Correct when a queued webhook survives until its end is recorded,
attempts are bounded, and writes to one file do not overwrite each other.

**Tokens of sources** (`sources/src/token-refresh-manager.ts`,
`credential-manager.ts`).  State: the credential in the store, the status in
the source's configuration, `pendingRefreshes` of the process, `failedAttempts`
of each session.  Hard: calls of several sessions coincide while the provider
rotates what a refresh presents, and an answer may be lost after the rotation.
Correct when refreshes are made one at a time and outside the cooldown, and
every call is told what the store holds.

**Others**: policy (pure rules), source and skill files, host services, CLI
parsers, rendering.  `PROJECT.json` lists every one with its status and the
reason where it is not modelled; its `hazards` list names what is hard to test,
line by line, with the property that would catch it or the reason why there is
none.

## 2. Modules

### RuntimeState

The reducer as one operator per action on a record.  `lastError` is left out
because no branch reads it.  An empty message is the constant `Blank`: the code
tests the head of the queue for truth, so an empty string counts as no message.

### TurnQueue

The abstract promise: a message is committed at most once, parked messages
leave in the order they came, a cancelled or refused one never comes back.
Three variables (`queue`, `sent`, `fate`) and five actions.

### EagerRuntime

| model | code (`runtime-scaffold.ts` if not said) |
|---|---|
| `SendCall`, `SendRefused`, `SendResume` | `commands.sendMessage` before and after `await ensureDriver()` |
| `DrainEagerQueue`, `DrainResume` | `drainEagerQueue`: the shift, and the call after its await |
| `TurnAsks`, `TurnRuns`, `TurnCompletes`, `TurnFails` | the items a driver appends, folded by `syncStateFromTimelineItem` |
| `TurnResolves`, `TurnThrows` | the promise of `driver.sendMessage` settles; `reportSendFailure` |
| `Respond`, `RespondReturns` | `respondToPermission`, before and after the driver |
| `AbortCall`, `DisposeCall`, `Preflight` | the commands of these names |

An action is the code between two awaits.  What hosts and drivers may do beyond
a plain turn is the constant `Env`: calling abort, preflight or dispose at any
time, several prompts at once, a driver that stays pending after `turn_failed`
(`slow`) or resolves after it (`swallow`, as the Claude driver does).

### RunServer and DeferredRuntime

`RunServer` is the Flitro server as the client relies on it: runs, a durable log
of items, cancellation, restarts under a new epoch.  It is not part of the
repository.  `DeferredRuntime` is the scaffold in deferred mode with the Flitro
driver and the tool bridge:

| model | code |
|---|---|
| `SendCall`, `ResolveSession`, `SendResume` | `sendMessage`, `ensureResolvedSession` (scaffold 574-613, 481-491) |
| `PostArrives`, `PostReturns`, `PostFails` | `sendToFlitro`, the driver's `sendMessage`, `sendDrained` |
| `Deliver`, `Redeliver` with `Ingest` | `appendEnvelope`, `ingest` (311-379) |
| `SyncReplayState`, `SyncLiveState` | the functions of these names |
| `DrainOnCompletion`, `ArmReplay` | `drainOnCompletion`, `armReplayInternal` |
| `ArmedByHost`, `ArmedByTimer` | `armReplay`; the fallback timer of a suspended call |
| `Respond`, `ReplyArrives`, `ReplyReturns` | `respondToPermission` and the server's side |
| `ToolSubmits`, `Fired` | `handleToolSuspension` |
| `AbortCall`, `AbortResume`, `AbortReturns` | `abort`, the driver's `cancelRun`, its answer |
| `DisposeCall`, `DisposeReturns` | `dispose`, and the stream's end after it |

Between the first await of `sendMessage` and its POST only microtasks run (the
Flitro session and driver resolve without I/O), so no timer and no answer of the
network comes in: `NextTask`.

`history` is how much the log held when the server last restarted.  Both timers
that end a replay, the host's and the fallback, start again with every item, so
they fire within the history only if the stream pauses for half a second
(`stalls`, guard `Settled`); a send in the middle of it (`midway`) is the host's
choice, for nothing in `sendMessage` asks.

### TurnDriver, CodexDriver, ClaudeDriver

`TurnDriver` is what the eager scaffold relies on: a call of
`driver.sendMessage` settles at most once, terminal items come only while it is
pending, a call that throws has not completed, one that resolves has not failed
(unless the driver swallows failures).  Its actions are the guards under which
`EagerRuntime` lets a driver act.

`CodexDriver` (`codex/app-server-driver.ts`, `app-server-client.ts`) holds the
driver, the client's map of pending requests and both directions of the pipe as
sequences:

| model | code |
|---|---|
| `SendCall`, `ResumeReturns`, `StartReturns`, `TurnReturns` | `sendMessage` between its awaits (404-478) |
| `Ask`, `Reject`, `Timeout`, `ReadResponse`, `Refused` | the client's `request`, its timer, `handleLine` |
| `ReadTool`, `ReadEnd`, `FinalizeTurn`, `Named` | the notification handlers, the filter of aborted turns |
| `ReadAsk`, `Judge`, `Respond`, `Answered` | approvals, by the policy or the host |
| `AbortCall`, `Dispose`, `Close`, `Forgotten` | `abort`, `dispose`, the exit of the process |
| `ServerTakes`, `ServerAsks`, `ServerCalls`, `ServerEnds`, `Serve` | the process (external) |

`ClaudeDriver` (`claude/native-sdk-driver.ts`) is the loop over the messages of
a query with the callbacks of the SDK beside it:

| model | code |
|---|---|
| `SendCall`, `LoadReturns`, `StartQuery`, `WarmQuery`, `Finally` | `sendMessage` (260-308) |
| `ReadMessage`, `ReadEnd`, `ReadThrows` with `Project...` | the `for await` and what each SDK message becomes |
| `HookCalled`, `HookReturns` | the PreToolUse hook (384-472) |
| `CanUseTool`, `JudgeReturns`, `Withdraw`, `Respond` | `canUseTool` (661-717), `respondToPermission` |
| `Abort`, `Dispose`, `CloseReturns` | the commands of these names |
| `Says`, `Calls` | the SDK (external) |

### SseStream, Timeline, ChatSession

`Timeline` has the pure functions: the merges of `timeline/src/index.ts`, the
two folds of a batch in the hook, and the framing of the SSE text.  A merge keeps
the newest entry of each key and puts each where it belongs by the number of
kept entries before it (`SortTimeline`); the folds are recursive functions over
the prefixes of a batch.  Both forms are what the provers can follow.  `SseStream`
is the fetch stream with its cursor and reconnect timer, and the server as it
relies on it.  `ChatSession` composes them: what the stream receives passes the
intake of the runtime (`Receive` with `Ingest`), the listener (`Emit`), the batch of a
frame (`Flush`), a render (`Commit`: the effect's cleanup disconnects and the
effect connects again), the catch-up after a close (`OnClose`, `CatchUp`,
`CatchUpReturns`, `CatchUpFails`) and the timer that arms the runtime
(`ArmReplay`).  An SSE stream broken and reconnected (`Breaks`,
`ScheduleReconnect`, `ReconnectTimer`, `Opens`), a restart of the server
(`Restarts`), `Close` by another subscriber, a local report (`Preflight`) and
`Dispose` may come between any two of them.

### Filters

`Filter(s, T)` is `Array.prototype.filter` with a test for membership.  The
provers do not look into `SelectSeq`, so it is a recursive function over the
prefixes of `s`, about which facts are proved by the least counterexample.  The
history of the automations and the local part of a timeline use it.

### EventProcessor, TurnGrouping

`EventProcessor` has one operator per handler of `ui/src/processor/handlers`
(`TextDelta`, `TextComplete`, `ToolStart`, `ToolDelta`, `ToolResult`,
`Backgrounded`, `TaskCompleted`, `Complete`, `HandleError`, `Interrupted`,
`UserMessage`, `Aside`, `AuthRequest`, ...) and an agent that sends their
events in the orders `event-mapper.ts` and the handlers' comments allow.  The
comparison of texts and timestamps by which `UserMessage` takes a bubble for that
of another message is the constant `Echo`, the messages that have one text and
are less than 5 seconds apart (`Stands`).
`queue` says what became of a user's message that was sent while a turn ran:
`queued` until a turn has completed, `waiting` from then on (its bubble is no
longer marked), then `processing` or `dropped`.
`TurnGrouping` is `turn-grouping.ts`: messages into turns, and the quick
backward scan for a later tool against the plain one.

### RetryQueue

The webhook handler (`Execute`, `Executed`, `Enqueue`), the tick of the retry
scheduler (`ReadQueue`, `Retry`, `Record`, `Truncate`, `WriteQueue`) and
crashes (`Crash`), over the set of entries of the queue file.  Rewriting is two
steps, because `writeFile` truncates first.  A crash forgets what is in memory.
`Env` grants `overlap` (webhooks fail while a tick is under way) and `torn` (the
process stops between truncation and writing).

### Automations

`Automations` EXTENDS `RetryQueue` with the history file both the handler and the
scheduler append to: `AppendEntry` (whose turn it is in the promise chain of
`withMutex`), `RunCompaction` in its two halves, `Restart` (counters are in
memory).  `Emit` and `Allow` are the two rate limiters, functions of a sequence
of times, with `Window` and `Limit` as constants; they are checked by
themselves over all sequences of a few times, and proved for all of them,
because what they refuse has no other effect than an entry of the history.

### TokenRefresh

| model | code |
|---|---|
| `Call`, `UseToken`, `AskForToken`, `Settle` | `ensureFreshToken` between its awaits |
| `Resolve`, `Refreshed` | `refresh` and the shared promise in `pendingRefreshes` |
| `DoRefresh`, `RefreshReturns`, `Renewed`, `RefreshFails`, `NothingToRefresh` | `doRefresh`, by refresh token or by the renew endpoint |
| `Authenticated`, `Delete`, `ClearCooldown`, `Expire` | the commands of these names, the passing of time |
| `Issue`, `Grant`, `Deny`, `Lose`, `HostSaves`, `Restart` | provider and host (external) |

### Slips

A definition that no other refers to, such as `MustParkWhileRunning` before
`MustPark`, is the same code with a plausible mistake.  Put in the place of the
definition after it, it makes the property `PROJECT.json` pairs it with fail:
every checked property can be broken by a change of the code.

## 3. Runs

`tlc -workers 2 -config X.cfg M` in this directory.  Deadlock is not checked in
any run: a session in which every message has settled and the host sends no
more has really stopped.  `Env` of each module names what hosts, providers and
the environment may do beyond the plain course; a run grants a part of it.

### Runs that pass

* **EagerPlain** (`MCEagerRuntime`; 3 messages, 2 prompts).  A host that sends
  and answers, a driver that throws once it has reported a failure, a runtime
  that may have no driver.  `SingleFlight`, `QueueMirrorsReducer`, `StateIsTrue`
  (what is shown as accepted was sent, no busy status without a turn, an open
  prompt is the one shown, a failure is reported once), and `QueueDrains`.
  Three messages are the least for which one runs, one is drained and one
  waits; two prompts the least for an answer that comes when the next prompt is
  open.
* **EagerFull** (3 messages, 1 prompt).  Every kind of `Env` together: the
  scaffold implements `TurnQueue` whatever hosts and drivers do.
* **DeferredLive** (3 messages, no replay: the epoch is the configured one).
  Turns that ask or fail and POSTs that are rejected: `SingleFlight`,
  `QueueMirrorsReducer` and `StateIsTrue` (when all is delivered the status
  tells the outcome of the last turn).
* **DeferredReplay** (2 messages, 2 epochs).  The server restarts at any moment
  and serves its history again, items come more than once, runs suspend and
  fail.  `ExecutedOnce`: a suspended call is executed, when the fallback timer
  fires or the host arms, and once for each time the server serves it open; no
  call is that the log at the restart, or an item delivered since, has resolved.
  `QueueDrains`: a parked message leaves unless the runtime fails or replay mode
  lasts for ever; no host is obliged to arm.  Within the history nobody sends and
  no timer fires: with `midway` or `stalls` in `Env`, TLC finds `ExecutedOnce`
  violated (below).
* **DeferredFull** (2 messages, a first epoch that is not the configured one).
  Abort, dispose, preflight, failures, cancelled runs, rejected and lost POSTs,
  foreign runs: the scaffold implements `TurnQueue`.
* **CodexLive** (2 messages, a configured thread).  Aborts of running turns,
  disposal, approvals, tool calls, failing and slow requests, a process that
  dies: the driver implements `TurnDriver`; an approval is answered once and the
  items of a turn carry one name (`NamesAndAnswers`); for a turn that was aborted
  or has completed no terminal item is appended, and its tool call is shown as it
  was (`LateItemsDropped`, an action property; not its approval, see below); sends
  settle and approvals are answered (`NothingHangs`).  Two messages are the
  least for a late line of one turn to meet the other.
* **ClaudeLive** (2 messages).  Calls judged by the hook or by `canUseTool`,
  prompts nobody need answer, failing turns and queries, aborts, disposal, a
  query warmed up: `OneConversation`, `JudgedOnce`, `ImplementsTurnDriver`, and
  what was aborted or disposed of ends (`NothingHangs`).
* **ProcessorFull** (2 turns, the call of a subagent and its parent, 2 queued
  messages with one text less than 5 seconds apart, up to 4 messages before the
  agent starts nothing new; the two messages are symmetric).  `OwnMessages`, `StatusIsShown`, `AllShown`.  Two
  turns are the least for an event of one to be taken for the other's; parent
  and call the least for nested work; two messages the least for one that waits
  while the other is processed.  The two share a bubble (`Echo = {u1, u2}`), and
  have none in common with the messages that open the turns; the run passes with
  `Echo = {}` too, and the theorems hold for any `Echo`.
* **ChatLive** (2 items, 2 epochs, a break, an attempt to reconnect).
  `NothingLost` (the transcript is of one epoch, in order, complete but for what
  came while nobody listened; the timeline holds the same; local reports survive;
  neither the stream's cursor nor the hook's is ahead of what was taken),
  `CutsAgree` (a batch folds as its events one by one; any cut of any text of up
  to 5 characters over CR, LF and another gives the same frames),
  `EventuallyShown`.  One fetch is enough: with
  `Fetch = {f1, f2}` the run passes too, and never are two of them under way,
  since this runtime connects its stream once and a timer starts a fetch after
  the end of the last.
* **AutomationsLive** (2 webhooks, 2 attempts, a crash, a history of 2 entries
  with 1 run per automation).  `NeverLost`; `RequestsBounded` (as many requests
  as allowed and one more for every crash, both limiters admit at most their
  number in a window); `HistoryKept`; `WorkEnds`.  The least sizes at which a
  compaction drops an entry of one webhook and keeps another's, and at which
  one webhook is retried while the other waits.
* **TokenLive** (2 sessions with 2 calls each, 2 refreshes, 3 tokens).
  `OutcomeIsTrue`, `RefreshesAreRationed`, `CallsEnd`.  Two sessions are the
  least for a shared promise with two cooldowns, two calls for one that joins
  the refresh of its own session, three tokens for a refresh of what a refresh
  gave.

Bounds: the number of messages, webhooks or calls; `MaxEpoch`, `MaxSeq`,
`MaxCrashes`, `MaxBreaks`, `MaxTurn`, `MaxMessage`, `MaxToken`; and the counters
that only history needs (`fired`, `answers`, `judged`, `MaxPosts`, `MaxEnds`),
each one above what a property allows, so that a violation is still seen.

### A run that shows a disagreement

* **RetryOverlap** (`MCRetryQueue`), `NeverLost`: an entry appended while a tick
  is under way is dropped when the tick rewrites the file from what it read
  before, though the header of `retry-scheduler.ts` says that an entry stays
  until its end is recorded.

### What the models also allow

Met while modelling, not made into runs.  Each is a behaviour of a module, with
the named kind in `Env`, unless it is said to be read from the code only.

Scaffold:
* `abort` (Eager): abort() sets `ready` while the aborted turn's promise is
  pending, so a send right after it calls the driver beside it.
* `swallow` (Eager): a driver that resolves after `turn_failed` lets the drain
  send the next message from `failed`.
* Blank in `Message` (Eager): a queued empty message is not accepted by
  `complete`, the status becomes ready, and the scaffold sends it all the same.
* `preflight` (Eager): after a failed drain the reducer keeps the queue the
  scaffold dropped, and preflight makes that runtime ready.
* `slow` (Eager): a send between `turn_failed` and the rejection of its promise
  resets the status, and a second, generic `turn_failed` is appended.
* `dispose` with `abort` or `ends`: abort, or `session_status ended`, makes a
  disposed runtime ready.
* without `arms` (Deferred): the runtime `createDeferredAgentRuntime` gives to
  the hook has no `armReplay`, and a message parked behind the first turn of a
  session then stays in the queue for ever.
* `midway`: a send within the history ends replay mode, and what follows of it
  counts as live.  A call of the past is then executed again before its
  `tool_resumed` arrives, contrary to the comment at `runtime-scaffold.ts:183-186`
  ("re-firing mid-replay would duplicate client-side tool execution AND the
  replay may not yet have the matching tool_resumed"), and a `turn_failed` of the
  past fails the running turn.
* `stalls`: a pause of half a second within the history lets the host's timer or
  the fallback do the same.
* A `tool_resumed` that the server wrote after its restart and that is on its way
  may lose to the timer: the call is handed out once more.
* a server that restarts serves a call that is still open again, and it is
  executed again.
* `ends` (Deferred): `session_status ended` empties the reducer's queue and not
  the scaffold's.
* `arms` (Deferred): after a replay a parked message is posted from ready, and
  the next send goes out beside it.
* `foreign` without `pinned`: the first send puts the configured epoch back, and
  the next item drops the local history.

Claude driver:
* `hasty`: a send right after abort() runs beside the old query; the end of the
  old turn clears the verdicts, so that the policy judges a call twice; abort()
  no longer reaches the new turn; the new turn may start a session of its own.
* `late`: a query that throws after its result appends `turn_failed` after
  `turn_completed` and the send rejects.
* `early`: abort() or dispose() while the SDK is loading is lost.
* dispose() waits for the iterator to return before it denies the open prompts,
  which an iterator suspended in one of them waits for.
* a verdict that arrives after the interruption opens a prompt nobody withdraws.

Codex driver: `orphan`, `flush`, `chunked` and `early` are orders in which a late
turn, a line after the exit or an abort during a request goes by the driver; with
`chunked` a send can hang.  In every `Env` with `asks` and `abort` an approval of
an aborted turn that was on its way, or that policy was judging, is still shown,
and one that is open stays open: `handleServerRequest` and
`resolveApprovalDecision` (188-264, 347) do not look at `abortedTurnIds`, though
the comment at `app-server-driver.ts:129-132` says that what trails an abort is
dropped "so the timeline is not polluted".  `Respond` answers it once, as any
other.

Chat:
* The effect depends on `createInitialSessionState`, made anew by each render
  (`use-agent-chat-session.ts:488` and 657).  Each render thus disconnects the
  listeners and clears `armReplayTimer`: `armReplay` is never called after a
  burst, though the comment at 541 says it is, and what arrives between cleanup
  and effect is missed (`missed`).  A second hook on the same stream loses its
  listener too.
* `isReconnecting` stays true when nothing follows a reconnect.
* Two local reports with the same key (epoch 0) are both kept by a batch with a
  rotation, and reduced to one when folded by themselves (`remetas`).
* Read from the code only: disconnect() leaves the reconnect timer armed, so
  disconnect() and connect() can be followed by a second fetch.

Event processor:
* `cuts`: a turn that fails within a block leaves its message streaming, and the
  next turn's text is appended to it: the fallback of `helpers.ts:49-54` takes the
  last message that streams, although `helpers.ts:5` says that lookups are never
  by position.
* `whole`: an answer that comes without deltas overwrites the answer before it.
* `handleComplete` clears the mark of every queued bubble (`session.ts:84-96`),
  which its comment calls a safe no-op where messages are queued one by one.
  With two of them the second waits unmarked through the next turn, and a stop
  then drops it but leaves its bubble.
* `Echo`: a message with the text of another less than 5 seconds away has no
  bubble of its own (`session.ts:501`, meant for the confirmation of an optimistic
  message).  The shared bubble loses its mark when the first of them is processed,
  while the other still waits; and a message that repeats one already under way
  is queued without a mark.  `OnePerCall` and `QueuedIsShown` say exactly this
  much: what shares a bubble, and that it is marked while all it stands for is
  queued.
* A late, empty completion of reasoning takes the answer's text.  A call that
  has shown output is not ended by an error or an interruption.  `task_completed`
  before its result leaves the call in the background for ever.  A `tool_delta`
  moves its call behind the answer, which then counts as commentary.  An info
  line marks running tools as interrupted in the grouping.
* Read from the code only: handlers that return `{session, streaming}` drop
  `pendingPermissionRequests`; `handleComplete` leaves `isStreaming`; a `queued`
  message sets `isProcessing` to false while a turn runs.

Automations:
* `torn` (RetryQueue): a stop between truncation and writing loses every entry;
  compaction too rewrites its file in place.
* The event bus counts in a fixed window, so that any minute may see up to twice
  the limit: `RequestsBounded` says what it does promise.
* Read from the code only: `updateSessionMetadata` calls that overlap emit an
  event twice or store the older value last (`automation-system.ts:333-417`); two
  schedulers on one file.

Tokens:
* `crosses`: authenticating or deleting during a refresh is overwritten or
  resurrected by its end, or a refresh that fails marks the source that was
  authenticated meanwhile; a restart after the host saved the token leaves
  `needs_auth` beside a fresh one.
* The cooldown is looked at before the store, so a session refuses a source
  that was authenticated elsewhere until `clearCooldown`; a call that finds a
  fresh token does not restore the status.
* Read from the code only: `pendingRefreshes` is keyed by slug, so two
  workspaces with sources of one slug share a promise; a renew without an
  expiry keeps the old one though the comment beside it says it stays undefined
  (`credential-manager.ts`, `refreshApiRenew`); two processes on one credential
  file overwrite each other.

## 4. Fairness

Safety needs none.  Liveness assumes weak fairness of what the JavaScript event
loop does by itself: an awaited promise resumes, a timer fires, what was read is
handled.  Beyond that:

* *Eager*: a driver's promise settles unless it waits for an answer, and a host
  answers the prompts it is shown.  `TurnDriver`'s implementations are checked
  to do the first.
* *Deferred*: the stream delivers, a run ends, a host runs the tools it is
  handed, and the fallback timer fires.
* *Codex*: the process reads its input and ends the turns it has begun, the
  policy and the host decide; none of it is asked of a process that has died.
* *Claude*: the promises and the policy only.  No query is obliged to give a
  result and no host to answer: `NothingHangs` is about what the driver ends.
* *Chat*: one of the event loop's own actions comes (`WF(Runs)`).  They cannot go
  on for ever by themselves, as each consumes an item, a timer, a batch or an
  attempt, so none of them waits for ever.
* *Automations*: `SF` of `EnqueueFailed`, because in the runs without `overlap` it
  waits for the end of a tick and is enabled again and again, not all the time:
  a file append that is not put off for ever.  A bounded number of crashes
  leaves a last one.
* *Tokens*: a request to the provider has an end, as an answer or a refusal; `SF`
  of the task that takes it, since continuations of other calls, which run
  first, disable it for a while.

No host is obliged to send, abort, arm or dispose, no
server to restart and no driver to report an item.

## 5. Proofs

`tlapm EagerRuntimeProofs.tla` and so on; `PROJECT.json` lists the theorems.
Each is for every value of the constants: any set of messages, webhooks or
sessions, any number of restarts or crashes.  All rest on the named assumptions
of the modules (`NoRequestAssumption`, `EnvAssumption`, `MessageAssumption`,
`EpochAssumption`, `RetryAssumption`, `TokenAssumption`, ...), which TLC
evaluates on every run, and on what a theorem itself assumes of `Env`.  Such an
assumption has a name (`PlainSession`, `Orderly`, ...) or excludes one kind, and
the `Env` of a passing run satisfies it while granting other kinds; only
`NothingLost` of `RetryQueueProofs` assumes `Env = {}`, as in `AutomationsLive`.
Why it is needed is the behaviour section 3 lists under the excluded kinds.

Every inductive invariant below was also evaluated by TLC on the instance of a
run whose `Env` is inside the assumption.

### EagerRuntime, for every `Env`

* `TypeCorrect`, `EagerTypes`: `TypeInv == TypeOK /\ FailuresBounded /\ QueueInv`
  is inductive.  `TypeOK` alone is not: that `failures` stays in 0..2 needs to
  know at which stages an item was counted (`FailuresBounded`), and a drain keeps
  the types and the stages only because `pendingQueue` holds every message once
  and parked ones only (`QueueInv`).
* `Refinement`: `Spec => ImplementsTurnQueue`.  Every step maps to a step of
  `TurnQueue` or to a stutter; `QueueInv` gives that the message a drain shifts
  is one whose fate is `queued`, and that a parked message is never committed a
  second time.
* `SentOnce`: what `TurnQueue` promises, through that refinement.  No message is
  committed twice, and the messages committed are those whose stage says so.
  It needs besides that the queue holds exactly the messages whose fate is
  `queued`, once each, or one that is parked twice could be released twice.

### EagerRuntime, plain sessions

`PlainSession == Env \subseteq {"absent", "parallel"} /\ Blank \notin Message`.
For these the strengthening `PlainInv` (what each status says about turns in
flight, and the agreement of the queues) is inductive and gives

* `PlainSingleFlight`: at most one message is with the driver, and
* `PlainMirror`: `pendingQueue` is the reducer's queue, and what the reducer shows
  as accepted is what the driver was given (`AcceptedIsSent`).
* `PlainTruth`: `StateIsTrue`, with one prompt at a time (`"parallel" \notin Env`;
  with two, the status changes with the first answer).  `TruthInv` adds to
  `PlainInv` that an open prompt is the one waited for, or the turn has failed
  under it (`OpenPromptInv`), and that a failure is counted exactly from the
  item on (`FailureInv`).

The assumption is necessary: with `abort` the first is violated, and with
`preflight` the second (section 3).

### DeferredRuntime, for every `Env`

* `DeferredTypes`: the types are inductive by themselves, because they bound the
  keys seen and the place of the stream by the server's log.
* `DeferredRefinement`: `Spec => ImplementsTurnQueue`, across replays, restarts,
  redelivery, lost responses, aborts and disposal.  The types suffice:
  `DrainCases` says that a drain releases the head of `pendingQueue` or does
  nothing, and what the queue holds then follows from `TurnQueue`.
* `SentOnce`, as for the eager runtime: no message is posted twice.

### DeferredRuntime, plain sessions

`PlainSession` allows the host to arm, runs that ask, suspend or fail, POSTs
that are rejected and items delivered again; not restarts, abort, repeated
preflight, dispose, cancelled runs, lost responses and foreign runs, nor an
empty message.  `PlainSingleFlight`, `PlainMirror` and `PlainTruth` follow from
`PlainInv`, in which a turn is *open* from its POST until its last item is
delivered: one turn is open, what is on its way is about it, and its end comes
last (`TurnInv`); the log and the stages agree (`LogInv`); the status shows
whether a turn is open and how the last ended (`ShownInv`).  `InFlight` alone is
not inductive: a run that is over at the server but whose end is not delivered
still keeps the next message back.

### DeferredRuntime, calls of the past

`CallsOfThePresent`: `NoStaleCall`, the safety half of `ExecutedOnce`, for every
`Env` without `foreign`, `midway` and `stalls` (`Patient`), any `MaxEpoch`, with
or without a configured epoch.  `ReplayInv` says that until the history was
served the runtime is in replay mode or has had no item under the new epoch, so
that a call is handed out only after all of it.  `HandOutInv` says which keys are known under which epoch (`KeysInv`: another
epoch than the server's is known only before the first item under the new one),
that the log suspends a turn once and resumes it after (`CallLogInv`), and that
a call that is held was delivered and is open, or there is an epoch left in
which it may be handed out (`CallInv`).  With `foreign` and no configured epoch
the first send puts the configured epoch back beneath a log, and the same log is
counted under two epochs.

### ClaudeDriver

* `ClaudeTypes`, for every `Env`.
* `Conversation` and `PolicyRunsOnce`, for a host that does not send before the
  turn it aborted is over (`"hasty" \notin Env`).  `AloneInv`: one send in flight;
  a query that is read is of the session captured last, and the warm query is
  the first (`ConversationInv`); the hook's verdict is kept for as long as
  `canUseTool` may want it (`VerdictInv`).
* `DriverRefinement`: `Spec => ImplementsTurnDriver` without `late`, `hasty` hosts
  included.  `ItemInv` ties the terminal item to the result or the exception.

### CodexDriver

* `CodexTypes`, for every `Env`: the client's map of requests holds exactly what
  the sends await.
* `Answers`, for every `Env`: an approval is answered at most once.  `AskedOnce`
  and `PromptInv` follow the turn and its approval through both directions of
  the pipe, where each line is at most once.
* `Names`, `LateItems` and `DriverRefinement`, where `Orderly`: no `early`, `orphan`,
  `flush` or `chunked`, each of which is an order the driver goes by (section 3);
  aborts of running turns, disposal, failures, timeouts and the death of the
  process are included.  `OrderInv` says that the response to `turn/start` is on
  its way exactly while a send awaits it and comes before all else of the turn
  (`ResponseInv`), that the end of a turn is the last line of it (`EndInv`), and
  that the turn a send waits for is the active one (`OneInFlight`).

### RetryQueue and Automations

* `RetryTypes`: no count of attempts reaches the maximum.
* `NothingLost`: with `Env = {}`, `NeverLost` always holds.  Inductive with
  `TickInv`, which says that while a tick works, what it has dropped from its
  batch and has not yet recorded is `current`, and every other entry of the
  file is still in the batch.
* `Repeats`, for every `Env`: requests are bounded by the attempts and one more
  for each crash, and an end is recorded once and once more for each crash.
  `SpentInv` bounds what is already spent of an entry in the file by one more
  than of one in memory, for a crash brings back the file's.
* `AutomationsRetry`: `AutomationSpec => Spec`.  The history only delays the
  queue, so that `AutomationTypes`, `AutomationsLoseNothing` and
  `AutomationsRepeat` follow for the composition.
* `HistoryIsKept`: `HistoryKept`, for any limits, whatever appends, drains,
  compactions and crashes cross each other.  `HistoryInv`: what a
  compaction under way has read is the log still, the log is in order, holds
  every entry that few enough came after, and is longer than its limit by the
  counted appends at most.  That a filtered sequence keeps its order, and which
  entries the two limits leave, are lemmas about `Filter`.
* `LimitersLimit`: for every sequence of times in order, the endpoint limiter
  admits a request exactly if fewer than the limit were admitted in the window
  before it; the bus drops none below the limit and admits fewer than twice the
  limit in any window.  A sequence is followed time by time, in a state that
  says how the limiter's memory stands to what it has admitted.
  `RequestsAreBounded` joins this with `AutomationsRepeat`.

### EventProcessor

The handlers look messages up, change them where they are, renumber all of them
and, at a stop, drop some.  A lemma for each handler says which messages of a
role are the same, changed or new (`...Effect`); the invariants rest on those.

* `Types`, for every `Env`.
* `CallsAndBubblesAreShown`, for every `Env` and every `Echo`: a call has one
  message and a user's message one bubble, shared by its repetitions; what has
  returned is shown as ended, and a bubble is marked as `QueuedIsShown` says.
  `ToolInv` ties the status and the background of a call's message to the events
  it has sent, `UserInv` a bubble to the fate of all the messages it stands for:
  `Stands` is an equivalence, and of each class there is one bubble at most.
* `StatusesAreShown`, without `cuts`: `StatusIsShown`.  `StreamInv`: what streams
  is the text of an open block of this turn, so that the end of a turn leaves
  nothing streaming.  A turn cut within a block does leave it.
* `TextsAreOwn`, without `cuts` and `whole` (`Careful`): `OwnMessages`.  `TextInv` says
  of each block of the turn which message holds it and in which state, among
  them the late reasoning, whose message an answer has closed before it is
  completed.

### SseStream, Timeline, ChatSession

The longest argument, for it goes through what the sequences compute.  Sorting
by rank (`Ranks`, `SortFacts`) loses no key and puts each epoch in order, so both
merges hold what their arguments hold (`MergeFacts`, `IncrementalFacts`); the two
folds of a batch hold the same items of the server (`FoldsAgree`); and what the
runtime's timeline has after a cursor follows it one by one (`FetchFacts`).

`Inv` is inductive, for any number of items, epochs, failures, attempts and
fetches, and for every `Env`:

* `StreamInv`: one fetch or one timer is under way, and a fetch is served what
  comes after the cursor, or all of a new epoch.  That is why a reconnect with
  the cursor of an old epoch skips nothing.
* `TakenInv`: the runtime has taken just the items up to the stream's cursor.
* `HookInv` is about `View`, the session as it will be when the batch that waits
  is folded.  It is of one epoch and in order and has what the hook's cursor says
  (`Held`).  That alone is not inductive: an item that arrives must not leave a
  gap, so `View` has all that the runtime has taken, or it was missed, unless a
  catch-up brought the hook to a newer epoch first (`Covered`); and the answer to
  a fetch must follow the cursor it was asked for, though items may be folded
  meanwhile, which holds because the hook does not listen then (`Asked`).

From it:

* `Types` and `Delivered`, for every `Env`: `TypeOK`; the transcript is in order
  and complete but for what was missed, the timeline holds the same items, and
  no cursor is ahead.
* `NothingIsLost`, without `remetas`: `NothingLost`, which adds that the report of
  preflight is in the timeline once the batch is folded.  Two reports of one
  epoch share a key, and a merge keeps the last.

### TokenRefresh

* `TokenTypes`, for every `Env`.
* `Outcome` and `Rationed`, unless an authentication, a deletion or a restart
  crosses a refresh (`"crosses" \notin Env`); between refreshes all of them may
  happen, and answers of the provider may be lost.  `OutcomeInv`: the pending
  refresh is the one under way and calls wait for it (`OneUnderWay`); the store
  holds what it began with until the host has saved (`StoreInv`); what calls are
  told is what is there (`ToldInv`); a source shown as `needs_auth` has no fresh
  token, or a call is about to put that right (`StatusInv`).

### Only model-checked

* Liveness, which is out of the prover's reach: `QueueDrains`, `NothingHangs`,
  `WorkEnds`, `CallsEnd`, `EventuallyShown`, and `SuspensionFires`, the other half
  of `ExecutedOnce`.
* `AllShown`, for `TurnGrouping` is three passes of folds that build lists of
  lists, and `ScanAgrees` compares two recursions.
* `CutsAgree`: that a batch folds into exactly the timeline its events fold into
  one by one (proved is only which items of the server it holds), and the
  framing of the SSE text.
* What holds outside the assumptions above is found by TLC alone, on the small
  instances: section 3 says which properties fail there.

## 6. Not modelled

* *Policy*: rules without state, mostly patterns over the text of commands and
  paths.  The drivers see any verdict.
* *HTTP client, CLI runtime, trace parsers, event mapping of texts, skills,
  source files, detection of providers and credentials, route tables,
  rendering*: input and output, parsing, stateless projection.
* *Host services*: in-memory reference services, one map each and no await; the
  config watcher compares hashes after a debounce.
* Of the modelled parts: `historyCap` and the caps on seen keys (never reached in
  logs of this size), texts and payloads, the immediate retries inside one
  webhook request, two schedulers or two processes on one file, the EventSource
  variant of the stream and its heartbeats, a connect() after a disconnect() of
  one stream (the runtime makes no such call), Claude's fallback abort without `interrupt()`, Codex requests answered
  without the host, metadata differences and the clock of the automations, the
  reading of OAuth headers.
* The runs of the stream and of the deferred runtime are two: `DeferredRuntime`
  sees the stream as delivery in order and at least once, which is what
  `NothingLost` says `SseStream` gives.

## 7. Plan

1. Done: `RuntimeState`, `TurnQueue`, `EagerRuntime` with proofs; `RunServer`,
   `DeferredRuntime`; `RetryQueue` with proofs; `TurnDriver`, `CodexDriver`,
   `ClaudeDriver`; `Timeline`, `SseStream`, `ChatSession`; `TurnGrouping`,
   `EventProcessor`; `Automations`; `TokenRefresh`.
2. Done: proofs of both runtimes, both drivers, the automations with their retry
   queue, history and limiters, the tokens, the event processor, and the way from
   the stream to the transcript (section 5).
3. Proofs left: that a batch folds as its events do; deferred sessions with
   aborts or lost responses, for which a weaker statement than `SingleFlight` has
   to be found.
4. Models: metadata differences of the automation system; a stream that is
   connected again, as `client/weft-client.ts` allows its user.

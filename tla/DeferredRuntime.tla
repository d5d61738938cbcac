--------------------------- MODULE DeferredRuntime ---------------------------
(***************************************************************************)
(* The Flitro runtime: createProviderRuntimeScaffold with completion =     *)
(* 'deferred' (providers/src/shared/runtime-scaffold.ts), its driver and   *)
(* its tool bridge (providers/src/flitro).                                 *)
(*                                                                         *)
(* A message is a run created by a POST that returns at once; the turn is  *)
(* over when its terminal item arrives on the session's timeline.  Items   *)
(* come from a server-owned log under an epoch.  An item under an epoch    *)
(* the client does not know is taken for the start of a replay: until the  *)
(* host "arms" the runtime, items only reconcile the status.               *)
(*                                                                         *)
(* As in EagerRuntime, an action is the code between two awaits, and a     *)
(* definition that no other refers to is a slip of the one after it.  The  *)
(* awaits of sendMessage before the POST only yield to other microtasks    *)
(* (Flitro resolves its session and its driver without I/O), so no timer   *)
(* and nothing from the network comes in between; see NextTask.            *)
(*                                                                         *)
(* Left out: historyCap (the caps on seenKeys and on the timeline are      *)
(* never reached), the items local to the client, which carry no state but *)
(* turn_failed, and the reconnection of the stream, which SseStream        *)
(* describes: here the transport delivers the log in order and, with       *)
(* "repeat", delivers items again.                                         *)
(***************************************************************************)
EXTENDS RuntimeState

CONSTANTS
    Env,         \* what hosts and the server may do beyond the plain turn
    MaxEpoch     \* bound on the restarts of the server

EnvKinds ==
    {"pinned",     \* the host configured the epoch under which the server starts
     "arms",       \* the host may call armReplay()
     "midway",     \* the host may send while the history is served again
     "stalls",     \* and the stream may pause meanwhile for as long as timers wait
     "abort",      \* the host calls abort(), at most one call at a time
     "preflight",  \* the host calls preflight() again, not only at first
     "dispose",    \* the host calls dispose()
     "asks",       \* runs ask for permission
     "suspends",   \* runs suspend on client-side tools
     "fails",      \* runs may fail
     "ends",       \* the server cancels runs: session_status ended
     "rejects",    \* the POST of a message may fail before it has an effect
     "lost",       \* the response to the POST of a message may be lost
     "foreign",    \* runs created elsewhere: before a reload, or in another tab
     "repeat"}     \* items may be delivered again

ASSUME EnvAssumption == Env \subseteq EnvKinds

ASSUME EpochAssumption == MaxEpoch \in Nat /\ ("pinned" \in Env \/ MaxEpoch > 0)

(* A turn has one request and one call at most; they are named after it.   *)
ASSUME RequestAssumption == Request = Message

VARIABLES
    state,          \* the reducer's state
    pendingQueue,   \* parked sends, oldest first
    epoch,          \* currentEpoch; 0 is the configured one
    replayMode,     \* items are folded as history
    seen,           \* seqs in seenKeys, which are those of the server's items in timeline
    suspended,      \* replaySuspended
    armTimer,       \* pendingArmReplayTimer is set
    disposed,       \* dispose() was called
    closed,         \* the stream is disconnected
    pc,             \* pc[m]: where the send of m is
    activeRunId,    \* the driver's active run
    aborting,       \* what the abort() under way waits for
    reply,          \* reply[m]: the host's answer to the permission request of m
    fired,          \* history: calls of onToolSuspended for m, up to 3
    sent,           \* history: the messages committed to the driver, in order
    next,           \* the seq the stream delivers next
    history,        \* history: how much the log held when the server restarted
    run, log, served, cancelled    \* the server

INSTANCE RunServer

scaffold == <<state, pendingQueue, replayMode, suspended, armTimer, pc, fired, sent>>
intake == <<epoch, seen, next, history>>
driver == <<disposed, closed, activeRunId, aborting, reply>>
server == <<run, log, served, cancelled>>
vars == <<scaffold, intake, driver, server>>

(* "resolving" awaits resolveSessionId, "ensuring" the driver, "posting"   *)
(* the response of createRun; a "foreign" message was sent elsewhere.      *)
Stage == {"new", "foreign", "resolving", "ensuring", "queued", "posting", "posted",
          "failed", "cancelled"}

NoRun == "no run"
Calling == "calling"

ASSUME MessageAssumption == Message \cap {NoRun, Calling} = {}

TypeOK ==
    /\ state \in RuntimeStates
    /\ pendingQueue \in Seq(Message)
    /\ epoch \in 0..MaxEpoch
    /\ seen \subseteq 1..Len(log)
    /\ suspended \subseteq Message
    /\ {replayMode, armTimer, disposed, closed} \subseteq BOOLEAN
    /\ pc \in [Message -> Stage]
    /\ activeRunId \in Message \cup {NoRun}
    /\ aborting \in Message \cup {NoRun, Calling}
    /\ reply \in [Message -> {"none", "posting", "taken", "over"}]
    /\ fired \in [Message -> 0..3]
    /\ sent \in Seq(Message)
    /\ next \in 1..Len(log) + 1
    /\ history \in 0..Len(log)
    /\ ServerTypeOK

Init ==
    /\ state = InitialState
    /\ pendingQueue = <<>>
    /\ epoch = 0
    /\ replayMode = FALSE
    /\ seen = {}
    /\ suspended = {}
    /\ armTimer = FALSE
    /\ disposed = FALSE
    /\ closed = FALSE
    /\ pc = [m \in Message |-> "new"]
    /\ activeRunId = NoRun
    /\ aborting = NoRun
    /\ reply = [m \in Message |-> "none"]
    /\ fired = [m \in Message |-> 0]
    /\ sent = <<>>
    /\ next = 1
    /\ history = 0
    /\ ServerInit(IF "pinned" \in Env THEN 0 ELSE 1)

-----------------------------------------------------------------------------
(* Parts of the handlers.  Each constrains some of the primed variables.   *)

(* The event loop takes a timer or an answer of the network only when no   *)
(* send is between its first await and its POST.                           *)
NextTask == \A m \in Message : pc[m] \notin {"resolving", "ensuring"}

(* pc after the parked messages are dropped.                               *)
Dropped == [m \in Message |-> IF pc[m] = "queued" THEN "cancelled" ELSE pc[m]]

(* onToolSuspended for the calls of ms: handleToolSuspension starts their  *)
(* handlers unless the runtime is disposed.                                *)
Fired(ms) ==
    [m \in Message |-> IF m \in ms /\ state.status # "disposed" /\ fired[m] < 3
                       THEN fired[m] + 1 ELSE fired[m]]

NoDrain(s, stage) ==
    /\ state' = s
    /\ pc' = stage
    /\ UNCHANGED <<pendingQueue, sent>>

DrainWithoutShift(s, stage) ==
    /\ state' = Complete(s)
    /\ IF Complete(s).status \in Terminal \/ pendingQueue = <<>>
       THEN pc' = stage /\ UNCHANGED <<pendingQueue, sent>>
       ELSE /\ pc' = [stage EXCEPT ![Head(pendingQueue)] = "posting"]
            /\ sent' = Append(sent, Head(pendingQueue))
            /\ UNCHANGED pendingQueue

(* drainOnCompletion, in the state s and at the stages stage: complete,    *)
(* then the oldest parked message is shifted and posted.                   *)
DrainOnCompletion(s, stage) ==
    LET c == Complete(s)
    IN  /\ state' = c
        /\ IF c.status \in Terminal \/ pendingQueue = <<>>
           THEN pc' = stage /\ UNCHANGED <<pendingQueue, sent>>
           ELSE /\ pc' = [stage EXCEPT ![Head(pendingQueue)] = "posting"]
                /\ pendingQueue' = Tail(pendingQueue)
                /\ sent' = Append(sent, Head(pendingQueue))

(* armReplayInternal: leave replay mode, hand out the calls that are still *)
(* suspended, and drain what was parked during the replay.                 *)
ArmReplayNoDrain(stage) ==
    /\ armTimer' = FALSE
    /\ replayMode' = FALSE
    /\ suspended' = {}
    /\ fired' = IF replayMode THEN Fired(suspended) ELSE fired
    /\ NoDrain(state, stage)

ArmReplayForgetting(stage) ==
    /\ armTimer' = FALSE
    /\ replayMode' = FALSE
    /\ suspended' = {}
    /\ UNCHANGED fired
    /\ IF replayMode /\ state.status = "ready" /\ pendingQueue # <<>>
       THEN DrainOnCompletion(state, stage)
       ELSE NoDrain(state, stage)

ArmReplay(stage) ==
    /\ armTimer' = FALSE
    /\ replayMode' = FALSE
    /\ suspended' = IF replayMode THEN {} ELSE suspended
    /\ fired' = IF replayMode THEN Fired(suspended) ELSE fired
    /\ IF replayMode /\ state.status = "ready" /\ pendingQueue # <<>>
       THEN DrainOnCompletion(state, stage)
       ELSE NoDrain(state, stage)

(* syncReplayState, with the suspended calls held.                         *)
Reconciled(s, item) ==
    CASE item.type \in {"completed", "ended"} -> ReplayReconcile(s, "ready", NoRequest)
      [] item.type = "failed"  -> ReplayReconcile(s, "failed", NoRequest)
      [] item.type = "asked"   -> ReplayReconcile(s, "waiting_for_permission", item.turn)
      [] item.type \in {"running", "resolved", "resumed"}
                               -> ReplayReconcile(s, "running", NoRequest)
      [] OTHER                 -> s

ReplayKeepsResolved(item, held) ==
    /\ state' = Reconciled(state, item)
    /\ suspended' = held \cup (IF item.type = "suspended" THEN {item.turn} ELSE {})
    /\ armTimer' = (armTimer \/ item.type = "suspended")
    /\ UNCHANGED <<pendingQueue, pc, fired, sent>>

SyncReplayState(item, held) ==
    /\ state' = Reconciled(state, item)
    /\ suspended' = CASE item.type = "suspended" -> held \cup {item.turn}
                      [] item.type \in {"resumed", "result"} -> held \ {item.turn}
                      [] OTHER -> held
    /\ armTimer' = (armTimer \/ item.type = "suspended")
    /\ UNCHANGED <<pendingQueue, pc, fired, sent>>

(* syncStateFromTimelineItem outside replay mode.                          *)
SyncLiveState(item) ==
    /\ CASE item.type = "completed" -> DrainOnCompletion(TurnCompleted(state), pc)
         [] item.type = "failed"    -> DrainOnCompletion(Error(state), pc)
         [] item.type = "running"   -> NoDrain(Starting(state), pc)
         [] item.type = "ended"     -> NoDrain(Abort(state), pc)
         [] item.type = "asked"     -> NoDrain(PermissionRequest(state, item.turn), pc)
         [] item.type \in {"resolved", "resumed"}
                                    -> NoDrain(PermissionResponse(state), pc)
         [] OTHER                   -> NoDrain(state, pc)
    /\ fired' = IF item.type = "suspended" THEN Fired({item.turn}) ELSE fired
    /\ UNCHANGED <<suspended, armTimer>>

-----------------------------------------------------------------------------
IngestWithoutDedup(i) ==
    LET rotates == epoch # served
        fold    == replayMode \/ rotates
    IN  /\ epoch' = served
        /\ seen' = (IF rotates THEN {} ELSE seen) \cup {i}
        /\ replayMode' = fold
        /\ IF fold
           THEN SyncReplayState(log[i], IF rotates THEN {} ELSE suspended)
           ELSE SyncLiveState(log[i])

(* The stream delivers the item with seq i to appendEnvelope; ingest drops *)
(* it if its key was seen, and takes another epoch for a rotation.         *)
Ingest(i) ==
    LET rotates == epoch # served
        fold    == replayMode \/ rotates
        keys    == IF rotates THEN {} ELSE seen
    IN  IF i \in keys
        THEN UNCHANGED <<scaffold, epoch, seen>>
        ELSE /\ epoch' = served
             /\ seen' = keys \cup {i}
             /\ replayMode' = fold
             /\ IF fold
                THEN SyncReplayState(log[i], IF rotates THEN {} ELSE suspended)
                ELSE SyncLiveState(log[i])

DeliverSkipping ==
    /\ NextTask
    /\ ~closed
    /\ next <= Len(log)
    /\ next' = next + 2
    /\ Ingest(next)
    /\ UNCHANGED <<history, driver, server>>

Deliver ==
    /\ NextTask
    /\ ~closed
    /\ next <= Len(log)
    /\ next' = next + 1
    /\ Ingest(next)
    /\ UNCHANGED <<history, driver, server>>

Redeliver(i) ==
    /\ NextTask
    /\ "repeat" \in Env
    /\ ~closed
    /\ i < next
    /\ UNCHANGED <<next, history>>
    /\ Ingest(i)
    /\ UNCHANGED <<driver, server>>

(* The server restarts, and the stream that reconnects starts over.        *)
Reconnect ==
    /\ Restart
    /\ next' = 1
    /\ history' = Len(log)
    /\ UNCHANGED <<scaffold, epoch, seen, driver>>

(* preflight()                                                             *)
Preflight ==
    /\ "preflight" \in Env \/ state.status = "idle"
    /\ state' = PreflightOk(state)
    /\ UNCHANGED <<pendingQueue, replayMode, suspended, armTimer, pc, fired, sent>>
    /\ UNCHANGED <<intake, driver, server>>

(* The history was served again.  The host and the timer both wait for     *)
(* 500 ms without an item, which is taken to be longer than any pause in   *)
(* it, but with "stalls".                                                  *)
CaughtUp == next > history
Settled == "stalls" \in Env \/ CaughtUp

(* armReplay() by the host.                                                *)
ArmedByHost ==
    /\ NextTask
    /\ "arms" \in Env
    /\ replayMode /\ ~disposed /\ Settled
    /\ ArmReplay(pc)
    /\ UNCHANGED <<intake, driver, server>>

(* The fallback timer of a suspended call.                                 *)
ArmedByTimer ==
    /\ NextTask
    /\ armTimer /\ Settled
    /\ ArmReplay(pc)
    /\ UNCHANGED <<intake, driver, server>>

Armed == ArmedByHost \/ ArmedByTimer

-----------------------------------------------------------------------------
(* commands.sendMessage(m) up to its first await; ensureResolvedSession    *)
(* marks the session resolved before it awaits.  The code does not ask     *)
(* whether the history was served: that the host waits is for "midway".    *)
SendCall(m) ==
    /\ pc[m] = "new"
    /\ ~disposed
    /\ replayMode => "midway" \in Env \/ CaughtUp
    /\ ArmReplay([pc EXCEPT ![m] =
          IF \A n \in Message : pc[n] \in {"new", "foreign"}
          THEN "resolving" ELSE "ensuring"])
    /\ UNCHANGED <<intake, driver, server>>

(* resolveSessionId gives back the configured session and epoch.           *)
ResolveSession(m) ==
    /\ pc[m] = "resolving"
    /\ pc' = [pc EXCEPT ![m] = "ensuring"]
    /\ epoch' = 0
    /\ UNCHANGED <<state, pendingQueue, replayMode, suspended, armTimer, fired, sent>>
    /\ UNCHANGED <<seen, next, history, driver, server>>

(* The call goes on: from failed it first resets the state and drops the   *)
(* queue; then the message is parked, or posted at once.                   *)
MustParkWhileRunning(s) == s.status = "running"
MustPark(s) == s.status \notin {"ready", "idle", "preflighting"}

SendResume(m) ==
    LET retry == state.status = "failed"
        base  == IF retry THEN Abort(state) ELSE state
        kept  == IF retry THEN <<>> ELSE pendingQueue
        stage == IF retry THEN Dropped ELSE pc
    IN  /\ pc[m] = "ensuring"
        /\ state' = SendMessage(base, m)
        /\ IF MustPark(base)
           THEN /\ pc' = [stage EXCEPT ![m] = "queued"]
                /\ pendingQueue' = Append(kept, m)
                /\ UNCHANGED sent
           ELSE /\ pc' = [stage EXCEPT ![m] = "posting"]
                /\ pendingQueue' = kept
                /\ sent' = Append(sent, m)
        /\ UNCHANGED <<replayMode, suspended, armTimer, fired>>
        /\ UNCHANGED <<intake, driver, server>>

(* The server takes the POST of m.                                         *)
PostArrives(m) ==
    /\ pc[m] = "posting"
    /\ RunStarts(m)
    /\ UNCHANGED <<scaffold, intake, driver>>

(* The POST resolves.                                                      *)
PostReturns(m) ==
    /\ NextTask
    /\ pc[m] = "posting"
    /\ run[m] # "none"
    /\ pc' = [pc EXCEPT ![m] = "posted"]
    /\ activeRunId' = m
    /\ UNCHANGED <<state, pendingQueue, replayMode, suspended, armTimer, fired, sent>>
    /\ UNCHANGED <<intake, disposed, closed, aborting, reply, server>>

(* The POST throws: reportSendFailure, whose turn_failed item is folded as *)
(* any other item is, and the queue is emptied.                            *)
PostFails(m) ==
    /\ NextTask
    /\ pc[m] = "posting"
    /\ (IF run[m] = "none" THEN "rejects" ELSE "lost") \in Env
    /\ state' = IF replayMode /\ state.status # "failed"
                THEN ReplayReconcile(Error(state), "failed", NoRequest)
                ELSE Error(state)
    /\ pc' = [Dropped EXCEPT ![m] = "failed"]
    /\ pendingQueue' = <<>>
    /\ UNCHANGED <<replayMode, suspended, armTimer, fired, sent>>
    /\ UNCHANGED <<intake, driver, server>>

-----------------------------------------------------------------------------
(* respondToPermission(m): the POST, its arrival, and the rest of the call. *)
Respond(m) ==
    /\ \E i \in 1..next - 1 : log[i] = [type |-> "asked", turn |-> m]
    /\ reply[m] = "none"
    /\ reply' = [reply EXCEPT ![m] = "posting"]
    /\ UNCHANGED <<scaffold, intake, disposed, closed, activeRunId, aborting, server>>

ReplyArrives(m) ==
    /\ reply[m] = "posting"
    /\ reply' = [reply EXCEPT ![m] = "taken"]
    /\ IF run[m] = "asking" THEN RunAnswered(m) ELSE UNCHANGED server
    /\ UNCHANGED <<scaffold, intake, disposed, closed, activeRunId, aborting>>

ReplyReturnsUnchecked(m) ==
    /\ NextTask
    /\ reply[m] = "taken"
    /\ reply' = [reply EXCEPT ![m] = "over"]
    /\ state' = PermissionResponse(state)
    /\ UNCHANGED <<pendingQueue, replayMode, suspended, armTimer, pc, fired, sent>>
    /\ UNCHANGED <<intake, disposed, closed, activeRunId, aborting, server>>

ReplyReturns(m) ==
    /\ NextTask
    /\ reply[m] = "taken"
    /\ reply' = [reply EXCEPT ![m] = "over"]
    /\ state' = IF /\ state.status = "waiting_for_permission"
                   /\ state.waiting \in {NoRequest, m}
                THEN PermissionResponse(state)
                ELSE state
    /\ UNCHANGED <<pendingQueue, replayMode, suspended, armTimer, pc, fired, sent>>
    /\ UNCHANGED <<intake, disposed, closed, activeRunId, aborting, server>>

(* The handler of the call of m is done and submitToolOutputs arrives.     *)
ToolSubmits(m) ==
    /\ fired[m] > 0
    /\ state.status # "disposed"
    /\ RunResumes(m)
    /\ UNCHANGED <<scaffold, intake, driver>>

(* abort(): the queue is dropped at once.  After the await of ensureDriver *)
(* the driver asks for the cancellation of the run it knows, and forgets   *)
(* the run it knows when the answer is there.                              *)
AbortCall ==
    /\ "abort" \in Env
    /\ aborting = NoRun
    /\ state' = Abort(state)
    /\ pc' = Dropped
    /\ pendingQueue' = <<>>
    /\ aborting' = Calling
    /\ UNCHANGED <<replayMode, suspended, armTimer, fired, sent>>
    /\ UNCHANGED <<intake, disposed, closed, activeRunId, reply, server>>

AbortResume ==
    /\ aborting = Calling
    /\ aborting' = activeRunId
    /\ cancelled' = cancelled \cup ({activeRunId} \ {NoRun})
    /\ UNCHANGED <<scaffold, intake, disposed, closed, activeRunId, reply>>
    /\ UNCHANGED <<run, log, served>>

AbortReturns ==
    /\ NextTask
    /\ aborting \in Message
    /\ aborting' = NoRun
    /\ activeRunId' = NoRun
    /\ UNCHANGED <<scaffold, intake, disposed, closed, reply, server>>

(* dispose(): the stream stays open until the driver has cancelled its run. *)
DisposeCall ==
    /\ "dispose" \in Env
    /\ ~disposed
    /\ disposed' = TRUE
    /\ armTimer' = FALSE
    /\ state' = Dispose(state)
    /\ pc' = Dropped
    /\ pendingQueue' = <<>>
    /\ cancelled' = cancelled \cup ({activeRunId} \ {NoRun})
    /\ UNCHANGED <<replayMode, suspended, fired, sent>>
    /\ UNCHANGED <<intake, closed, activeRunId, aborting, reply, run, log, served>>

DisposeReturns ==
    /\ NextTask
    /\ disposed
    /\ ~closed
    /\ closed' = TRUE
    /\ activeRunId' = NoRun
    /\ UNCHANGED <<scaffold, intake, disposed, aborting, reply, server>>

-----------------------------------------------------------------------------
(* A run of this session that another client created.                      *)
Foreign(m) ==
    /\ "foreign" \in Env
    /\ pc[m] = "new"
    /\ pc' = [pc EXCEPT ![m] = "foreign"]
    /\ RunStarts(m)
    /\ UNCHANGED <<state, pendingQueue, replayMode, suspended, armTimer, fired, sent>>
    /\ UNCHANGED <<intake, driver>>

(* The run of m goes on by itself.                                         *)
Ends(m) ==
    \/ RunEnds(m, "completed")
    \/ "fails" \in Env /\ RunEnds(m, "failed")
    \/ "ends" \in Env /\ RunEnds(m, "ended")
    \/ RunCancelled(m)

Works(m) ==
    \/ "asks" \in Env /\ RunAsks(m)
    \/ "suspends" \in Env /\ RunSuspends(m)

Runs(m) == (Ends(m) \/ Works(m)) /\ UNCHANGED <<scaffold, intake, driver>>

Send(m) == ResolveSession(m) \/ SendResume(m) \/ PostArrives(m) \/ PostReturns(m)

Reply(m) == Respond(m) \/ ReplyArrives(m) \/ ReplyReturns(m)

Next ==
    \/ Deliver \/ Reconnect \/ Preflight \/ Armed
    \/ AbortCall \/ AbortResume \/ AbortReturns \/ DisposeCall \/ DisposeReturns
    \/ \E i \in DOMAIN log : Redeliver(i)
    \/ \E m \in Message :
          \/ SendCall(m) \/ Send(m) \/ PostFails(m)
          \/ Reply(m) \/ ToolSubmits(m) \/ Foreign(m) \/ Runs(m)

Spec == Init /\ [][Next]_vars

(* Promises settle, the stream delivers, runs end, hosts answer the        *)
(* requests they are shown and run the tools they are handed, and timers   *)
(* fire.  Nothing obliges a host to send or to arm, or a server to restart. *)
Fairness ==
    /\ WF_vars(Deliver) /\ WF_vars(ArmedByTimer)
    /\ \A m \in Message :
          /\ WF_vars(Send(m)) /\ WF_vars(Reply(m)) /\ WF_vars(ToolSubmits(m))
          /\ WF_vars(Ends(m) /\ UNCHANGED <<scaffold, intake, driver>>)

FairSpec == Spec /\ Fairness

-----------------------------------------------------------------------------
(* Correctness.                                                            *)

(* The scaffold implements TurnQueue with its pendingQueue: no message is  *)
(* posted twice, parked messages leave in the order they came, and a       *)
(* cancelled message never comes back.                                     *)
FateOf(stage) ==
    CASE stage \in {"new", "foreign", "resolving", "ensuring"} -> "new"
      [] stage = "queued"    -> "queued"
      [] stage = "cancelled" -> "cancelled"
      [] OTHER               -> "sent"

fate == [m \in Message |-> FateOf(pc[m])]

TQ == INSTANCE TurnQueue WITH queue <- pendingQueue

ImplementsTurnQueue == TQ!Spec

(* A send issued while a turn is running waits for its end: at most one of *)
(* the client's messages is being posted or run at any time.               *)
InFlight(m) ==
    /\ pc[m] \in {"posting", "posted"}
    /\ run[m] # "over"

SingleFlight == \A m, n \in Message : InFlight(m) /\ InFlight(n) => m = n

(* The pendingQueue and the reducer's queuedMessages hold the same.        *)
QueueMirrorsReducer ==
    state.status \notin Terminal => pendingQueue = state.queued

(* The messages the reducer shows as accepted are those posted, in order.  *)
AcceptedIsSent ==
    state.status # "disposed" => state.accepted = sent

(* The epochs under which the log was served so far.                       *)
Epochs == IF "pinned" \in Env THEN served + 1 ELSE served

(* A suspended call is executed once, however often its item is delivered, *)
(* unless the server restarts and serves it again while it is still open.  *)
FiredOnce == \A m \in Message : fired[m] <= Epochs

(* The items of the past: delivered, or in the log when the server         *)
(* restarted, be they delivered again or not.                              *)
Past == {i \in DOMAIN log : i <= history \/ i < next}

(* A call is handed out once, and only if no item of the past resolved it: *)
(* "the replay may not yet have the matching tool_resumed that resolves it". *)
NoStaleCall ==
    [][\A m \in Message :
          fired'[m] # fired[m] =>
              /\ FiredOnce'
              /\ \A i \in Past :
                    log[i] \notin [type : {"resumed", "result"}, turn : {m}]]_vars

(* When every item was delivered and nothing is under way, the status says *)
(* how the last turn ended (or that the POST of a later message failed);   *)
(* it is not stuck in a turn of the past.                                  *)
Quiet ==
    /\ next > Len(log)
    /\ epoch = served
    /\ \A m \in Message : pc[m] \notin {"resolving", "ensuring", "posting"}
    /\ \A m \in Message : run[m] \in {"none", "over"}

StatusSettles ==
    Quiet /\ log # <<>> =>
        \/ state.status = IF log[Len(log)].type = "failed" THEN "failed" ELSE "ready"
        \/ state.status = "failed" /\ \E m \in Message : pc[m] = "failed"

(* What getState() tells the host is so.                                   *)
StateIsTrue == AcceptedIsSent /\ StatusSettles

(* A parked send leaves the queue, unless the runtime fails first or       *)
(* nobody takes it out of replay mode any more: no host has to arm.        *)
QueueDrains ==
    \A m \in Message :
        pc[m] = "queued" ~> \/ pc[m] # "queued"
                            \/ state.status = "failed"
                            \/ []replayMode

(* A run that suspends on a client-side tool gets its tool called, even if *)
(* its item is the last to come and comes during a replay.                 *)
SuspensionFires ==
    \A m \in Message :
        run[m] = "suspended" ~> (fired[m] > 0 \/ run[m] # "suspended" \/ disposed)

(* Calls of client-side tools are executed, once, and none of the past.    *)
ExecutedOnce == NoStaleCall /\ SuspensionFires
=============================================================================

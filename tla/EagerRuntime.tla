---------------------------- MODULE EagerRuntime ----------------------------
(***************************************************************************)
(* An eager provider runtime: createProviderRuntimeScaffold in             *)
(* providers/src/shared/runtime-scaffold.ts with completion = 'eager', the *)
(* mode of the Claude, Codex and CLI-fallback runtimes.                    *)
(*                                                                         *)
(* A turn is one call of driver.sendMessage: the promise settles when the  *)
(* turn is over, and while it is pending the driver appends timeline items *)
(* that the scaffold folds into the reducer's state.  JavaScript runs one  *)
(* callback at a time, so an action is the code between two awaits: every  *)
(* "await" of the scaffold is a point where any other action may come in   *)
(* between.  The driver is modelled from the items the drivers append and  *)
(* the ways their promises settle.                                         *)
(*                                                                         *)
(* A definition that no other refers to, such as MustParkWhileRunning, is  *)
(* a slip of the definition after it: the same code with a plausible       *)
(* mistake, kept to show that the properties below can fail.               *)
(*                                                                         *)
(* Left out: replay suppression, which needs dedup and is a replica        *)
(* feature (see DeferredRuntime), tool suspension, which no eager driver   *)
(* reports, and the timeline buffer.                                       *)
(***************************************************************************)
EXTENDS RuntimeState

CONSTANTS
    Env      \* what hosts and drivers may do beyond the plain turn; see EnvKinds

EnvKinds ==
    {"absent",     \* no runtime was selected: getDriver finds no driver
     "abort",      \* the host calls abort()
     "preflight",  \* the host calls preflight() again, not only before its first send
     "dispose",    \* the host calls dispose()
     "slow",       \* a turn that reported turn_failed may stay pending for a while
     "swallow",    \* a turn that reported turn_failed may resolve instead of throwing
     "parallel"}   \* several permission prompts may be open at once

ASSUME EnvAssumption == Env \subseteq EnvKinds

VARIABLES
    state,          \* the reducer's state
    pendingQueue,   \* parked sends, oldest first
    disposed,       \* dispose() was called
    absent,         \* getDriver() yields no driver
    pc,             \* pc[m]: where the send of m is
    item,           \* item[m]: the terminal item m's turn has reported
    failures,       \* failures[m]: turn_failed items appended on behalf of m
    prompt,         \* prompt[r]: the life of permission request r
    sent            \* history: the messages committed to the driver, in order

vars == <<state, pendingQueue, disposed, absent, pc, item, failures, prompt, sent>>

(* The stages of a send: "ensuring" and "draining" await ensureDriver, in  *)
(* the host's call and in drainEagerQueue; "sending" and "drained" await   *)
(* driver.sendMessage on behalf of the one and of the other.               *)
Stage == {"new", "ensuring", "queued", "draining", "sending", "drained",
          "settled", "failed", "cancelled", "refused"}

(* A prompt is asked, then answered by the host (a call that awaits the    *)
(* driver before it looks at the state) or withdrawn with its turn.        *)
PromptStage == {"unused", "answering", "answered", "withdrawn"}
Prompt == PromptStage \cup Message

ASSUME MessageAssumption == Message \cap PromptStage = {}

TypeOK ==
    /\ state \in RuntimeStates
    /\ pendingQueue \in Seq(Message)
    /\ disposed \in BOOLEAN
    /\ absent \in BOOLEAN
    /\ pc \in [Message -> Stage]
    /\ item \in [Message -> {"open", "completed", "failed"}]
    /\ failures \in [Message -> 0..2]
    /\ prompt \in [Request -> Prompt]
    /\ sent \in Seq(Message)

Init ==
    /\ state = InitialState
    /\ pendingQueue = <<>>
    /\ disposed = FALSE
    /\ absent \in IF "absent" \in Env THEN BOOLEAN ELSE {FALSE}
    /\ pc = [m \in Message |-> "new"]
    /\ item = [m \in Message |-> "open"]
    /\ failures = [m \in Message |-> 0]
    /\ prompt = [r \in Request |-> "unused"]
    /\ sent = <<>>

-----------------------------------------------------------------------------
InFlight(m) == pc[m] \in {"sending", "drained"}

(* A turn whose message has left the queue and whose promise is pending.   *)
Live(m) == InFlight(m) \/ pc[m] = "draining"

(* Unless drivers are "slow", a turn that has reported its failure settles *)
(* before the host or another send gets to run.                            *)
Prompted == "slow" \in Env \/ \A m \in Message : InFlight(m) => item[m] # "failed"

(* pc after the parked messages are dropped.                               *)
Dropped == [m \in Message |-> IF pc[m] = "queued" THEN "cancelled" ELSE pc[m]]

(* The prompts of m are withdrawn when its turn is over.                   *)
Withdrawn(m) == [r \in Request |-> IF prompt[r] = m THEN "withdrawn" ELSE prompt[r]]

(* preflight(): the reducer is told preflight_ok whatever its status.      *)
Preflight ==
    /\ "preflight" \in Env \/ state.status = "idle"
    /\ Prompted
    /\ state' = IF absent THEN PreflightError(PreflightOk(state)) ELSE PreflightOk(state)
    /\ UNCHANGED <<pendingQueue, disposed, absent, pc, item, failures, prompt, sent>>

(* commands.sendMessage(m) up to its await of ensureDriver.                *)
SendCall(m) ==
    /\ pc[m] = "new"
    /\ ~disposed
    /\ Prompted
    /\ pc' = [pc EXCEPT ![m] = "ensuring"]
    /\ UNCHANGED <<state, pendingQueue, disposed, absent, item, failures, prompt, sent>>

(* The call goes on without a driver: it fails the runtime and throws.     *)
SendRefused(m) ==
    /\ pc[m] = "ensuring"
    /\ absent
    /\ pc' = [pc EXCEPT ![m] = "refused"]
    /\ failures' = [failures EXCEPT ![m] = 1]
    /\ state' = Error(state)
    /\ UNCHANGED <<pendingQueue, disposed, absent, item, prompt, sent>>

(* shouldQueue, computed before send_message is dispatched.                *)
MustParkWhileRunning(s) == s.status = "running"
MustPark(s) == s.status \notin {"ready", "idle", "preflighting"}

(* The call goes on with a driver.  From failed it first resets the state  *)
(* and drops the queue; then the message is parked or committed.           *)
SendResume(m) ==
    LET retry == state.status = "failed"
        base  == IF retry THEN Abort(state) ELSE state
        kept  == IF retry THEN <<>> ELSE pendingQueue
        stage == IF retry THEN Dropped ELSE pc
    IN  /\ pc[m] = "ensuring"
        /\ ~absent
        /\ Prompted
        /\ state' = SendMessage(base, m)
        /\ IF MustPark(base)
           THEN /\ pc' = [stage EXCEPT ![m] = "queued"]
                /\ pendingQueue' = Append(kept, m)
                /\ UNCHANGED sent
           ELSE /\ pc' = [stage EXCEPT ![m] = "sending"]
                /\ pendingQueue' = kept
                /\ sent' = Append(sent, m)
        /\ UNCHANGED <<disposed, absent, item, failures, prompt>>

(* drainEagerQueue goes on after ensureDriver and calls the driver.        *)
DrainResume(m) ==
    /\ pc[m] = "draining"
    /\ pc' = [pc EXCEPT ![m] = "drained"]
    /\ UNCHANGED <<state, pendingQueue, disposed, absent, item, failures, prompt, sent>>

-----------------------------------------------------------------------------
(* Items a pending turn appends.                                           *)

TurnAsks(m, r) ==
    /\ InFlight(m)
    /\ item[m] = "open"
    /\ prompt[r] = "unused"
    /\ "parallel" \in Env \/ \A q \in Request : prompt[q] \notin Message \cup {"answering"}
    /\ Prompted
    /\ prompt' = [prompt EXCEPT ![r] = m]
    /\ state' = PermissionRequest(state, r)
    /\ UNCHANGED <<pendingQueue, disposed, absent, pc, item, failures, sent>>

(* session_status 'running'.                                               *)
TurnRuns(m) ==
    /\ InFlight(m)
    /\ item[m] = "open"
    /\ state' = Starting(state)
    /\ UNCHANGED <<pendingQueue, disposed, absent, pc, item, failures, prompt, sent>>

(* turn_completed or turn_interrupted.                                     *)
TurnCompletes(m) ==
    /\ InFlight(m)
    /\ item[m] = "open"
    /\ \A r \in Request : prompt[r] # m
    /\ item' = [item EXCEPT ![m] = "completed"]
    /\ state' = TurnCompleted(state)
    /\ UNCHANGED <<pendingQueue, disposed, absent, pc, failures, prompt, sent>>

(* turn_failed.                                                            *)
TurnFailsAgain(m) ==
    /\ InFlight(m)
    /\ failures' = [failures EXCEPT ![m] = @ + 1]
    /\ state' = Error(state)
    /\ UNCHANGED <<pendingQueue, disposed, absent, pc, item, prompt, sent>>

TurnFails(m) ==
    /\ InFlight(m)
    /\ item[m] \in {"open", "completed"}
    /\ item' = [item EXCEPT ![m] = "failed"]
    /\ failures' = [failures EXCEPT ![m] = @ + 1]
    /\ state' = Error(state)
    /\ UNCHANGED <<pendingQueue, disposed, absent, pc, prompt, sent>>

-----------------------------------------------------------------------------
(* The driver's promise settles.                                           *)

(* drainEagerQueue: the oldest parked send, if any, is shifted off the     *)
(* queue.  The status is not consulted.                                    *)
NoDrain(m) ==
    /\ pc' = [pc EXCEPT ![m] = "settled"]
    /\ UNCHANGED <<pendingQueue, sent>>

DrainWithoutShift(m) ==
    IF pendingQueue = <<>> THEN NoDrain(m)
    ELSE /\ pc' = [pc EXCEPT ![m] = "settled", ![Head(pendingQueue)] = "draining"]
         /\ sent' = Append(sent, Head(pendingQueue))
         /\ UNCHANGED pendingQueue

DrainEagerQueue(m) ==
    IF pendingQueue = <<>> THEN NoDrain(m)
    ELSE /\ pc' = [pc EXCEPT ![m] = "settled", ![Head(pendingQueue)] = "draining"]
         /\ sent' = Append(sent, Head(pendingQueue))
         /\ pendingQueue' = Tail(pendingQueue)

(* It resolves: complete is dispatched and the queue drained.              *)
TurnResolves(m) ==
    /\ InFlight(m)
    /\ "swallow" \in Env \/ item[m] # "failed"
    /\ \A r \in Request : prompt[r] # m
    /\ state' = Complete(state)
    /\ DrainEagerQueue(m)
    /\ UNCHANGED <<disposed, absent, item, failures, prompt>>

(* reportSendFailure: fail the state, and append a turn_failed item unless *)
(* the state is failed already.                                            *)
ReportSendFailureTwice(m) ==
    /\ state' = Error(state)
    /\ failures' = [failures EXCEPT ![m] = @ + 1]

ReportSendFailure(m) ==
    /\ state' = Error(state)
    /\ failures' = IF state.status = "failed" THEN failures
                   ELSE [failures EXCEPT ![m] = @ + 1]

(* It throws.  Only the drain also empties the queue.                      *)
TurnThrows(m) ==
    /\ InFlight(m)
    /\ item[m] \in {"open", "failed"}
    /\ ReportSendFailure(m)
    /\ IF pc[m] = "drained"
       THEN /\ pc' = [Dropped EXCEPT ![m] = "failed"]
            /\ pendingQueue' = <<>>
       ELSE /\ pc' = [pc EXCEPT ![m] = "failed"]
            /\ UNCHANGED pendingQueue
    /\ prompt' = Withdrawn(m)
    /\ UNCHANGED <<disposed, absent, item, sent>>

-----------------------------------------------------------------------------
(* respondToPermission(r) up to the return of the driver: a driver that    *)
(* still holds r appends permission_resolved, one that does not ignores    *)
(* the call.                                                               *)
Respond(r) ==
    /\ prompt[r] \in Message \cup {"withdrawn"}
    /\ Prompted
    /\ prompt' = [prompt EXCEPT ![r] = "answering"]
    /\ state' = IF prompt[r] \in Message THEN PermissionResponse(state) ELSE state
    /\ UNCHANGED <<pendingQueue, disposed, absent, pc, item, failures, sent>>

(* ... and after it: the state leaves waiting_for_permission only if r is  *)
(* the request it waits for.                                               *)
RespondReturns(r) ==
    /\ prompt[r] = "answering"
    /\ prompt' = [prompt EXCEPT ![r] = "answered"]
    /\ state' = IF /\ state.status = "waiting_for_permission"
                   /\ state.waiting \in {NoRequest, r}
                THEN PermissionResponse(state)
                ELSE state
    /\ UNCHANGED <<pendingQueue, disposed, absent, pc, item, failures, sent>>

(* abort(): the queue is dropped at once; the interrupted turn settles     *)
(* later, as any turn does.                                                *)
AbortCall ==
    /\ "abort" \in Env
    /\ Prompted
    /\ state' = Abort(state)
    /\ pc' = Dropped
    /\ pendingQueue' = <<>>
    /\ UNCHANGED <<disposed, absent, item, failures, prompt, sent>>

(* dispose(): the driver denies the prompts it holds.                      *)
DisposeCall ==
    /\ "dispose" \in Env
    /\ ~disposed
    /\ Prompted
    /\ disposed' = TRUE
    /\ state' = Dispose(state)
    /\ pc' = Dropped
    /\ pendingQueue' = <<>>
    /\ prompt' = [r \in Request |-> IF prompt[r] \in Message THEN "withdrawn" ELSE prompt[r]]
    /\ UNCHANGED <<absent, item, failures, sent>>

Send(m) == SendRefused(m) \/ SendResume(m) \/ DrainResume(m)

Turn(m) == TurnRuns(m) \/ TurnCompletes(m) \/ TurnFails(m)

Settle(m) == TurnResolves(m) \/ TurnThrows(m)

Next ==
    \/ Preflight \/ AbortCall \/ DisposeCall
    \/ \E m \in Message : SendCall(m) \/ Send(m) \/ Turn(m) \/ Settle(m)
    \/ \E m \in Message, r \in Request : TurnAsks(m, r)
    \/ \E r \in Request : Respond(r) \/ RespondReturns(r)

Spec == Init /\ [][Next]_vars

(* Awaited promises are resumed, a turn that waits for no answer settles,  *)
(* and a host answers the prompts it is shown.  Nothing obliges a host to  *)
(* send, abort or dispose, nor a driver to report an item.                 *)
Fairness ==
    /\ \A m \in Message :
          /\ WF_vars(Send(m))
          /\ WF_vars(Settle(m) /\ \A r \in Request : prompt[r] # m)
    /\ \A r \in Request : WF_vars(Respond(r)) /\ WF_vars(RespondReturns(r))

FairSpec == Spec /\ Fairness

-----------------------------------------------------------------------------
(* Correctness.                                                            *)

(* Every message is committed at most once, parked messages leave in the   *)
(* order they came, and a cancelled message never comes back: the scaffold *)
(* implements TurnQueue with its pendingQueue.                             *)
FateOf(stage) ==
    CASE stage \in {"new", "ensuring"}      -> "new"
      [] stage = "queued"                   -> "queued"
      [] stage \in {"cancelled", "refused"} -> "cancelled"
      [] OTHER                              -> "sent"

fate == [m \in Message |-> FateOf(pc[m])]

TQ == INSTANCE TurnQueue WITH queue <- pendingQueue

ImplementsTurnQueue == TQ!Spec

(* A send issued while a turn is in flight queues and does not race it: at *)
(* most one message is with the driver at any time.                        *)
SingleFlight == \A m, n \in Message : Live(m) /\ Live(n) => m = n

(* The pendingQueue and the reducer's queuedMessages hold the same         *)
(* messages, so getState() shows the host what will really be sent.        *)
QueueMirrorsReducer ==
    state.status \notin Terminal => pendingQueue = state.queued

(* The messages the reducer shows as accepted are those committed to the   *)
(* driver, in the same order.                                              *)
AcceptedIsSent ==
    state.status # "disposed" => state.accepted = sent

(* The runtime never looks busy for ever: a status that only the end of a  *)
(* turn can clear is shown only while some turn is under way.              *)
BusyHasTurn ==
    state.status \in Busy \cup {"starting"} => \E m \in Message : Live(m)

(* While the driver holds a prompt open, the status tells the host so.     *)
OpenPromptIsShown ==
    (\E r \in Request : prompt[r] \in Message) =>
        state.status \in {"waiting_for_permission", "failed", "disposed"}

(* A failed send leaves one turn_failed item on the timeline: not none, and *)
(* not a generic one on top of the driver's own.                           *)
FailureReportedOnce ==
    \A m \in Message : pc[m] \in {"failed", "refused"} => failures[m] = 1

(* What getState() and the timeline tell the host is so.                   *)
StateIsTrue ==
    AcceptedIsSent /\ BusyHasTurn /\ OpenPromptIsShown /\ FailureReportedOnce

(* A parked send leaves the queue, unless the runtime fails first.         *)
QueueDrains ==
    \A m \in Message : pc[m] = "queued" ~> (pc[m] # "queued" \/ state.status = "failed")
=============================================================================

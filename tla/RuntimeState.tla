---------------------------- MODULE RuntimeState ----------------------------
(***************************************************************************)
(* The runtime lifecycle reducer, runtime-core/src/state.ts.               *)
(*                                                                         *)
(* reduceRuntimeState(state, action) is a pure function; here each action  *)
(* type is one operator on the state record, so a component dispatches an  *)
(* action by writing  state' = SendMessage(state, m).  A message string is *)
(* an element of Message and a permission request id an element of         *)
(* Request.  lastError is left out: no branch of the reducer reads it.     *)
(***************************************************************************)
EXTENDS Naturals, Sequences

CONSTANTS
    Message,     \* the messages a host may send
    Blank,       \* the empty string; hosts that never send one leave it out of Message
    Request,     \* permission request identifiers
    NoRequest    \* waitingPermissionRequestId = undefined

ASSUME NoRequestAssumption == NoRequest \notin Request

Status ==
    {"idle", "preflighting", "ready", "starting", "running",
     "waiting_for_permission", "turn_completed", "failed", "disposed"}

RuntimeStates ==
    [status  : Status,
     accepted: Seq(Message),
     queued  : Seq(Message),
     waiting : Request \cup {NoRequest}]

InitialState ==
    [status |-> "idle", accepted |-> <<>>, queued |-> <<>>, waiting |-> NoRequest]

(* The statuses from which send_message parks the message.                 *)
Busy == {"running", "waiting_for_permission", "turn_completed"}

(* The statuses a late turn signal must not overwrite.                     *)
Terminal == {"failed", "disposed"}

-----------------------------------------------------------------------------
PreflightStart(s) == [s EXCEPT !.status = "preflighting"]
PreflightOk(s)    == [s EXCEPT !.status = "ready"]
PreflightError(s) == [s EXCEPT !.status = "failed"]

(* A definition that no other refers to is a slip of the one after it.     *)

Starting(s) ==
    IF s.status \in {"ready", "idle"} THEN [s EXCEPT !.status = "starting"] ELSE s

Accept(s, m) ==
    [s EXCEPT !.status = "running", !.accepted = Append(@, m)]

SendMessage(s, m) ==
    IF s.status \in Busy THEN [s EXCEPT !.queued = Append(@, m)]
    ELSE IF s.status \in Terminal THEN s
    ELSE Accept(s, m)

PermissionRequest(s, r) ==
    [s EXCEPT !.status = "waiting_for_permission", !.waiting = r]

PermissionResponse(s) ==
    [s EXCEPT !.status = "running", !.waiting = NoRequest]

TurnCompleted(s) ==
    IF s.status = "running" THEN [s EXCEPT !.status = "turn_completed"] ELSE s

(* complete drains the reducer's own queue: its head becomes the accepted  *)
(* message of the next turn.  The code tests the head itself for truth     *)
(* ("if (nextMessage)"), so an empty string at the head counts as no       *)
(* message: the status becomes ready and the string stays where it is.     *)
Complete(s) ==
    IF s.status \in Terminal THEN s
    ELSE IF s.queued = <<>> \/ Head(s.queued) = Blank
         THEN [s EXCEPT !.status = "ready"]
    ELSE [Accept(s, Head(s.queued)) EXCEPT !.queued = Tail(@)]

(* abort has no guard on the status it leaves.                             *)
AbortKeepsQueue(s) == [s EXCEPT !.status = "ready", !.waiting = NoRequest]

Abort(s) ==
    [s EXCEPT !.status = "ready", !.queued = <<>>, !.waiting = NoRequest]

Error(s) == [s EXCEPT !.status = "failed"]

Dispose(s) ==
    [s EXCEPT !.status = "disposed", !.queued = <<>>, !.waiting = NoRequest]

ReplayReconcile(s, status, r) ==
    [s EXCEPT !.status = status, !.queued = <<>>, !.waiting = r]
=============================================================================

------------------------------ MODULE RunServer ------------------------------
(***************************************************************************)
(* The Flitro server, as the client in providers/src/flitro relies on it:  *)
(* an accepted message is a run, a run reports itself in the durable log   *)
(* of the session, and a restart of the server gives that log a new epoch. *)
(* The server is not part of the repository.                               *)
(*                                                                         *)
(* A run asks for at most one permission and suspends on at most one       *)
(* client-side tool; the request and the call are named after its turn.    *)
(***************************************************************************)
EXTENDS Naturals, Sequences

CONSTANTS
    Message,     \* a message names its turn, its run, its request and its call
    MaxEpoch     \* bound on the restarts of the server

VARIABLES
    run,         \* run[m]: the run of m
    log,         \* the durable log; an item's index is its seq in every epoch
    served,      \* the epoch under which the log is served
    cancelled    \* the runs cancelRun was called for

RunStage == {"none", "running", "asking", "suspended", "over"}

(* session_status running and ended, permission_requested and _resolved,   *)
(* tool_suspended, tool_resumed, tool_result, turn_completed (as well as   *)
(* turn_interrupted) and turn_failed.                                      *)
ItemType ==
    {"running", "ended", "asked", "resolved", "suspended", "resumed", "result",
     "completed", "failed"}

Item == [type : ItemType, turn : Message]

ServerTypeOK ==
    /\ run \in [Message -> RunStage]
    /\ log \in Seq(Item)
    /\ served \in 0..MaxEpoch
    /\ cancelled \subseteq Message

(* The log's first epoch is the one the client was configured with (0) or  *)
(* one of the server's own.                                                *)
ServerInit(first) ==
    /\ run = [m \in Message |-> "none"]
    /\ log = <<>>
    /\ served = first
    /\ cancelled = {}

-----------------------------------------------------------------------------
Reported(type, m) == \E i \in DOMAIN log : log[i] = [type |-> type, turn |-> m]

Report(m, stage, type) ==
    /\ run' = [run EXCEPT ![m] = stage]
    /\ log' = Append(log, [type |-> type, turn |-> m])
    /\ UNCHANGED <<served, cancelled>>

RunStarts(m) == run[m] = "none" /\ Report(m, "running", "running")

RunAsks(m) ==
    /\ run[m] = "running"
    /\ ~Reported("asked", m)
    /\ Report(m, "asking", "asked")

RunAnswered(m) == run[m] = "asking" /\ Report(m, "running", "resolved")

RunSuspends(m) ==
    /\ run[m] = "running"
    /\ ~Reported("suspended", m)
    /\ Report(m, "suspended", "suspended")

RunResumes(m) == \E type \in {"resumed", "result"} :
    run[m] = "suspended" /\ Report(m, "running", type)

RunEnds(m, type) == run[m] = "running" /\ Report(m, "over", type)

RunCancelled(m) == \E type \in {"completed", "ended"} :
    /\ m \in cancelled
    /\ run[m] \in {"running", "asking", "suspended"}
    /\ Report(m, "over", type)

Restart ==
    /\ served < MaxEpoch
    /\ served' = served + 1
    /\ UNCHANGED <<run, log, cancelled>>
=============================================================================

---------------------------- MODULE ClaudeDriver ----------------------------
(***************************************************************************)
(* The Claude driver (providers/src/claude/native-sdk-driver.ts) over the  *)
(* query of the Agent SDK.                                                 *)
(*                                                                         *)
(* A send is one query: the driver loads the SDK, starts the query and     *)
(* reads its messages until it ends.  Beside that loop the SDK calls back: *)
(* the PreToolUse hook, which asks the policy, and canUseTool, which asks  *)
(* the host.  An action is the code between two awaits.                    *)
(*                                                                         *)
(* A message names its turn, the session that a new query of it starts,    *)
(* and the one tool call that needs a verdict.  A definition that no other *)
(* refers to is a slip of the one after it.                                *)
(***************************************************************************)
EXTENDS Naturals

CONSTANTS
    Message,     \* the messages a host may send
    Env          \* what hosts and the SDK may do; see EnvKinds

EnvKinds ==
    {"abort",      \* the host calls abort()
     "dispose",    \* the host calls dispose()
     "early",      \* either of them while the SDK is loaded
     "hasty",      \* it sends again before the turn it aborted is over
     "bare",       \* a tool call may come without the hook
     "fails",      \* loading, turns and queries may fail
     "late"}       \* a query may throw after its result

ASSUME ClaudeAssumption == Env \subseteq EnvKinds

NoTurn == "no turn"
ASSUME TurnAssumption == NoTurn \notin Message

VARIABLES
    pc,                 \* pc[m]: what the send of m awaits
    activeQuery,        \* the turn whose query abort() would interrupt
    warm,               \* warmQueryHandle is there
    providerSessionId,  \* the session captured last
    policyDecisions,    \* the calls whose verdict the hook has kept
    call,               \* call[m]: the tool call of m in the driver
    disposed,           \* the host has called dispose()
    closing,            \* which awaits the end of the query
    session,            \* session[m]: the session of m's query
    hooked,             \* the queries that were given the driver's callbacks
    halted,             \* the queries that were interrupted
    closed,             \* the queries whose iterator was asked to return
    said,               \* said[m]: how far the query of m has come
    item,               \* history: the terminal item on the timeline for m
    stopped,            \* history: the sends in flight when abort() was called
    judged              \* history: judged[m]: verdicts asked for m's call, up to 2

driver == <<pc, activeQuery, warm, providerSessionId>>
calls == <<policyDecisions, call, judged>>
ending == <<disposed, closing, stopped>>
sdk == <<session, hooked, halted, closed, said>>
vars == <<driver, calls, ending, sdk, item>>

InFlight(m) == pc[m] \in {"loading", "reading"}

(* The types; and a query is active only while its messages are read.      *)
TypeOK ==
    /\ pc \in [Message -> {"new", "loading", "reading", "resolved", "rejected"}]
    /\ {activeQuery, providerSessionId} \subseteq Message \cup {NoTurn}
    /\ {warm, disposed, closing} \subseteq BOOLEAN
    /\ policyDecisions \cup hooked \cup halted \cup closed \cup stopped \subseteq Message
    /\ call \in [Message -> {"none", "hook", "deferred", "judging", "open", "over"}]
    /\ session \in [Message -> Message \cup {NoTurn}]
    /\ said \in [Message -> {"nothing", "init", "result"}]
    /\ item \in [Message -> {"open", "completed", "failed"}]
    /\ judged \in [Message -> 0..2]
    /\ activeQuery # NoTurn => pc[activeQuery] = "reading"

Init ==
    /\ pc = [m \in Message |-> "new"]
    /\ activeQuery = NoTurn
    /\ warm \in BOOLEAN
    /\ providerSessionId = NoTurn
    /\ policyDecisions = {}
    /\ call = [m \in Message |-> "none"]
    /\ disposed = FALSE
    /\ closing = FALSE
    /\ session = [m \in Message |-> NoTurn]
    /\ hooked = {}
    /\ halted = {}
    /\ closed = {}
    /\ said = [m \in Message |-> "nothing"]
    /\ item = [m \in Message |-> "open"]
    /\ stopped = {}
    /\ judged = [m \in Message |-> 0]

-----------------------------------------------------------------------------
(* sendMessage.                                                            *)

StartQueryAnew(m) ==
    /\ pc' = [pc EXCEPT ![m] = "reading"]
    /\ activeQuery' = m
    /\ session' = [session EXCEPT ![m] = m]
    /\ hooked' = hooked \cup {m}

(* A query goes on with the session it is given, or starts one.            *)
StartQuery(m) ==
    /\ pc' = [pc EXCEPT ![m] = "reading"]
    /\ activeQuery' = m
    /\ session' = [session EXCEPT ![m] =
                      IF providerSessionId # NoTurn THEN providerSessionId ELSE m]
    /\ hooked' = hooked \cup {m}

(* The warm query is used up.  It was made without the driver's options:   *)
(* it has no session to go on with, and not the driver's callbacks.        *)
WarmQuery(m) ==
    /\ pc' = [pc EXCEPT ![m] = "reading"]
    /\ activeQuery' = m
    /\ session' = [session EXCEPT ![m] = m]
    /\ warm' = FALSE
    /\ UNCHANGED hooked

SendCall(m) ==
    /\ pc[m] = "new"
    /\ ~disposed
    /\ \A n \in Message : InFlight(n) => n \in stopped /\ "hasty" \in Env
    /\ IF warm
       THEN WarmQuery(m)
       ELSE /\ pc' = [pc EXCEPT ![m] = "loading"]
            /\ UNCHANGED <<activeQuery, session, hooked, warm>>
    /\ UNCHANGED <<providerSessionId, calls, ending, halted, closed, said, item>>

(* The finally block, which clears the fields whoever has set them.        *)
FinallyKeepsQuery(m, outcome) ==
    /\ pc' = [pc EXCEPT ![m] = outcome]
    /\ policyDecisions' = {}
    /\ UNCHANGED activeQuery

Finally(m, outcome) ==
    /\ pc' = [pc EXCEPT ![m] = outcome]
    /\ activeQuery' = NoTurn
    /\ policyDecisions' = {}

LoadReturns(m) ==
    /\ pc[m] = "loading"
    /\ \/ /\ StartQuery(m)
          /\ UNCHANGED <<policyDecisions, item>>
       \/ /\ "fails" \in Env
          /\ Finally(m, "rejected")
          /\ item' = [item EXCEPT ![m] = "failed"]
          /\ UNCHANGED <<session, hooked>>
    /\ UNCHANGED <<warm, providerSessionId, call, judged, ending, halted, closed, said>>

-----------------------------------------------------------------------------
(* The loop over the messages of the query.                                *)

SdkMessage ==
    {"init", "text delta", "thinking delta", "tool start", "text", "thinking",
     "tool use", "advisor result", "tool result", "success", "error",
     "progress", "rate limit", "task", "denied", "compacted", "status"}

ProjectSystemEndingTasks(kind) ==
    CASE kind = "task" -> "turn_completed"
      [] kind = "denied" -> "permission_resolved"
      [] kind = "compacted" -> "compaction_boundary"
      [] OTHER -> "session_status"

(* The end of a background task is not the end of the turn.                *)
ProjectSystem(kind) ==
    CASE kind = "task" -> "task_event"
      [] kind = "denied" -> "permission_resolved"
      [] kind = "compacted" -> "compaction_boundary"
      [] OTHER -> "session_status"

ProjectStream(kind) ==
    CASE kind = "text delta" -> "assistant_message_delta"
      [] kind = "thinking delta" -> "reasoning_delta"
      [] kind = "tool start" -> "tool_call"

ProjectAssistant(block) ==
    CASE block = "text" -> "assistant_message"
      [] block = "thinking" -> "reasoning"
      [] block = "tool use" -> "tool_call"
      [] block = "advisor result" -> "tool_result"

ProjectResult(kind) == IF kind = "success" THEN "turn_completed" ELSE "turn_failed"

(* The item that a message (or a block of one) becomes.                    *)
Project(kind) ==
    CASE kind \in {"text delta", "thinking delta", "tool start"} -> ProjectStream(kind)
      [] kind \in {"text", "thinking", "tool use", "advisor result"} -> ProjectAssistant(kind)
      [] kind = "tool result" -> "tool_result"
      [] kind \in {"success", "error"} -> ProjectResult(kind)
      [] kind = "progress" -> "tool_call"
      [] kind = "rate limit" -> "rate_limit"
      [] OTHER -> ProjectSystem(kind)

TerminalItems == [turn_completed |-> "completed", turn_failed |-> "failed"]

(* The SDK says init first and its result last; a result waits for the     *)
(* tool call, unless the query is interrupted.                             *)
Says(m, kind) ==
    /\ kind = "init" <=> said[m] = "nothing"
    /\ said[m] # "result"
    /\ kind = "error" => "fails" \in Env \/ m \in halted
    /\ kind \in {"success", "error"} => m \in halted \/ call[m] \in {"none", "over"}
    /\ said' = [said EXCEPT ![m] =
                   IF kind = "init" THEN "init"
                   ELSE IF kind \in {"success", "error"} THEN "result" ELSE @]

(* projectSdkMessage: every message names the session.                     *)
ReadMessage(m) == \E kind \in SdkMessage :
    /\ pc[m] = "reading"
    /\ Says(m, kind)
    /\ providerSessionId' = session[m]
    /\ item' = IF Project(kind) \in DOMAIN TerminalItems
               THEN [item EXCEPT ![m] = TerminalItems[Project(kind)]]
               ELSE item
    /\ UNCHANGED <<pc, activeQuery, warm, calls, ending, session, hooked, halted, closed>>

(* The loop ends: after the result, after an interruption, or because the  *)
(* iterator was asked to return.  An async generator returns only when the *)
(* message it waits for has come, and none comes while the query waits for *)
(* the host.                                                               *)
ReadEnd(m) ==
    /\ pc[m] = "reading"
    /\ \/ said[m] = "result"
       \/ m \in halted
       \/ m \in closed /\ call[m] # "open"
    /\ Finally(m, "resolved")
    /\ UNCHANGED <<warm, providerSessionId, call, judged, ending, sdk, item>>

(* The query throws.                                                       *)
ReadThrows(m) ==
    /\ "fails" \in Env
    /\ pc[m] = "reading"
    /\ said[m] = "result" => "late" \in Env
    /\ item' = [item EXCEPT ![m] = "failed"]
    /\ Finally(m, "rejected")
    /\ UNCHANGED <<warm, providerSessionId, call, judged, ending, sdk>>

-----------------------------------------------------------------------------
(* Tool calls.                                                             *)

Calls(m) ==
    /\ pc[m] = "reading"
    /\ m \in hooked
    /\ said[m] = "init"
    /\ m \notin halted

Judge(m) == judged' = [judged EXCEPT ![m] = IF @ < 2 THEN @ + 1 ELSE @]

(* handlePreToolUseHook, before and after the policy's verdict.  Only a    *)
(* verdict that leaves the question to the host is kept.                   *)
HookCalled(m) ==
    /\ Calls(m)
    /\ call[m] = "none"
    /\ call' = [call EXCEPT ![m] = "hook"]
    /\ Judge(m)
    /\ UNCHANGED <<driver, policyDecisions, ending, sdk, item>>

HookReturnsUncached(m) ==
    /\ call[m] = "hook"
    /\ \E verdict \in {"over", "deferred"} : call' = [call EXCEPT ![m] = verdict]
    /\ UNCHANGED <<driver, policyDecisions, judged, ending, sdk, item>>

HookReturns(m) ==
    /\ call[m] = "hook"
    /\ \/ /\ call' = [call EXCEPT ![m] = "over"]
          /\ UNCHANGED policyDecisions
       \/ /\ call' = [call EXCEPT ![m] = "deferred"]
          /\ policyDecisions' = policyDecisions \cup {m}
    /\ UNCHANGED <<driver, judged, ending, sdk, item>>

(* handleCanUseTool, before and after the verdict it may have to ask for.  *)
CanUseTool(m) ==
    /\ Calls(m)
    /\ \/ call[m] = "deferred"
       \/ call[m] = "none" /\ "bare" \in Env
    /\ IF m \in policyDecisions
       THEN /\ policyDecisions' = policyDecisions \ {m}
            /\ call' = [call EXCEPT ![m] = "open"]
            /\ UNCHANGED judged
       ELSE /\ call' = [call EXCEPT ![m] = "judging"]
            /\ Judge(m)
            /\ UNCHANGED policyDecisions
    /\ UNCHANGED <<driver, ending, sdk, item>>

JudgeReturns(m) ==
    /\ call[m] = "judging"
    /\ \E verdict \in {"over", "open"} : call' = [call EXCEPT ![m] = verdict]
    /\ UNCHANGED <<driver, policyDecisions, judged, ending, sdk, item>>

(* respondToPermission.                                                    *)
Respond(m) ==
    /\ call[m] = "open"
    /\ call' = [call EXCEPT ![m] = "over"]
    /\ UNCHANGED <<driver, policyDecisions, judged, ending, sdk, item>>

(* The SDK aborts the signal of a prompt whose query is interrupted.       *)
Withdraw(m) ==
    /\ m \in halted
    /\ Respond(m)

-----------------------------------------------------------------------------
Reachable == "early" \in Env \/ \A m \in Message : pc[m] # "loading"

Active == {activeQuery} \ {NoTurn}

(* abort(): the active query, if any, is interrupted.  The SDK's queries   *)
(* all have interrupt(); the branch for those that have not is left out.   *)
AbortByReturning ==
    /\ "abort" \in Env
    /\ ~disposed
    /\ Reachable
    /\ closed' = closed \cup Active
    /\ stopped' = stopped \cup {m \in Message : InFlight(m)}
    /\ UNCHANGED <<driver, calls, disposed, closing, session, hooked, halted, said, item>>

Abort ==
    /\ "abort" \in Env
    /\ ~disposed
    /\ Reachable
    /\ halted' = halted \cup Active
    /\ stopped' = stopped \cup {m \in Message : InFlight(m)}
    /\ UNCHANGED <<driver, calls, disposed, closing, session, hooked, closed, said, item>>

(* dispose(): the open prompts are denied when the query has ended.        *)
Dispose ==
    /\ "dispose" \in Env
    /\ ~disposed
    /\ Reachable
    /\ disposed' = TRUE
    /\ closing' = TRUE
    /\ warm' = FALSE
    /\ closed' = closed \cup Active
    /\ UNCHANGED <<pc, activeQuery, providerSessionId, calls, stopped, session, hooked, halted, said, item>>

CloseReturns ==
    /\ closing
    /\ \A m \in closed : ~InFlight(m)
    /\ closing' = FALSE
    /\ call' = [m \in Message |-> IF call[m] = "open" THEN "over" ELSE call[m]]
    /\ UNCHANGED <<driver, policyDecisions, judged, disposed, stopped, sdk, item>>

-----------------------------------------------------------------------------
Next ==
    \/ Abort \/ Dispose \/ CloseReturns
    \/ \E m \in Message :
          \/ SendCall(m) \/ LoadReturns(m)
          \/ ReadMessage(m) \/ ReadEnd(m) \/ ReadThrows(m)
          \/ HookCalled(m) \/ HookReturns(m) \/ CanUseTool(m) \/ JudgeReturns(m)
          \/ Respond(m) \/ Withdraw(m)

Spec == Init /\ [][Next]_vars

(* Promises go on and the policy decides.  No query is obliged to come to  *)
(* a result, and no host to answer.                                        *)
FairSpec ==
    /\ Spec
    /\ WF_vars(CloseReturns)
    /\ \A m \in Message :
          /\ WF_vars(LoadReturns(m)) /\ WF_vars(ReadEnd(m)) /\ WF_vars(Withdraw(m))
          /\ WF_vars(HookReturns(m)) /\ WF_vars(JudgeReturns(m))

-----------------------------------------------------------------------------
(* Correctness.                                                            *)

(* "multi-turn conversations keep their context": turns that completed     *)
(* were turns of one session, whichever turns failed or were aborted in    *)
(* between.                                                                *)
OneConversation ==
    \A m, n \in Message :
        item[m] = "completed" /\ item[n] = "completed" => session[m] = session[n]

(* "so the policy runs once per tool call": however the hook, canUseTool   *)
(* and the end of other turns fall.                                        *)
JudgedOnce == \A m \in Message : judged[m] <= 1

(* The driver keeps what the eager scaffold relies on, but that a turn     *)
(* which reported its failure may resolve.                                 *)
turn == [m \in Message |->
            IF pc[m] = "new" THEN "idle" ELSE IF InFlight(m) THEN "pending" ELSE pc[m]]

TD == INSTANCE TurnDriver WITH Swallows <- TRUE

ImplementsTurnDriver == TD!Spec

(* A send that was aborted settles, though a prompt is open and nobody     *)
(* answers; and dispose() comes to its end, unless it waits for a prompt.  *)
AbortSettles == \A m \in Message : m \in stopped ~> ~InFlight(m)

DisposeReturns == closing ~> (~closing \/ \E m \in closed : call[m] = "open")

NothingHangs == AbortSettles /\ DisposeReturns
=============================================================================

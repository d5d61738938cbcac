-------------------------- MODULE ClaudeDriverProofs --------------------------
(* Proofs about ClaudeDriver, for every set of messages.                   *)
EXTENDS ClaudeDriver, TLAPS

(* Without "hasty" the scaffold's promise: one send at a time.             *)
OneInFlight == \A m, n \in Message : InFlight(m) /\ InFlight(n) => m = n

(* A terminal item comes with the result, or with the exception.           *)
ItemInv ==
    \A m \in Message :
       /\ item[m] # "open" => said[m] = "result" \/ pc[m] = "rejected"
       /\ pc[m] \in {"new", "loading"} => said[m] = "nothing"

(* A query whose messages are read is of the session captured last, unless *)
(* none was; the warm query, which would start another, is the first.      *)
ConversationInv ==
    /\ warm => providerSessionId = NoTurn /\ \A m \in Message : pc[m] = "new"
    /\ \A m \in Message :
          /\ pc[m] \in {"new", "loading"} => item[m] = "open"
          /\ pc[m] = "reading" => session[m] \in {m, providerSessionId} \ {NoTurn}
          /\ pc[m] = "reading" /\ providerSessionId # NoTurn => session[m] = providerSessionId
          /\ item[m] = "completed" => providerSessionId # NoTurn /\ session[m] = providerSessionId

(* The verdict of the hook is kept for as long as canUseTool may want it.  *)
VerdictInv ==
    \A m \in Message :
       /\ pc[m] \in {"new", "loading"} => call[m] = "none"
       /\ call[m] = "none" => judged[m] = 0
       /\ judged[m] <= 1
       /\ call[m] = "deferred" /\ pc[m] = "reading" => m \in policyDecisions

AloneInv == TypeOK /\ OneInFlight /\ ConversationInv /\ VerdictInv
RefinementInv == TypeOK /\ ItemInv

-----------------------------------------------------------------------------
(* Which messages end the turn.                                            *)
LEMMA Ends ==
    ASSUME NEW kind \in SdkMessage
    PROVE  /\ Project(kind) \in DOMAIN TerminalItems <=> kind \in {"success", "error"}
           /\ kind = "success" => TerminalItems[Project(kind)] = "completed"
           /\ kind = "error" => TerminalItems[Project(kind)] = "failed"
<1>1. DOMAIN TerminalItems = {"turn_completed", "turn_failed"}
  BY DEF TerminalItems
<1>2. TerminalItems["turn_completed"] = "completed" /\ TerminalItems["turn_failed"] = "failed"
  BY DEF TerminalItems
<1>3. CASE kind \in {"success", "error"}
  <2>1. Project(kind) = IF kind = "success" THEN "turn_completed" ELSE "turn_failed"
    BY <1>3 DEF Project, ProjectResult
  <2>2. QED
    BY <1>1, <1>2, <1>3, <2>1
<1>4. CASE kind \notin {"success", "error"}
  <2>1. CASE kind \in {"text delta", "thinking delta", "tool start"}
    BY <1>1, <1>4, <2>1 DEF Project, ProjectStream
  <2>2. CASE kind \in {"text", "thinking", "tool use", "advisor result"}
    BY <1>1, <1>4, <2>2 DEF Project, ProjectAssistant
  <2>3. CASE kind \in {"init", "tool result", "progress", "rate limit", "task", "denied",
                      "compacted", "status"}
    BY <1>1, <1>4, <2>3 DEF Project, ProjectSystem
  <2>4. QED
    BY <1>4, <2>1, <2>2, <2>3 DEF SdkMessage
<1>5. QED
  BY <1>3, <1>4

(* What a message does to its turn.                                        *)
LEMMA Reading ==
    ASSUME TypeOK, NEW m \in Message, ReadMessage(m)
    PROVE  /\ pc[m] = "reading"
           /\ providerSessionId' = session[m]
           /\ said[m] # "result"
           /\ said' \in [Message -> {"nothing", "init", "result"}]
           /\ item' \in [Message -> {"open", "completed", "failed"}]
           /\ \A n \in Message : n # m => said'[n] = said[n] /\ item'[n] = item[n]
           /\ \/ item'[m] = item[m]
              \/ item'[m] \in {"completed", "failed"} /\ said'[m] = "result"
           /\ UNCHANGED <<pc, activeQuery, warm, calls, ending, session, hooked, halted, closed>>
<1>1. PICK kind \in SdkMessage :
        /\ pc[m] = "reading"
        /\ Says(m, kind)
        /\ providerSessionId' = session[m]
        /\ item' = IF Project(kind) \in DOMAIN TerminalItems
                   THEN [item EXCEPT ![m] = TerminalItems[Project(kind)]]
                   ELSE item
        /\ UNCHANGED <<pc, activeQuery, warm, calls, ending, session, hooked, halted, closed>>
  BY DEF ReadMessage
<1>2. /\ said[m] # "result"
      /\ said' = [said EXCEPT ![m] = IF kind = "init" THEN "init"
                      ELSE IF kind \in {"success", "error"} THEN "result" ELSE said[m]]
  BY <1>1 DEF Says, TypeOK
<1>3. CASE kind \in {"success", "error"}
  <2>1. item' = [item EXCEPT ![m] = IF kind = "success" THEN "completed" ELSE "failed"]
    BY <1>1, <1>3, Ends
  <2>2. said'[m] = "result"
    BY <1>2, <1>3 DEF TypeOK
  <2>3. QED
    BY <1>1, <1>2, <2>1, <2>2 DEF TypeOK
<1>4. CASE kind \notin {"success", "error"}
  <2>1. item' = item
    BY <1>1, <1>4, Ends
  <2>2. QED
    BY <1>1, <1>2, <2>1 DEF TypeOK
<1>5. QED
  BY <1>3, <1>4

-----------------------------------------------------------------------------
(* The types.                                                              *)

LEMMA TypeInit == Init => TypeOK
<1> SUFFICES ASSUME Init PROVE TypeOK
  OBVIOUS
<1> USE DEF Init
<1>1. {activeQuery, providerSessionId} \subseteq Message \cup {NoTurn}
  OBVIOUS
<1>2. judged \in [Message -> 0..2]
  OBVIOUS
<1>3. call \in [Message -> {"none", "hook", "deferred", "judging", "open", "over"}]
  OBVIOUS
<1>4. session \in [Message -> Message \cup {NoTurn}]
  OBVIOUS
<1>5. policyDecisions \cup hooked \cup halted \cup closed \cup stopped \subseteq Message
  OBVIOUS
<1>6. QED
  BY <1>1, <1>2, <1>3, <1>4, <1>5 DEF TypeOK

(* A query is started: whose session it is of, and that it is active.      *)
LEMMA Starting ==
    ASSUME TypeOK, NEW m \in Message, NEW s \in Message,
           pc' = [pc EXCEPT ![m] = "reading"],
           session' = [session EXCEPT ![m] = s]
    PROVE  /\ pc' \in [Message -> {"new", "loading", "reading", "resolved", "rejected"}]
           /\ session' \in [Message -> Message \cup {NoTurn}]
           /\ \A n \in Message :
                 /\ pc'[n] = IF n = m THEN "reading" ELSE pc[n]
                 /\ session'[n] = IF n = m THEN s ELSE session[n]
<1>1. session \in [Message -> Message \cup {NoTurn}] /\ s \in Message \cup {NoTurn}
  BY DEF TypeOK
<1>2. session' \in [Message -> Message \cup {NoTurn}]
  BY <1>1, Zenon
<1>3. \A n \in Message : session'[n] = IF n = m THEN s ELSE session[n]
  BY <1>1, Zenon
<1>4. QED
  BY <1>2, <1>3 DEF TypeOK

LEMMA TypeStep == TypeOK /\ [Next]_vars => TypeOK'
<1> SUFFICES ASSUME TypeOK, [Next]_vars PROVE TypeOK'
  OBVIOUS
<1> USE DEF TypeOK
<1>1. CASE UNCHANGED vars
  BY <1>1 DEF vars, driver, calls, ending, sdk
<1>2. CASE Abort
  BY <1>2 DEF Abort, Active, driver, calls
<1>3. CASE Dispose
  BY <1>3 DEF Dispose, Active, calls
<1>4. CASE CloseReturns
  BY <1>4 DEF CloseReturns, driver, sdk
<1>5. ASSUME NEW m \in Message, SendCall(m) PROVE TypeOK'
  <2>1. CASE warm
    <3>1. /\ pc' = [pc EXCEPT ![m] = "reading"]
          /\ session' = [session EXCEPT ![m] = m]
          /\ activeQuery' = m
          /\ warm' = FALSE
          /\ UNCHANGED <<hooked, providerSessionId, calls, ending, halted, closed, said, item>>
      BY <1>5, <2>1 DEF SendCall, WarmQuery
    <3> HIDE <1>5
    <3>2. QED
      <4>1. {activeQuery', providerSessionId'} \subseteq Message \cup {NoTurn}
        BY <3>1
      <4>2. pc'[activeQuery'] = "reading"
        BY <3>1
      <4>3. {warm', disposed', closing'} \subseteq BOOLEAN
        BY <3>1 DEF ending
      <4>4. /\ pc' \in [Message -> {"new", "loading", "reading", "resolved", "rejected"}]
            /\ session' \in [Message -> Message \cup {NoTurn}]
        BY <3>1, Starting
      <4>5. QED
        BY <3>1, <4>1, <4>2, <4>3, <4>4 DEF calls, ending
  <2>2. CASE ~warm
    BY <1>5, <2>2 DEF SendCall, calls, ending
  <2>3. QED
    BY <2>1, <2>2
<1>6. ASSUME NEW m \in Message, LoadReturns(m) PROVE TypeOK'
  BY <1>6, TurnAssumption DEF LoadReturns, StartQuery, Finally, ending
<1>7. ASSUME NEW m \in Message, ReadMessage(m) PROVE TypeOK'
  BY <1>7, Reading DEF calls, ending
<1>8. ASSUME NEW m \in Message, ReadEnd(m) \/ ReadThrows(m) PROVE TypeOK'
  BY <1>8 DEF ReadEnd, ReadThrows, Finally, ending, sdk
<1>9. ASSUME NEW m \in Message, HookCalled(m) \/ HookReturns(m) PROVE TypeOK'
  BY <1>9 DEF HookCalled, HookReturns, Judge, driver, ending, sdk
<1>10. ASSUME NEW m \in Message, CanUseTool(m) PROVE TypeOK'
  BY <1>10 DEF CanUseTool, Judge, driver, ending, sdk
<1>11. ASSUME NEW m \in Message, JudgeReturns(m) \/ Respond(m) PROVE TypeOK'
  BY <1>11 DEF JudgeReturns, Respond, driver, ending, sdk
<1>12. QED
  BY <1>1, <1>2, <1>3, <1>4, <1>5, <1>6, <1>7, <1>8, <1>9, <1>10, <1>11 DEF Next, Withdraw

(* Whatever hosts and the SDK do, the types hold, and the query that       *)
(* abort() would interrupt is one whose messages are being read.           *)
THEOREM ClaudeTypes == Spec => []TypeOK
BY TypeInit, TypeStep, PTL DEF Spec

-----------------------------------------------------------------------------
(* One send at a time.                                                     *)

LEMMA AloneInit == Init => AloneInv
BY TypeInit DEF Init, AloneInv, OneInFlight, InFlight, ConversationInv, VerdictInv

(* Starting a query.                                                       *)
LEMMA AloneSend ==
    ASSUME "hasty" \notin Env, AloneInv, NEW m \in Message, SendCall(m) \/ LoadReturns(m)
    PROVE  OneInFlight' /\ ConversationInv' /\ VerdictInv'
<1> USE DEF AloneInv, TypeOK
<1>1. CASE SendCall(m)
  <2>1. \A n \in Message : ~InFlight(n)
    BY <1>1 DEF SendCall
  <2>2. CASE warm
    <3>1. /\ pc' = [pc EXCEPT ![m] = "reading"]
          /\ session' = [session EXCEPT ![m] = m]
          /\ warm' = FALSE
          /\ UNCHANGED <<providerSessionId, calls, item>>
      BY <1>1, <2>2 DEF SendCall, WarmQuery
    <3> HIDE <1>1
    <3>2. QED
      BY <2>1, <2>2, <3>1, Starting, TurnAssumption
       DEF calls, OneInFlight, InFlight, ConversationInv, VerdictInv
  <2>3. CASE ~warm
    BY <1>1, <2>1, <2>3 DEF SendCall, calls, OneInFlight, InFlight, ConversationInv, VerdictInv
  <2>4. QED
    BY <2>2, <2>3
<1>2. CASE LoadReturns(m)
  <2>1. /\ pc[m] = "loading" /\ ~warm
        /\ UNCHANGED <<warm, providerSessionId, call, judged>>
    BY <1>2 DEF LoadReturns, ConversationInv
  <2>2. CASE StartQuery(m) /\ UNCHANGED <<policyDecisions, item>>
    BY <2>1, <2>2, TurnAssumption
       DEF StartQuery, OneInFlight, InFlight, ConversationInv, VerdictInv
  <2>3. CASE /\ Finally(m, "rejected")
             /\ item' = [item EXCEPT ![m] = "failed"]
             /\ UNCHANGED <<session, hooked>>
    BY <2>1, <2>3 DEF Finally, OneInFlight, InFlight, ConversationInv, VerdictInv
  <2>4. QED
    BY <1>2, <2>2, <2>3 DEF LoadReturns
<1>3. QED
  BY <1>1, <1>2

(* Reading it to its end.                                                  *)
LEMMA AloneRead ==
    ASSUME AloneInv, NEW m \in Message, ReadMessage(m) \/ ReadEnd(m) \/ ReadThrows(m)
    PROVE  OneInFlight' /\ ConversationInv' /\ VerdictInv'
<1> USE DEF AloneInv, TypeOK
<1>1. CASE ReadMessage(m)
  BY <1>1, Reading, TurnAssumption DEF calls, OneInFlight, InFlight, ConversationInv, VerdictInv
<1>2. CASE ReadEnd(m)
  BY <1>2 DEF ReadEnd, Finally, sdk, OneInFlight, InFlight, ConversationInv, VerdictInv
<1>3. CASE ReadThrows(m)
  BY <1>3 DEF ReadThrows, Finally, sdk, OneInFlight, InFlight, ConversationInv, VerdictInv
<1>4. QED
  BY <1>1, <1>2, <1>3

(* Its tool calls.                                                         *)
LEMMA AloneCall ==
    ASSUME AloneInv, NEW m \in Message,
           HookCalled(m) \/ HookReturns(m) \/ CanUseTool(m) \/ JudgeReturns(m) \/ Respond(m)
    PROVE  OneInFlight' /\ ConversationInv' /\ VerdictInv'
<1> USE DEF AloneInv, TypeOK
<1>1. UNCHANGED <<driver, ending, sdk, item>>
  BY DEF HookCalled, HookReturns, CanUseTool, JudgeReturns, Respond
<1>2. OneInFlight' /\ ConversationInv'
  BY <1>1 DEF driver, sdk, OneInFlight, InFlight, ConversationInv
<1>3. CASE HookCalled(m) \/ HookReturns(m)
  BY <1>1, <1>2, <1>3 DEF HookCalled, HookReturns, Calls, Judge, driver, VerdictInv
<1>4. CASE CanUseTool(m)
  BY <1>1, <1>2, <1>4 DEF CanUseTool, Calls, Judge, driver, VerdictInv
<1>5. CASE JudgeReturns(m) \/ Respond(m)
  BY <1>1, <1>2, <1>5 DEF JudgeReturns, Respond, driver, VerdictInv
<1>6. QED
  BY <1>3, <1>4, <1>5

LEMMA AloneStep ==
    ASSUME "hasty" \notin Env
    PROVE  AloneInv /\ [Next]_vars => AloneInv'
<1> SUFFICES ASSUME AloneInv, [Next]_vars PROVE AloneInv'
  OBVIOUS
<1>1. TypeOK'
  BY TypeStep DEF AloneInv
<1>2. OneInFlight' /\ ConversationInv' /\ VerdictInv'
  <2>1. CASE UNCHANGED vars
    BY <2>1 DEF vars, driver, calls, sdk, AloneInv, OneInFlight, InFlight, ConversationInv, VerdictInv
  <2>2. CASE Abort
    BY <2>2 DEF Abort, driver, calls, AloneInv, OneInFlight, InFlight, ConversationInv, VerdictInv
  <2>3. CASE Dispose
    BY <2>3 DEF Dispose, calls, AloneInv, OneInFlight, InFlight, ConversationInv, VerdictInv
  <2>4. CASE CloseReturns
    BY <2>4 DEF CloseReturns, driver, sdk, AloneInv, TypeOK, OneInFlight, InFlight, ConversationInv, VerdictInv
  <2>5. QED
    BY <2>1, <2>2, <2>3, <2>4, AloneSend, AloneRead, AloneCall DEF Next, Withdraw
<1>3. QED
  BY <1>1, <1>2 DEF AloneInv

(* A host that sends one message at a time has one conversation: turns     *)
(* that completed were turns of one session, though others in between      *)
(* failed or were aborted, before or after the SDK named their session     *)
(* (providerSessionId of native-sdk-driver.ts).                            *)
THEOREM Conversation ==
    ASSUME "hasty" \notin Env
    PROVE  Spec => []OneConversation
<1>1. AloneInv => OneConversation
  BY DEF AloneInv, ConversationInv, OneConversation
<1>2. QED
  BY <1>1, AloneInit, AloneStep, PTL DEF Spec

(* And the policy is asked once for each tool call, whether the hook kept  *)
(* its verdict, was skipped, or returned after the turn was over           *)
(* (policyDecisions of native-sdk-driver.ts).                              *)
THEOREM PolicyRunsOnce ==
    ASSUME "hasty" \notin Env
    PROVE  Spec => []JudgedOnce
<1>1. AloneInv => JudgedOnce
  BY DEF AloneInv, VerdictInv, JudgedOnce
<1>2. QED
  BY <1>1, AloneInit, AloneStep, PTL DEF Spec

-----------------------------------------------------------------------------
(* The refinement of TurnDriver.                                           *)

LEMMA RefinementInit == Init => RefinementInv /\ TD!Init
BY TypeInit DEF Init, RefinementInv, ItemInv, TD!Init, turn

LEMMA ItemStep ==
    ASSUME RefinementInv, [Next]_vars
    PROVE  ItemInv'
<1> USE DEF RefinementInv, TypeOK, ItemInv
<1>1. CASE \E m \in Message : SendCall(m)
  BY <1>1 DEF SendCall, WarmQuery
<1>2. CASE \E m \in Message : LoadReturns(m)
  BY <1>2 DEF LoadReturns, StartQuery, Finally
<1>3. CASE \E m \in Message : ReadMessage(m)
  BY <1>3, Reading
<1>4. CASE \E m \in Message : ReadEnd(m) \/ ReadThrows(m)
  BY <1>4 DEF ReadEnd, ReadThrows, Finally, sdk
<1>5. CASE UNCHANGED <<pc, said, item>>
  BY <1>5
<1>6. QED
  BY <1>1, <1>2, <1>3, <1>4, <1>5
     DEF Next, Abort, Dispose, CloseReturns, HookCalled, HookReturns, CanUseTool, JudgeReturns,
         Respond, Withdraw, vars, driver, sdk

(* The turns are told apart by what the send awaits.                       *)
LEMMA TurnOf ==
    ASSUME TypeOK, TypeOK'
    PROVE  /\ pc' = pc => turn' = turn
           /\ \A m \in Message, s \in {"loading", "reading", "resolved", "rejected"} :
                 pc' = [pc EXCEPT ![m] = s] =>
                    turn' = [turn EXCEPT ![m] = IF s \in {"loading", "reading"} THEN "pending" ELSE s]
<1>1. pc' = pc => turn' = turn
  BY DEF turn, InFlight
<1>2. ASSUME NEW m \in Message, NEW s \in {"loading", "reading", "resolved", "rejected"},
             pc' = [pc EXCEPT ![m] = s]
      PROVE  turn' = [turn EXCEPT ![m] = IF s \in {"loading", "reading"} THEN "pending" ELSE s]
  <2>1. \A n \in Message : pc'[n] = IF n = m THEN s ELSE pc[n]
    BY <1>2 DEF TypeOK
  <2>2. \A n \in Message :
           turn'[n] = IF n = m THEN (IF s \in {"loading", "reading"} THEN "pending" ELSE s)
                      ELSE turn[n]
    BY <2>1 DEF turn, InFlight
  <2>3. QED
    BY <2>2 DEF turn
<1>3. QED
  BY <1>1, <1>2

LEMMA RefinementStep ==
    ASSUME "late" \notin Env, RefinementInv, [Next]_vars
    PROVE  [TD!Next]_TD!vars
<1>0. TypeOK /\ TypeOK' /\ ItemInv
  BY TypeStep DEF RefinementInv
<1> DEFINE Settled(m, outcome) == turn' = [turn EXCEPT ![m] = outcome]
<1>1. ASSUME NEW m \in Message, SendCall(m) PROVE TD!Call(m)
  <2>1. turn[m] = "idle" /\ UNCHANGED item
    BY <1>1 DEF SendCall, turn
  <2>2. \E s \in {"loading", "reading"} : pc' = [pc EXCEPT ![m] = s]
    BY <1>1 DEF SendCall, WarmQuery
  <2>3. QED
    BY <1>0, <2>1, <2>2, TurnOf DEF TD!Call
<1>2. ASSUME NEW m \in Message, UNCHANGED item, turn[m] = "pending", Settled(m, "resolved")
      PROVE  TD!Resolves
  <2>1. turn' = [n \in Message |-> IF n \in {m} THEN "resolved" ELSE turn[n]]
    BY <1>2 DEF turn
  <2>2. QED
    BY <1>2, <2>1 DEF TD!Resolves
<1>3. ASSUME NEW m \in Message, turn[m] = "pending", item[m] = "open",
             Settled(m, "rejected"), item' = [item EXCEPT ![m] = "failed"]
      PROVE  TD!Throws
  <2>1. turn' = [n \in Message |-> IF n \in {m} THEN "rejected" ELSE turn[n]]
    BY <1>3 DEF turn
  <2>2. item' = [n \in Message |-> IF n \in {m} THEN "failed" ELSE item[n]]
    BY <1>0, <1>3 DEF TypeOK
  <2>3. QED
    <3>1. {m} \in SUBSET Message /\ {m} \subseteq {m}
      OBVIOUS
    <3>2. \A n \in {m} : turn[n] = "pending" /\ item[n] = "open" /\ item[n] # "completed"
      BY <1>3
    <3>3. QED
      BY <2>1, <2>2, <3>1, <3>2 DEF TD!Throws
<1>4. ASSUME NEW m \in Message, LoadReturns(m) PROVE TD!Throws \/ UNCHANGED TD!vars
  <2>1. turn[m] = "pending" /\ item[m] = "open"
    BY <1>0, <1>4 DEF LoadReturns, turn, InFlight, ItemInv, TypeOK
  <2>2. CASE StartQuery(m) /\ UNCHANGED item
    <3>1. turn' = [turn EXCEPT ![m] = "pending"]
      BY <1>0, <2>2, TurnOf DEF StartQuery
    <3>2. turn' = turn
      BY <2>1, <3>1 DEF turn
    <3>3. QED
      BY <2>2, <3>2 DEF TD!vars
  <2>3. CASE Finally(m, "rejected") /\ item' = [item EXCEPT ![m] = "failed"]
    BY <1>0, <1>3, <2>1, <2>3, TurnOf DEF Finally
  <2>4. QED
    BY <1>4, <2>2, <2>3 DEF LoadReturns
<1>5. ASSUME NEW m \in Message, ReadMessage(m)
      PROVE  UNCHANGED TD!vars \/ TD!Completes(m) \/ TD!Fails(m)
  <2>1. turn[m] = "pending" /\ item[m] = "open" /\ turn' = turn
    BY <1>0, <1>5, Reading, TurnOf DEF turn, InFlight, ItemInv, TypeOK
  <2>2. item' = item \/ \E type \in {"completed", "failed"} : item' = [item EXCEPT ![m] = type]
    BY <1>0, <1>5, Reading DEF TypeOK
  <2>3. QED
    BY <2>1, <2>2 DEF TD!vars, TD!Completes, TD!Fails, TD!Report
<1>6. ASSUME NEW m \in Message, ReadEnd(m) PROVE TD!Resolves
  <2>1. turn[m] = "pending" /\ UNCHANGED item
    BY <1>6 DEF ReadEnd, turn, InFlight
  <2>2. QED
    BY <1>0, <1>2, <1>6, <2>1, TurnOf DEF ReadEnd, Finally
<1>7. ASSUME NEW m \in Message, ReadThrows(m) PROVE TD!Throws
  <2>1. turn[m] = "pending" /\ item[m] = "open"
    BY <1>0, <1>7 DEF ReadThrows, turn, InFlight, ItemInv, TypeOK
  <2>2. QED
    BY <1>0, <1>3, <1>7, <2>1, TurnOf DEF ReadThrows, Finally
<1>8. CASE UNCHANGED <<pc, item>>
  BY <1>0, <1>8, TurnOf DEF TD!vars
<1>9. CASE ~UNCHANGED <<pc, item>>
  <2>1. \E m \in Message : \/ SendCall(m) \/ LoadReturns(m)
                         \/ ReadMessage(m) \/ ReadEnd(m) \/ ReadThrows(m)
    BY <1>9 DEF Next, Abort, Dispose, CloseReturns, HookCalled, HookReturns, CanUseTool,
                JudgeReturns, Respond, Withdraw, vars, driver
  <2>2. QED
    BY <1>1, <1>4, <1>5, <1>6, <1>7, <2>1 DEF TD!Next
<1>10. QED
  BY <1>8, <1>9

(* For every host, one that sends before an aborted turn is over included, *)
(* the driver keeps what the eager scaffold relies on, unless a query      *)
(* throws after its result (sendMessage of native-sdk-driver.ts).          *)
THEOREM DriverRefinement ==
    ASSUME "late" \notin Env
    PROVE  Spec => ImplementsTurnDriver
<1>1. RefinementInv /\ [Next]_vars => RefinementInv'
  BY TypeStep, ItemStep DEF RefinementInv
<1>2. RefinementInv /\ [Next]_vars => [TD!Next]_TD!vars
  BY RefinementStep
<1>3. QED
  BY <1>1, <1>2, RefinementInit, PTL DEF Spec, ImplementsTurnDriver, TD!Spec
=============================================================================

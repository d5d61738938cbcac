------------------------------ MODULE TurnDriver ------------------------------
(***************************************************************************)
(* What a provider's driver promises the eager scaffold about a turn, that *)
(* is about one call of driver.sendMessage: the call settles at most once, *)
(* terminal items come only while the call is pending, a call that throws  *)
(* has not completed, and one that resolves has not failed.  These are the *)
(* guards of the Turn and Settle actions of EagerRuntime, without "slow",  *)
(* and with "swallow" if Swallows.  CodexDriver and ClaudeDriver are shown *)
(* to implement this module.                                               *)
(***************************************************************************)

CONSTANTS
    Message,
    Swallows     \* a call that has reported its failure may resolve

VARIABLES
    turn,     \* turn[m]: the call of sendMessage for m
    item      \* item[m]: the terminal item m's turn has reported

vars == <<turn, item>>

TurnStage == {"idle", "pending", "resolved", "rejected"}
TerminalItem == {"open", "completed", "failed"}

TypeOK ==
    /\ turn \in [Message -> TurnStage]
    /\ item \in [Message -> TerminalItem]

Init ==
    /\ turn = [m \in Message |-> "idle"]
    /\ item = [m \in Message |-> "open"]

Call(m) ==
    /\ turn[m] = "idle"
    /\ turn' = [turn EXCEPT ![m] = "pending"]
    /\ UNCHANGED item

(* A terminal item is reported, and the call may settle with it.           *)
Report(m, type) ==
    /\ turn[m] = "pending"
    /\ item[m] = "open"
    /\ item' = [item EXCEPT ![m] = type]

Completes(m) ==
    /\ Report(m, "completed")
    /\ turn' \in {turn, [turn EXCEPT ![m] = "resolved"]}

Fails(m) ==
    /\ Report(m, "failed")
    /\ turn' \in {turn, [turn EXCEPT ![m] = "rejected"]}

(* Calls settle without a further item: those that are aborted resolve, in *)
(* one step if there are several, and a driver that is lost throws them.   *)
Resolves == \E S \in SUBSET Message :
    /\ \A m \in S : turn[m] = "pending" /\ (item[m] = "failed" => Swallows)
    /\ turn' = [m \in Message |-> IF m \in S THEN "resolved" ELSE turn[m]]
    /\ UNCHANGED item

Throws == \E S \in SUBSET Message, F \in SUBSET Message :
    /\ F \subseteq S
    /\ \A m \in S : turn[m] = "pending" /\ item[m] # "completed"
    /\ \A m \in F : item[m] = "open"
    /\ turn' = [m \in Message |-> IF m \in S THEN "rejected" ELSE turn[m]]
    /\ item' = [m \in Message |-> IF m \in F THEN "failed" ELSE item[m]]

Next ==
    \/ Resolves \/ Throws
    \/ \E m \in Message : Call(m) \/ Completes(m) \/ Fails(m)

Spec == Init /\ [][Next]_vars
=============================================================================

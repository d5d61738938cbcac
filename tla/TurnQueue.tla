------------------------------ MODULE TurnQueue ------------------------------
(***************************************************************************)
(* What a runtime promises about the messages its host sends, whatever the *)
(* provider behind it: every message is committed to the driver at most    *)
(* once, parked messages leave the queue in the order they entered it, and *)
(* a message that was cancelled or refused is never committed.             *)
(*                                                                         *)
(* EagerRuntime and DeferredRuntime are shown to implement this module     *)
(* with queue refined by the scaffold's pendingQueue.                      *)
(***************************************************************************)
EXTENDS Sequences

CONSTANT Message

VARIABLES
    queue,    \* messages parked behind a running turn, oldest first
    sent,     \* messages committed to the driver, in the order of commitment
    fate      \* fate[m]: what has become of m so far

vars == <<queue, sent, fate>>

Fate == {"new", "queued", "sent", "cancelled"}

TypeOK ==
    /\ queue \in Seq(Message)
    /\ sent \in Seq(Message)
    /\ fate \in [Message -> Fate]

Init ==
    /\ queue = <<>>
    /\ sent = <<>>
    /\ fate = [m \in Message |-> "new"]

(* The fates after every parked message is cancelled, which is what fate is *)
(* when "all" is false.                                                     *)
Dropping(all) ==
    [m \in Message |-> IF all /\ fate[m] = "queued" THEN "cancelled" ELSE fate[m]]

(* m is committed without passing through the queue; a retry after a       *)
(* failure first cancels what was parked.                                  *)
Commit(m) == \E reset \in BOOLEAN :
    /\ fate[m] = "new"
    /\ fate' = [Dropping(reset) EXCEPT ![m] = "sent"]
    /\ sent' = Append(sent, m)
    /\ queue' = IF reset THEN <<>> ELSE queue

Park(m) ==
    /\ fate[m] = "new"
    /\ fate' = [fate EXCEPT ![m] = "queued"]
    /\ queue' = Append(queue, m)
    /\ UNCHANGED sent

(* The oldest parked message is committed.                                 *)
Release ==
    /\ queue # <<>>
    /\ fate' = [fate EXCEPT ![Head(queue)] = "sent"]
    /\ sent' = Append(sent, Head(queue))
    /\ queue' = Tail(queue)

CancelAll ==
    /\ fate' = Dropping(TRUE)
    /\ queue' = <<>>
    /\ UNCHANGED sent

(* The runtime has no driver to commit m to.                               *)
Refuse(m) ==
    /\ fate[m] = "new"
    /\ fate' = [fate EXCEPT ![m] = "cancelled"]
    /\ UNCHANGED <<queue, sent>>

Next ==
    \/ Release
    \/ CancelAll
    \/ \E m \in Message : Commit(m) \/ Park(m) \/ Refuse(m)

Spec == Init /\ [][Next]_vars

-----------------------------------------------------------------------------
(* No message is committed twice, and the committed messages are exactly   *)
(* those whose fate says so.                                               *)
SentOnce ==
    /\ \A i, j \in DOMAIN sent : sent[i] = sent[j] => i = j
    /\ \A m \in Message : fate[m] = "sent" <=> \E i \in DOMAIN sent : sent[i] = m
=============================================================================

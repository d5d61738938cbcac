------------------------- MODULE EagerRuntimeProofs -------------------------
(***************************************************************************)
(* Proofs about EagerRuntime, for every set of messages and of requests:   *)
(* type correctness, the refinement of TurnQueue in every environment, so  *)
(* that nothing is sent twice, and in the plain environment that at most   *)
(* one turn is in flight, that the reducer's queue and accepted list are   *)
(* those of the scaffold, and that what status, prompts and failure        *)
(* reports tell is so.                                                     *)
(***************************************************************************)
EXTENDS EagerRuntime, TLAPS

-----------------------------------------------------------------------------
(* The reducer: what each of its actions does to status, accepted and      *)
(* queued, and that the result is again a state.  The steps of the runtime *)
(* are proved about from these facts alone.                                *)

(* The head and the tail of a queue.                                       *)
LEMMA QueueParts ==
    ASSUME NEW S, NEW q \in Seq(S), q # <<>>
    PROVE  /\ Head(q) \in S
           /\ Head(q) = q[1]
           /\ 1 \in DOMAIN q
           /\ Tail(q) \in Seq(S)
           /\ \A i \in DOMAIN Tail(q) : i + 1 \in DOMAIN q /\ Tail(q)[i] = q[i + 1]
OBVIOUS

(* Replacing a field by a value of its kind gives a state.                 *)
LEMMA FieldUpdates ==
    ASSUME NEW s \in RuntimeStates
    PROVE  /\ \A x \in Status : [s EXCEPT !.status = x] \in RuntimeStates
           /\ \A q \in Seq(Message) : [s EXCEPT !.queued = q] \in RuntimeStates
           /\ \A q \in Seq(Message) : [s EXCEPT !.accepted = q] \in RuntimeStates
           /\ \A r \in Request \cup {NoRequest} : [s EXCEPT !.waiting = r] \in RuntimeStates
BY DEF RuntimeStates

(* The actions that only set the status.                                   *)
LEMMA StatusEffect ==
    ASSUME NEW s \in RuntimeStates
    PROVE  /\ PreflightOk(s) \in RuntimeStates
           /\ PreflightOk(s).status = "ready"
           /\ PreflightOk(s).queued = s.queued
           /\ PreflightOk(s).accepted = s.accepted
           /\ PreflightError(s) \in RuntimeStates
           /\ PreflightError(s).status = "failed"
           /\ PreflightError(s).queued = s.queued
           /\ PreflightError(s).accepted = s.accepted
           /\ Error(s) \in RuntimeStates
           /\ Error(s).status = "failed"
           /\ Error(s).queued = s.queued
           /\ Error(s).accepted = s.accepted
<1>1. "ready" \in Status /\ "failed" \in Status
  BY DEF Status
<1>2. PreflightOk(s) \in RuntimeStates /\ PreflightError(s) \in RuntimeStates /\ Error(s) \in RuntimeStates
  BY <1>1, FieldUpdates DEF PreflightOk, PreflightError, Error
<1> QED BY <1>2 DEF RuntimeStates, PreflightOk, PreflightError, Error

(* starting and turn_completed apply from some statuses only.              *)
LEMMA GuardedEffect ==
    ASSUME NEW s \in RuntimeStates
    PROVE  /\ Starting(s) \in RuntimeStates
           /\ Starting(s).status = IF s.status \in {"ready", "idle"} THEN "starting" ELSE s.status
           /\ Starting(s).queued = s.queued
           /\ Starting(s).accepted = s.accepted
           /\ TurnCompleted(s) \in RuntimeStates
           /\ TurnCompleted(s).status = IF s.status = "running" THEN "turn_completed" ELSE s.status
           /\ TurnCompleted(s).queued = s.queued
           /\ TurnCompleted(s).accepted = s.accepted
<1>1. "starting" \in Status /\ "turn_completed" \in Status
  BY DEF Status
<1>2. Starting(s) \in RuntimeStates /\ TurnCompleted(s) \in RuntimeStates
  BY <1>1, FieldUpdates DEF Starting, TurnCompleted
<1> QED BY <1>2 DEF RuntimeStates, Starting, TurnCompleted

(* permission_request and permission_response.                             *)
LEMMA PermissionEffect ==
    ASSUME NEW s \in RuntimeStates, NEW r \in Request
    PROVE  /\ PermissionRequest(s, r) \in RuntimeStates
           /\ PermissionRequest(s, r).status = "waiting_for_permission"
           /\ PermissionRequest(s, r).queued = s.queued
           /\ PermissionRequest(s, r).accepted = s.accepted
           /\ PermissionResponse(s) \in RuntimeStates
           /\ PermissionResponse(s).status = "running"
           /\ PermissionResponse(s).queued = s.queued
           /\ PermissionResponse(s).accepted = s.accepted
<1>1. "waiting_for_permission" \in Status /\ "running" \in Status
  BY DEF Status
<1>2. PermissionRequest(s, r) \in RuntimeStates /\ PermissionResponse(s) \in RuntimeStates
  BY <1>1 DEF PermissionRequest, PermissionResponse, RuntimeStates
<1> QED BY <1>2 DEF RuntimeStates, PermissionRequest, PermissionResponse

(* abort and dispose drop the reducer's queue.                             *)
LEMMA ResetEffect ==
    ASSUME NEW s \in RuntimeStates
    PROVE  /\ Abort(s) \in RuntimeStates
           /\ Abort(s).status = "ready"
           /\ Abort(s).queued = <<>>
           /\ Abort(s).accepted = s.accepted
           /\ Dispose(s) \in RuntimeStates
           /\ Dispose(s).status = "disposed"
           /\ Dispose(s).queued = <<>>
           /\ Dispose(s).accepted = s.accepted
<1>1. "ready" \in Status /\ "disposed" \in Status
  BY DEF Status
<1>2. <<>> \in Seq(Message)
  OBVIOUS
<1>3. \A x \in Status, q \in Seq(Message) :
         [s EXCEPT !.status = x, !.queued = q, !.waiting = NoRequest] \in RuntimeStates
  BY DEF RuntimeStates
<1>4. Abort(s) \in RuntimeStates /\ Dispose(s) \in RuntimeStates
  BY <1>1, <1>2, <1>3 DEF Abort, Dispose
<1> QED BY <1>4 DEF RuntimeStates, Abort, Dispose

(* Accepting a message appends it and makes the state running.             *)
LEMMA AcceptEffect ==
    ASSUME NEW s \in RuntimeStates, NEW m \in Message
    PROVE  /\ Accept(s, m) \in RuntimeStates
           /\ Accept(s, m).status = "running"
           /\ Accept(s, m).queued = s.queued
           /\ Accept(s, m).accepted = Append(s.accepted, m)
<1>1. Append(s.accepted, m) \in Seq(Message) /\ "running" \in Status
  BY DEF RuntimeStates, Status
<1>2. \A x \in Status, q \in Seq(Message) :
         [s EXCEPT !.status = x, !.accepted = q] \in RuntimeStates
  BY DEF RuntimeStates
<1>3. Accept(s, m) = [s EXCEPT !.status = "running", !.accepted = Append(s.accepted, m)]
  BY DEF Accept
<1>4. Accept(s, m) \in RuntimeStates
  BY <1>1, <1>2, <1>3
<1> QED BY <1>4 DEF RuntimeStates, Accept

(* send_message parks, drops or accepts, according to the status.          *)
LEMMA SendMessageEffect ==
    ASSUME NEW s \in RuntimeStates, NEW m \in Message
    PROVE  /\ SendMessage(s, m) \in RuntimeStates
           /\ s.status \in Busy =>
                /\ SendMessage(s, m).status = s.status
                /\ SendMessage(s, m).queued = Append(s.queued, m)
                /\ SendMessage(s, m).accepted = s.accepted
           /\ s.status \in Terminal => SendMessage(s, m) = s
           /\ s.status \notin Busy \cup Terminal => SendMessage(s, m) = Accept(s, m)
<1>1. Append(s.queued, m) \in Seq(Message)
  BY DEF RuntimeStates
<1>2. [s EXCEPT !.queued = Append(s.queued, m)] \in RuntimeStates
  BY <1>1, FieldUpdates
<1>3. s.status \in Busy => SendMessage(s, m) = [s EXCEPT !.queued = Append(s.queued, m)]
  BY DEF SendMessage
<1>4. s.status \notin Busy /\ s.status \in Terminal => SendMessage(s, m) = s
  BY DEF SendMessage
<1>5. s.status \notin Busy \cup Terminal => SendMessage(s, m) = Accept(s, m)
  BY DEF SendMessage
<1>6. Busy \cap Terminal = {}
  BY DEF Busy, Terminal
<1>7. SendMessage(s, m) \in RuntimeStates
  BY <1>2, <1>3, <1>4, <1>5, AcceptEffect
<1> QED BY <1>2, <1>3, <1>4, <1>5, <1>6, <1>7 DEF RuntimeStates

(* complete promotes the head of the queue, or makes the state ready.      *)
LEMMA CompleteEffect ==
    ASSUME NEW s \in RuntimeStates
    PROVE  /\ Complete(s) \in RuntimeStates
           /\ s.status \in Terminal => Complete(s) = s
           /\ s.status \notin Terminal /\ (s.queued = <<>> \/ Head(s.queued) = Blank) =>
                /\ Complete(s).status = "ready"
                /\ Complete(s).queued = s.queued
                /\ Complete(s).accepted = s.accepted
           /\ s.status \notin Terminal /\ s.queued # <<>> /\ Head(s.queued) # Blank =>
                /\ Complete(s).status = "running"
                /\ Complete(s).queued = Tail(s.queued)
                /\ Complete(s).accepted = Append(s.accepted, Head(s.queued))
<1>1. CASE s.status \in Terminal
  BY <1>1 DEF Complete
<1>2. CASE s.status \notin Terminal /\ (s.queued = <<>> \/ Head(s.queued) = Blank)
  <2>1. Complete(s) = [s EXCEPT !.status = "ready"]
    BY <1>2 DEF Complete
  <2>2. "ready" \in Status
    BY DEF Status
  <2>3. Complete(s) \in RuntimeStates
    BY <2>1, <2>2, FieldUpdates
  <2> QED BY <1>2, <2>1, <2>3 DEF RuntimeStates
<1>3. CASE s.status \notin Terminal /\ s.queued # <<>> /\ Head(s.queued) # Blank
  <2> DEFINE a == Accept(s, Head(s.queued))
  <2>1. Head(s.queued) \in Message /\ Tail(s.queued) \in Seq(Message)
    BY <1>3 DEF RuntimeStates
  <2>2. /\ a \in RuntimeStates
        /\ a.status = "running"
        /\ a.queued = s.queued
        /\ a.accepted = Append(s.accepted, Head(s.queued))
    BY <2>1, AcceptEffect
  <2>3. Complete(s) = [a EXCEPT !.queued = Tail(s.queued)]
    BY <1>3, <2>2 DEF Complete
  <2>4. Complete(s) \in RuntimeStates
    BY <2>1, <2>2, <2>3, FieldUpdates
  <2> HIDE DEF a
  <2> QED BY <1>3, <2>2, <2>3, <2>4 DEF RuntimeStates
<1> QED BY <1>1, <1>2, <1>3
-----------------------------------------------------------------------------
(* The abstract queue of turns, TurnQueue, which both runtimes implement:  *)
(* lemmas about its variables, the queue q, what was sent s and the fates  *)
(* f, before a step and after it.  The parked messages are those whose     *)
(* fate is "queued", those sent the ones whose fate says so, once each.    *)
Listed(q, f, how) ==
    /\ q \in Seq(Message)
    /\ \A i, j \in DOMAIN q : q[i] = q[j] => i = j
    /\ \A m \in Message : f[m] = how <=> \E i \in DOMAIN q : q[i] = m

OnceEach(q, s, f) ==
    /\ f \in [Message -> {"new", "queued", "sent", "cancelled"}]
    /\ Listed(q, f, "queued")
    /\ Listed(s, f, "sent")

(* Nothing is listed when no fate says so.                                 *)
LEMMA ListedNone ==
    ASSUME NEW f, NEW how, \A m \in Message : f[m] # how
    PROVE  Listed(<<>>, f, how)
<1>1. <<>> \in Seq(Message) /\ DOMAIN <<>> = {}
  OBVIOUS
<1>2. QED
  BY <1>1 DEF Listed

(* A message that is not listed is added at the end.                       *)
LEMMA ListedAppend ==
    ASSUME NEW f, NEW g, NEW how, NEW q, Listed(q, f, how), NEW m \in Message, f[m] # how,
           \A n \in Message : g[n] = how <=> n = m \/ f[n] = how
    PROVE  Listed(Append(q, m), g, how)
<1> DEFINE r == Append(q, m)
<1>1. q \in Seq(Message) /\ \A i \in DOMAIN q : q[i] # m
  BY DEF Listed
<1>2. /\ r \in Seq(Message) /\ Len(q) \in Nat
      /\ DOMAIN q = 1..Len(q) /\ DOMAIN r = 1..Len(q) + 1
      /\ \A i \in 1..Len(q) : r[i] = q[i]
      /\ r[Len(q) + 1] = m
  BY <1>1
<1> HIDE DEF r
<1>3. \A i \in DOMAIN r : (i \in DOMAIN q /\ r[i] = q[i]) \/ (i = Len(q) + 1 /\ r[i] = m)
  BY <1>2
<1>4. \A i, j \in DOMAIN r : r[i] = r[j] => i = j
  BY <1>1, <1>3 DEF Listed
<1>5. ASSUME NEW n \in Message PROVE g[n] = how <=> \E i \in DOMAIN r : r[i] = n
  <2>1. Len(q) + 1 \in DOMAIN r /\ DOMAIN q \subseteq DOMAIN r
    BY <1>2
  <2>2. g[n] = how <=> n = m \/ \E i \in DOMAIN q : q[i] = n
    BY DEF Listed
  <2>3. ASSUME NEW i \in DOMAIN r, r[i] = n PROVE n = m \/ \E j \in DOMAIN q : q[j] = n
    BY <1>3, <2>3
  <2>4. ASSUME NEW j \in DOMAIN q, q[j] = n PROVE \E i \in DOMAIN r : r[i] = n
    BY <1>2, <2>1, <2>4
  <2>5. n = m => \E i \in DOMAIN r : r[i] = n
    BY <1>2, <2>1
  <2>6. QED
    BY <2>2, <2>3, <2>4, <2>5
<1>6. QED
  BY <1>2, <1>4, <1>5 DEF Listed, r

(* The oldest message of a list is one of those listed.                    *)
LEMMA ListedHead ==
    ASSUME NEW f, NEW how, NEW q, Listed(q, f, how), q # <<>>
    PROVE  Head(q) \in Message /\ f[Head(q)] = how
<1>1. q \in Seq(Message)
  BY DEF Listed
<1>2. Head(q) \in Message /\ Head(q) = q[1] /\ 1 \in DOMAIN q
  BY <1>1
<1>3. QED
  BY <1>2 DEF Listed

(* The oldest message leaves the list.                                     *)
LEMMA ListedTail ==
    ASSUME NEW f, NEW g, NEW how, NEW q, Listed(q, f, how), q # <<>>,
           NEW h, h = Head(q), \A n \in Message : g[n] = how <=> n # h /\ f[n] = how
    PROVE  Listed(Tail(q), g, how)
<1> DEFINE r == Tail(q)
<1>1. q \in Seq(Message) /\ \A i, j \in DOMAIN q : q[i] = q[j] => i = j
  BY DEF Listed
<1>2. /\ r \in Seq(Message) /\ h \in Message /\ h = q[1]
      /\ Len(q) \in Nat /\ Len(q) >= 1
      /\ DOMAIN q = 1..Len(q) /\ DOMAIN r = 1..Len(q) - 1
      /\ \A i \in 1..Len(q) - 1 : r[i] = q[i + 1]
  BY <1>1
<1> HIDE DEF r
<1>3. \A i \in DOMAIN r : i + 1 \in DOMAIN q /\ i + 1 # 1 /\ r[i] = q[i + 1]
  BY <1>2
<1>4. 1 \in DOMAIN q
  BY <1>2
<1>5. \A i, j \in DOMAIN r : r[i] = r[j] => i = j
  BY <1>1, <1>2, <1>3
<1>6. ASSUME NEW n \in Message PROVE g[n] = how <=> \E i \in DOMAIN r : r[i] = n
  <2>1. g[n] = how <=> n # h /\ \E i \in DOMAIN q : q[i] = n
    BY DEF Listed
  <2>2. ASSUME NEW i \in DOMAIN r, r[i] = n
        PROVE  n # h /\ \E j \in DOMAIN q : q[j] = n
    BY <1>1, <1>2, <1>3, <1>4, <2>2
  <2>3. ASSUME NEW j \in DOMAIN q, q[j] = n, n # h PROVE \E i \in DOMAIN r : r[i] = n
    <3>1. j # 1
      BY <1>2, <2>3
    <3>2. j - 1 \in DOMAIN r /\ j - 1 + 1 = j
      BY <1>2, <2>3, <3>1
    <3>3. r[j - 1] = n
      BY <1>3, <2>3, <3>2
    <3>4. QED
      BY <3>2, <3>3
  <2>4. QED
    BY <2>1, <2>2, <2>3
<1>7. QED
  BY <1>2, <1>5, <1>6 DEF Listed, r

(* A list that stays as it is, and so do the fates it is about.            *)
LEMMA ListedSame ==
    ASSUME NEW f, NEW g, NEW how, NEW q, Listed(q, f, how),
           \A n \in Message : g[n] = how <=> f[n] = how
    PROVE  Listed(q, g, how)
BY DEF Listed

-----------------------------------------------------------------------------
(* Type correctness.                                                       *)

(* failures stays within 0..2 because m's turn reports its failure once,   *)
(* before it settles, and the scaffold adds one item when it settles.      *)
FailuresBounded ==
    \A m \in Message :
        /\ item[m] # "failed" /\ pc[m] \notin {"failed", "refused"} => failures[m] = 0
        /\ item[m] # "failed" \/ pc[m] \notin {"failed", "refused"} => failures[m] \in {0, 1}

(* pendingQueue holds each message at most once, and only parked ones: it  *)
(* is what keeps a drain from touching a message that is settled already.  *)
QueueInv ==
    /\ \A i \in DOMAIN pendingQueue : pc[pendingQueue[i]] = "queued"
    /\ \A i, j \in DOMAIN pendingQueue : pendingQueue[i] = pendingQueue[j] => i = j

TypeInv == TypeOK /\ FailuresBounded /\ QueueInv

(* A step that leaves the queue and the parked sends alone keeps it.       *)
LEMMA QueueKept ==
    ASSUME TypeOK, QueueInv, pendingQueue' = pendingQueue,
           \A n \in Message : pc[n] = "queued" => pc'[n] = "queued"
    PROVE  QueueInv'
BY DEF TypeOK, QueueInv

(* Emptying the queue establishes its invariant.                           *)
LEMMA QueueEmptied ==
    ASSUME pendingQueue' = <<>>
    PROVE  QueueInv'
BY DEF QueueInv

(* Dropping the queue and withdrawing prompts keep the maps well typed.    *)
LEMMA MapTypes ==
    ASSUME TypeOK
    PROVE  /\ Dropped \in [Message -> Stage]
           /\ \A m \in Message : Withdrawn(m) \in [Request -> Prompt]
BY DEF TypeOK, Dropped, Withdrawn, Stage, Prompt, PromptStage

(* The initial state satisfies the type invariant.                         *)
LEMMA TypeInvInit == Init => TypeInv
<1> SUFFICES ASSUME Init PROVE TypeInv
  OBVIOUS
<1>1. <<>> \in Seq(Message)
  OBVIOUS
<1>2. InitialState \in RuntimeStates
  BY <1>1 DEF InitialState, RuntimeStates, Status
<1>3. TypeOK
  <2>1. absent \in BOOLEAN
    BY DEF Init
  <2>2. pc \in [Message -> Stage] /\ prompt \in [Request -> Prompt]
    BY DEF Init, Stage, Prompt, PromptStage
  <2>3. /\ item \in [Message -> {"open", "completed", "failed"}]
        /\ failures \in [Message -> 0..2]
    BY DEF Init
  <2> QED BY <1>1, <1>2, <2>1, <2>2, <2>3 DEF Init, TypeOK
<1>4. FailuresBounded
  BY DEF Init, FailuresBounded
<1>5. QueueInv
  BY DEF Init, QueueInv
<1> QED BY <1>3, <1>4, <1>5 DEF TypeInv

(* The steps of the host.                                                  *)
LEMMA TypeInvHost ==
    ASSUME TypeInv, Preflight \/ AbortCall \/ DisposeCall
    PROVE  TypeInv'
<1> USE DEF TypeInv
<1>0. <<>> \in Seq(Message)
  OBVIOUS
<1>1. CASE Preflight
  <2>1. state' \in RuntimeStates
    BY <1>1, StatusEffect DEF Preflight, TypeOK
  <2>2. QueueInv'
    BY <1>1, QueueKept DEF Preflight
  <2> QED BY <1>1, <2>1, <2>2 DEF Preflight, TypeOK, FailuresBounded
<1>2. CASE AbortCall
  <2>1. state' \in RuntimeStates
    BY <1>2, ResetEffect DEF AbortCall, TypeOK
  <2>2. pc' \in [Message -> Stage]
    BY <1>2, MapTypes DEF AbortCall
  <2>3. TypeOK'
    BY <1>0, <1>2, <2>1, <2>2 DEF AbortCall, TypeOK
  <2>4. FailuresBounded'
    BY <1>2 DEF AbortCall, Dropped, FailuresBounded, TypeOK
  <2> QED BY <1>2, <2>3, <2>4, QueueEmptied DEF AbortCall
<1>3. CASE DisposeCall
  <2>1. state' \in RuntimeStates
    BY <1>3, ResetEffect DEF DisposeCall, TypeOK
  <2>2. pc' \in [Message -> Stage]
    BY <1>3, MapTypes DEF DisposeCall
  <2>3. prompt' \in [Request -> Prompt]
    BY <1>3 DEF DisposeCall, TypeOK, Prompt, PromptStage
  <2>4. TypeOK'
    BY <1>0, <1>3, <2>1, <2>2, <2>3 DEF DisposeCall, TypeOK
  <2>5. FailuresBounded'
    BY <1>3 DEF DisposeCall, Dropped, FailuresBounded, TypeOK
  <2> QED BY <1>3, <2>4, <2>5, QueueEmptied DEF DisposeCall
<1> QED BY <1>1, <1>2, <1>3

(* The steps of a send.                                                    *)
LEMMA TypeInvSend ==
    ASSUME TypeInv, NEW m \in Message, SendCall(m) \/ Send(m)
    PROVE  TypeInv'
<1> USE DEF TypeInv
<1>1. CASE SendCall(m)
  <2>1. TypeOK'
    BY <1>1 DEF SendCall, TypeOK, Stage
  <2>2. FailuresBounded'
    BY <1>1 DEF SendCall, TypeOK, FailuresBounded
  <2>3. QueueInv'
    BY <1>1, QueueKept DEF SendCall, TypeOK
  <2> QED BY <2>1, <2>2, <2>3
<1>2. CASE SendRefused(m)
  <2>1. state' \in RuntimeStates
    BY <1>2, StatusEffect DEF SendRefused, TypeOK
  <2>2. TypeOK'
    BY <1>2, <2>1 DEF SendRefused, TypeOK, Stage
  <2>3. FailuresBounded'
    BY <1>2 DEF SendRefused, TypeOK, FailuresBounded
  <2>4. QueueInv'
    BY <1>2, QueueKept DEF SendRefused, TypeOK
  <2> QED BY <2>2, <2>3, <2>4
<1>3. CASE SendResume(m)
  <2> DEFINE retry == state.status = "failed"
             base  == IF retry THEN Abort(state) ELSE state
             kept  == IF retry THEN <<>> ELSE pendingQueue
             stage == IF retry THEN Dropped ELSE pc
  <2>1. base \in RuntimeStates
    BY ResetEffect DEF TypeOK
  <2>2. kept \in Seq(Message) /\ stage \in [Message -> Stage]
    BY MapTypes DEF TypeOK
  <2>3. /\ pc[m] = "ensuring"
        /\ state' = SendMessage(base, m)
        /\ \/ /\ pc' = [stage EXCEPT ![m] = "queued"]
              /\ pendingQueue' = Append(kept, m)
              /\ sent' = sent
           \/ /\ pc' = [stage EXCEPT ![m] = "sending"]
              /\ pendingQueue' = kept
              /\ sent' = Append(sent, m)
        /\ UNCHANGED <<disposed, absent, item, failures, prompt>>
    BY <1>3 DEF SendResume
  <2>4. state' \in RuntimeStates
    BY <2>1, <2>3, SendMessageEffect
  <2>5. /\ \A i \in DOMAIN kept : stage[kept[i]] = "queued"
        /\ \A i, j \in DOMAIN kept : kept[i] = kept[j] => i = j
    BY DEF QueueInv
  <2>6. \A n \in Message : pc[n] \in {"failed", "refused"} => stage[n] = pc[n]
    BY DEF Dropped
  <2> HIDE DEF retry, base, kept, stage
  <2>7. pendingQueue' \in Seq(Message) /\ sent' \in Seq(Message)
    <3>1. Append(kept, m) \in Seq(Message)
      BY <2>2
    <3>2. sent \in Seq(Message) /\ Append(sent, m) \in Seq(Message)
      BY DEF TypeOK
    <3> QED BY <2>2, <2>3, <3>1, <3>2
  <2>8. pc' \in [Message -> Stage]
    BY <2>2, <2>3 DEF Stage
  <2>9. TypeOK'
    BY <2>3, <2>4, <2>7, <2>8 DEF TypeOK
  <2>10. \A n \in Message : pc[n] \in {"failed", "refused"} => pc'[n] = pc[n]
    BY <2>2, <2>3, <2>6
  <2>11. FailuresBounded'
    BY <2>3, <2>10 DEF FailuresBounded, TypeOK
  <2>12. stage[m] = "ensuring"
    BY <2>3 DEF stage, Dropped
  <2>13. QueueInv'
    <3>1. CASE pc' = [stage EXCEPT ![m] = "queued"] /\ pendingQueue' = Append(kept, m)
      <4>1. \A i \in DOMAIN kept : kept[i] # m
        BY <2>5, <2>12
      <4> QED BY <2>2, <2>5, <3>1, <4>1 DEF QueueInv
    <3>2. CASE pc' = [stage EXCEPT ![m] = "sending"] /\ pendingQueue' = kept
      BY <2>2, <2>5, <2>12, <3>2 DEF QueueInv
    <3> QED BY <2>3, <3>1, <3>2
  <2> QED BY <2>9, <2>11, <2>13
<1>4. CASE DrainResume(m)
  <2>1. TypeOK'
    BY <1>4 DEF DrainResume, TypeOK, Stage
  <2>2. FailuresBounded'
    BY <1>4 DEF DrainResume, TypeOK, FailuresBounded
  <2>3. QueueInv'
    BY <1>4, QueueKept DEF DrainResume, TypeOK
  <2> QED BY <2>1, <2>2, <2>3
<1> QED BY <1>1, <1>2, <1>3, <1>4 DEF Send

(* The items a turn appends.                                               *)
LEMMA TypeInvTurn ==
    ASSUME TypeInv, NEW m \in Message, Turn(m) \/ \E r \in Request : TurnAsks(m, r)
    PROVE  TypeInv'
<1> USE DEF TypeInv
<1>1. CASE TurnRuns(m)
  <2>1. state' \in RuntimeStates
    BY <1>1, GuardedEffect DEF TurnRuns, TypeOK
  <2>2. QueueInv'
    BY <1>1, QueueKept DEF TurnRuns
  <2> QED BY <1>1, <2>1, <2>2 DEF TurnRuns, TypeOK, FailuresBounded
<1>2. CASE TurnCompletes(m)
  <2>1. state' \in RuntimeStates
    BY <1>2, GuardedEffect DEF TurnCompletes, TypeOK
  <2>2. TypeOK'
    BY <1>2, <2>1 DEF TurnCompletes, TypeOK
  <2>3. FailuresBounded'
    BY <1>2 DEF TurnCompletes, TypeOK, FailuresBounded
  <2>4. QueueInv'
    BY <1>2, QueueKept DEF TurnCompletes
  <2> QED BY <2>2, <2>3, <2>4
<1>3. CASE TurnFails(m)
  <2>1. state' \in RuntimeStates
    BY <1>3, StatusEffect DEF TurnFails, TypeOK
  <2>2. failures[m] = 0
    BY <1>3 DEF TurnFails, InFlight, TypeOK, FailuresBounded
  <2>3. TypeOK'
    BY <1>3, <2>1, <2>2 DEF TurnFails, TypeOK
  <2>4. FailuresBounded'
    BY <1>3, <2>2 DEF TurnFails, TypeOK, FailuresBounded
  <2>5. QueueInv'
    BY <1>3, QueueKept DEF TurnFails
  <2> QED BY <2>3, <2>4, <2>5
<1>4. ASSUME NEW r \in Request, TurnAsks(m, r) PROVE TypeInv'
  <2>1. state' \in RuntimeStates
    BY <1>4, PermissionEffect DEF TurnAsks, TypeOK
  <2>2. prompt' \in [Request -> Prompt]
    BY <1>4 DEF TurnAsks, TypeOK, Prompt
  <2>3. QueueInv'
    BY <1>4, QueueKept DEF TurnAsks
  <2> QED BY <1>4, <2>1, <2>2, <2>3 DEF TurnAsks, TypeOK, FailuresBounded
<1> QED BY <1>1, <1>2, <1>3, <1>4 DEF Turn

(* The promise of a turn settles.                                          *)
LEMMA TypeInvSettle ==
    ASSUME TypeInv, NEW m \in Message, Settle(m)
    PROVE  TypeInv'
<1> USE DEF TypeInv
<1>1. CASE TurnResolves(m)
  <2>1. state' \in RuntimeStates
    BY <1>1, CompleteEffect DEF TurnResolves, TypeOK
  <2>2. CASE pendingQueue = <<>>
    <3>1. pc' = [pc EXCEPT ![m] = "settled"] /\ UNCHANGED <<pendingQueue, sent>>
      BY <1>1, <2>2 DEF TurnResolves, DrainEagerQueue, NoDrain
    <3>2. TypeOK'
      BY <1>1, <2>1, <3>1 DEF TurnResolves, TypeOK, Stage
    <3>3. FailuresBounded'
      BY <1>1, <3>1 DEF TurnResolves, InFlight, TypeOK, FailuresBounded
    <3>4. QueueInv'
      BY <2>2, <3>1, QueueEmptied
    <3> QED BY <3>2, <3>3, <3>4
  <2>3. CASE pendingQueue # <<>>
    <3> DEFINE h == Head(pendingQueue)
    <3>1. /\ pc' = [pc EXCEPT ![m] = "settled", ![h] = "draining"]
          /\ sent' = Append(sent, h)
          /\ pendingQueue' = Tail(pendingQueue)
      BY <1>1, <2>3 DEF TurnResolves, DrainEagerQueue
    <3>2. /\ h \in Message
          /\ h = pendingQueue[1]
          /\ 1 \in DOMAIN pendingQueue
          /\ Tail(pendingQueue) \in Seq(Message)
          /\ \A i \in DOMAIN Tail(pendingQueue) :
                i + 1 \in DOMAIN pendingQueue /\ Tail(pendingQueue)[i] = pendingQueue[i + 1]
      BY <2>3, QueueParts DEF TypeOK
    <3> HIDE DEF h
    <3>3. pc[h] = "queued" /\ h # m
      BY <1>1, <3>2 DEF QueueInv, TurnResolves, InFlight
    <3>4. pc' \in [Message -> Stage] /\ sent' \in Seq(Message)
      <4>1. pc' \in [Message -> Stage]
        BY <3>1, <3>2 DEF TypeOK, Stage
      <4>2. Append(sent, h) \in Seq(Message)
        BY <3>2 DEF TypeOK
      <4> QED BY <3>1, <4>1, <4>2
    <3>5. TypeOK'
      BY <1>1, <2>1, <3>1, <3>2, <3>4 DEF TurnResolves, TypeOK
    <3>6. FailuresBounded'
      BY <1>1, <3>1, <3>2, <3>3 DEF TurnResolves, InFlight, TypeOK, FailuresBounded
    <3>7. \A n \in Message : pc[n] = "queued" /\ n # h => pc'[n] = "queued"
      BY <1>1, <3>1, <3>2 DEF TurnResolves, InFlight, TypeOK
    <3>8. \A i \in DOMAIN Tail(pendingQueue) :
             pendingQueue[i + 1] \in Message /\ pendingQueue[i + 1] # h
      <4> SUFFICES ASSUME NEW i \in DOMAIN Tail(pendingQueue)
                   PROVE  pendingQueue[i + 1] \in Message /\ pendingQueue[i + 1] # h
        OBVIOUS
      <4>1. i + 1 \in DOMAIN pendingQueue /\ i + 1 # 1
        BY <3>2 DEF TypeOK
      <4> QED BY <3>2, <4>1 DEF QueueInv, TypeOK
    <3>9. QueueInv'
      <4>1. ASSUME NEW i \in DOMAIN pendingQueue' PROVE pc'[pendingQueue'[i]] = "queued"
        <5>1. i \in DOMAIN Tail(pendingQueue) /\ pendingQueue'[i] = Tail(pendingQueue)[i]
          BY <3>1, <4>1
        <5>2. i + 1 \in DOMAIN pendingQueue /\ pendingQueue'[i] = pendingQueue[i + 1]
          BY <3>2, <5>1
        <5>3. pc[pendingQueue[i + 1]] = "queued"
          BY <5>2 DEF QueueInv
        <5> QED BY <3>7, <3>8, <5>1, <5>2, <5>3
      <4>2. ASSUME NEW i \in DOMAIN pendingQueue', NEW j \in DOMAIN pendingQueue',
                   pendingQueue'[i] = pendingQueue'[j]
            PROVE  i = j
        <5>1. i + 1 = j + 1
          BY <3>1, <3>2, <4>2 DEF QueueInv
        <5>2. i \in Nat /\ j \in Nat
          BY <3>1, <3>2
        <5> QED BY <5>1, <5>2
      <4> QED BY <4>1, <4>2 DEF QueueInv
    <3> QED BY <3>5, <3>6, <3>9
  <2> QED BY <2>2, <2>3
<1>2. CASE TurnThrows(m)
  <2>1. state' \in RuntimeStates
    BY <1>2, StatusEffect DEF TurnThrows, ReportSendFailure, TypeOK
  <2>2. /\ InFlight(m)
        /\ item' = item
        /\ failures' \in {failures, [failures EXCEPT ![m] = @ + 1]}
        /\ prompt' = Withdrawn(m)
        /\ UNCHANGED <<disposed, absent, sent>>
    BY <1>2 DEF TurnThrows, ReportSendFailure
  <2>3. failures[m] \in 0..1
    BY <2>2 DEF InFlight, TypeOK, FailuresBounded
  <2>4. \/ pc' = [Dropped EXCEPT ![m] = "failed"] /\ pendingQueue' = <<>>
        \/ pc' = [pc EXCEPT ![m] = "failed"] /\ pendingQueue' = pendingQueue
    BY <1>2 DEF TurnThrows
  <2>5. pc' \in [Message -> Stage] /\ pendingQueue' \in Seq(Message)
    <3>1. <<>> \in Seq(Message)
      OBVIOUS
    <3>2. "failed" \in Stage /\ Dropped \in [Message -> Stage]
      BY MapTypes DEF Stage
    <3> QED BY <2>4, <3>1, <3>2 DEF TypeOK
  <2>6. failures' \in [Message -> 0..2]
    BY <2>2, <2>3 DEF TypeOK
  <2>7. prompt' \in [Request -> Prompt]
    BY <2>2, MapTypes
  <2>8. TypeOK'
    BY <2>1, <2>2, <2>5, <2>6, <2>7 DEF TypeOK
  <2>9. /\ pc'[m] = "failed"
        /\ \A n \in Message : n # m /\ pc[n] \in {"failed", "refused"} => pc'[n] = pc[n]
    BY <2>4 DEF Dropped, TypeOK
  <2>10. failures'[m] <= failures[m] + 1 /\ \A n \in Message \ {m} : failures'[n] = failures[n]
    BY <2>2, <2>3 DEF TypeOK
  <2>11. item[m] # "failed" => failures[m] = 0
    BY <2>2 DEF InFlight, FailuresBounded, TypeOK
  <2>12. FailuresBounded'
    <3>1. ASSUME NEW n \in Message, n # m
          PROVE  /\ item'[n] # "failed" /\ pc'[n] \notin {"failed", "refused"} => failures'[n] = 0
                 /\ item'[n] # "failed" \/ pc'[n] \notin {"failed", "refused"} => failures'[n] \in {0, 1}
      BY <2>2, <2>9, <2>10, <3>1 DEF FailuresBounded
    <3>2. item'[m] # "failed" => failures'[m] \in {0, 1}
      BY <2>2, <2>6, <2>10, <2>11
    <3> QED BY <2>9, <3>1, <3>2 DEF FailuresBounded
  <2>13. QueueInv'
    BY <2>2, <2>4, QueueKept, QueueEmptied DEF InFlight, TypeOK
  <2> QED BY <2>8, <2>12, <2>13
<1> QED BY <1>1, <1>2 DEF Settle

(* The answer to a prompt.                                                 *)
LEMMA TypeInvRespond ==
    ASSUME TypeInv, NEW r \in Request, Respond(r) \/ RespondReturns(r)
    PROVE  TypeInv'
<1> USE DEF TypeInv
<1>1. state' \in RuntimeStates
  BY PermissionEffect DEF Respond, RespondReturns, TypeOK
<1>2. prompt' \in [Request -> Prompt]
  BY DEF Respond, RespondReturns, TypeOK, Prompt, PromptStage
<1>3. UNCHANGED <<pendingQueue, disposed, absent, pc, item, failures, sent>>
  BY DEF Respond, RespondReturns
<1>4. QueueInv'
  BY <1>3, QueueKept
<1> QED BY <1>1, <1>2, <1>3, <1>4 DEF TypeOK, FailuresBounded

(* Every step keeps the invariant.                                         *)
LEMMA TypeInvStep ==
    ASSUME TypeInv, [Next]_vars
    PROVE  TypeInv'
<1>1. CASE UNCHANGED vars
  <2>1. UNCHANGED <<state, pendingQueue, disposed, absent, pc, item, failures, prompt, sent>>
    BY <1>1 DEF vars
  <2>2. TypeOK'
    BY <2>1 DEF TypeInv, TypeOK
  <2>3. FailuresBounded'
    BY <2>1 DEF TypeInv, FailuresBounded
  <2>4. QueueInv'
    BY <2>1 DEF TypeInv, QueueInv
  <2> QED BY <2>2, <2>3, <2>4 DEF TypeInv
<1>2. CASE Next
  BY <1>2, TypeInvHost, TypeInvSend, TypeInvTurn, TypeInvSettle, TypeInvRespond DEF Next
<1> QED BY <1>1, <1>2

(* The state of an eager runtime is well typed, and the pending queue      *)
(* holds exactly parked messages, each once, whatever hosts and drivers do.*)
THEOREM TypeCorrect == Spec => []TypeInv
<1>1. Init => TypeInv
  BY TypeInvInit
<1>2. TypeInv /\ [Next]_vars => TypeInv'
  BY TypeInvStep
<1> QED BY <1>1, <1>2, PTL DEF Spec

(* In particular the state is well typed.                                  *)
THEOREM EagerTypes == Spec => []TypeOK
<1>1. TypeInv => TypeOK
  BY DEF TypeInv
<1> QED BY <1>1, TypeCorrect, PTL

-----------------------------------------------------------------------------
(* Refinement of TurnQueue.                                                *)

(* The stages and their fates, spelt out for the provers.                  *)
LEMMA Fates ==
    /\ FateOf("new") = "new" /\ FateOf("ensuring") = "new"
    /\ FateOf("queued") = "queued"
    /\ FateOf("cancelled") = "cancelled" /\ FateOf("refused") = "cancelled"
    /\ FateOf("draining") = "sent" /\ FateOf("sending") = "sent"
    /\ FateOf("drained") = "sent" /\ FateOf("settled") = "sent"
    /\ FateOf("failed") = "sent"
BY DEF FateOf

(* Only a parked send has the fate "queued".                               *)
LEMMA QueuedFate ==
    ASSUME NEW st \in Stage
    PROVE  FateOf(st) = "queued" <=> st = "queued"
BY DEF FateOf, Stage

(* A step that changes no fate and neither sequence is a stutter.          *)
LEMMA FateStutter ==
    ASSUME UNCHANGED <<pendingQueue, sent>>,
           \A n \in Message : FateOf(pc'[n]) = FateOf(pc[n])
    PROVE  UNCHANGED TQ!vars
BY DEF TQ!vars, fate

(* Dropping the queue is cancelling every parked message.                  *)
LEMMA DroppedFates ==
    ASSUME TypeOK
    PROVE  /\ [n \in Message |-> FateOf(Dropped[n])] = TQ!Dropping(TRUE)
           /\ fate = TQ!Dropping(FALSE)
<1>1. ASSUME NEW n \in Message
      PROVE  FateOf(Dropped[n]) = IF fate[n] = "queued" THEN "cancelled" ELSE fate[n]
  <2>1. pc[n] \in Stage /\ fate[n] = FateOf(pc[n])
    BY DEF TypeOK, fate
  <2>2. CASE pc[n] = "queued"
    BY <2>1, <2>2, Fates DEF Dropped
  <2>3. CASE pc[n] # "queued"
    BY <2>1, <2>3, QueuedFate DEF Dropped
  <2> QED BY <2>2, <2>3
<1> QED BY <1>1 DEF TQ!Dropping, fate

(* The empty runtime is the empty TurnQueue.                               *)
LEMMA InitRefines == Init => TQ!Init
BY Fates DEF Init, TQ!Init, fate

(* A send is parked, committed or refused.                                 *)
LEMMA SendRefines ==
    ASSUME TypeInv, NEW m \in Message, Send(m)
    PROVE  TQ!Next \/ UNCHANGED TQ!vars
<1> USE DEF TypeInv
<1>1. CASE SendRefused(m)
  <2>1. fate[m] = "new"
    BY <1>1, Fates DEF SendRefused, fate
  <2>2. fate' = [fate EXCEPT ![m] = "cancelled"]
    BY <1>1, Fates DEF SendRefused, fate, TypeOK
  <2>3. TQ!Refuse(m)
    BY <1>1, <2>1, <2>2 DEF SendRefused, TQ!Refuse
  <2> QED BY <2>3 DEF TQ!Next
<1>2. CASE SendResume(m) /\ state.status # "failed"
  <2>1. pc[m] = "ensuring" /\ fate[m] = "new"
    BY <1>2, Fates DEF SendResume, fate
  <2>2. CASE pc' = [pc EXCEPT ![m] = "queued"] /\ pendingQueue' = Append(pendingQueue, m) /\ sent' = sent
    <3>1. fate' = [fate EXCEPT ![m] = "queued"]
      BY <2>2, Fates DEF fate, TypeOK
    <3>2. TQ!Park(m)
      BY <2>1, <2>2, <3>1 DEF TQ!Park
    <3> QED BY <3>2 DEF TQ!Next
  <2>3. CASE pc' = [pc EXCEPT ![m] = "sending"] /\ pendingQueue' = pendingQueue /\ sent' = Append(sent, m)
    <3>1. fate' = [TQ!Dropping(FALSE) EXCEPT ![m] = "sent"]
      <4>1. fate' = [fate EXCEPT ![m] = "sent"]
        BY <2>3, Fates DEF fate, TypeOK
      <4> QED BY <4>1, DroppedFates
    <3>2. TQ!Commit(m)
      BY <2>1, <2>3, <3>1 DEF TQ!Commit
    <3> QED BY <3>2 DEF TQ!Next
  <2> QED BY <1>2, <2>2, <2>3 DEF SendResume
<1>3. CASE SendResume(m) /\ state.status = "failed"
  <2>1. pc[m] = "ensuring" /\ fate[m] = "new"
    BY <1>3, Fates DEF SendResume, fate
  <2>2. ~MustPark(Abort(state))
    BY ResetEffect DEF MustPark, TypeOK
  <2>3. pc' = [Dropped EXCEPT ![m] = "sending"] /\ pendingQueue' = <<>> /\ sent' = Append(sent, m)
    BY <1>3, <2>2 DEF SendResume
  <2>4. fate' = [TQ!Dropping(TRUE) EXCEPT ![m] = "sent"]
    <3>1. fate' = [n \in Message |-> IF n = m THEN "sent" ELSE FateOf(Dropped[n])]
      BY <2>3, MapTypes, Fates DEF fate
    <3> QED BY <3>1, DroppedFates
  <2>5. TQ!Commit(m)
    BY <2>1, <2>3, <2>4 DEF TQ!Commit
  <2> QED BY <2>5 DEF TQ!Next
<1>4. CASE DrainResume(m)
  BY <1>4, Fates, FateStutter DEF DrainResume, TypeOK
<1> QED BY <1>1, <1>2, <1>3, <1>4 DEF Send

(* A turn that resolves releases the oldest parked message, one that throws *)
(* may cancel the queue.                                                   *)
LEMMA SettleRefines ==
    ASSUME TypeInv, NEW m \in Message, Settle(m)
    PROVE  TQ!Next \/ UNCHANGED TQ!vars
<1> USE DEF TypeInv
<1>0. pc[m] \in {"sending", "drained"} /\ FateOf(pc[m]) = "sent"
  BY Fates DEF Settle, TurnResolves, TurnThrows, InFlight
<1>1. CASE TurnResolves(m) /\ pendingQueue = <<>>
  BY <1>0, <1>1, Fates, FateStutter DEF TurnResolves, DrainEagerQueue, NoDrain, TypeOK
<1>2. CASE TurnResolves(m) /\ pendingQueue # <<>>
  <2> DEFINE h == Head(pendingQueue)
  <2>1. /\ pc' = [pc EXCEPT ![m] = "settled", ![h] = "draining"]
        /\ sent' = Append(sent, h)
        /\ pendingQueue' = Tail(pendingQueue)
    BY <1>2 DEF TurnResolves, DrainEagerQueue
  <2>2. h \in Message /\ pc[h] = "queued"
    BY <1>2, QueueParts DEF TypeOK, QueueInv
  <2>3. fate' = [fate EXCEPT ![h] = "sent"]
    <3> HIDE DEF h
    <3> QED BY <1>0, <2>1, <2>2, Fates DEF fate, TypeOK
  <2>4. TQ!Release
    BY <1>2, <2>1, <2>3 DEF TQ!Release
  <2> QED BY <2>4 DEF TQ!Next
<1>3. CASE TurnThrows(m) /\ pc[m] = "drained"
  <2>1. pc' = [Dropped EXCEPT ![m] = "failed"] /\ pendingQueue' = <<>> /\ sent' = sent
    BY <1>3 DEF TurnThrows
  <2>2. Dropped[m] = "drained"
    BY <1>3 DEF Dropped
  <2>3. fate' = [n \in Message |-> FateOf(Dropped[n])]
    BY <2>1, <2>2, MapTypes, Fates DEF fate
  <2>4. TQ!CancelAll
    BY <2>1, <2>3, DroppedFates DEF TQ!CancelAll
  <2> QED BY <2>4 DEF TQ!Next
<1>4. CASE TurnThrows(m) /\ pc[m] # "drained"
  BY <1>0, <1>4, Fates, FateStutter DEF TurnThrows, TypeOK
<1> QED BY <1>1, <1>2, <1>3, <1>4 DEF Settle

(* abort() and dispose() cancel the queue.                                 *)
LEMMA CancelRefines ==
    ASSUME TypeInv, AbortCall \/ DisposeCall
    PROVE  TQ!Next
<1>1. pc' = Dropped /\ pendingQueue' = <<>> /\ sent' = sent
  BY DEF AbortCall, DisposeCall
<1>2. TQ!CancelAll
  BY <1>1, DroppedFates DEF TQ!CancelAll, TypeInv, fate
<1> QED BY <1>2 DEF TQ!Next

(* Every other step leaves the queue, the sent messages and the fates.     *)
LEMMA OtherStutters ==
    ASSUME TypeInv,
           \/ Preflight
           \/ \E m \in Message : SendCall(m) \/ Turn(m) \/ \E r \in Request : TurnAsks(m, r)
           \/ \E r \in Request : Respond(r) \/ RespondReturns(r)
           \/ UNCHANGED vars
    PROVE  UNCHANGED TQ!vars
<1>1. ASSUME NEW m \in Message, SendCall(m) PROVE UNCHANGED TQ!vars
  BY <1>1, Fates, FateStutter DEF SendCall, TypeInv, TypeOK
<1>2. CASE UNCHANGED <<pendingQueue, pc, sent>>
  BY <1>2, FateStutter
<1> QED BY <1>1, <1>2 DEF Preflight, Turn, TurnRuns, TurnCompletes, TurnFails, TurnAsks,
                          Respond, RespondReturns, vars

(* Every step of the scaffold is a step of TurnQueue or a stutter.         *)
LEMMA StepRefines ==
    ASSUME TypeInv, [Next]_vars
    PROVE  [TQ!Next]_(TQ!vars)
<1>1. CASE Next
  BY <1>1, SendRefines, SettleRefines, CancelRefines, OtherStutters DEF Next
<1> QED BY <1>1, OtherStutters

(* In every environment the eager scaffold implements TurnQueue: a message *)
(* is given to the driver at most once, parked messages in their order,    *)
(* and never after they were cancelled.                                    *)
THEOREM Refinement == Spec => ImplementsTurnQueue
<1>1. Init => TQ!Init
  BY InitRefines
<1>2. TypeInv /\ [Next]_vars => [TQ!Next]_(TQ!vars)
  BY StepRefines
<1> QED BY <1>1, <1>2, TypeCorrect, PTL DEF Spec, ImplementsTurnQueue, TQ!Spec

(* What TurnQueue does to the parked messages and the sent ones.           *)
LEMMA QueueStep ==
    ASSUME OnceEach(pendingQueue, sent, fate), [TQ!Next]_(TQ!vars)
    PROVE  OnceEach(pendingQueue, sent, fate)'
<1> DEFINE Fate4 == {"new", "queued", "sent", "cancelled"}
<1>0. /\ fate \in [Message -> Fate4]
      /\ Listed(pendingQueue, fate, "queued") /\ Listed(sent, fate, "sent")
  BY DEF OnceEach
<1>1. ASSUME NEW all \in BOOLEAN
      PROVE  /\ TQ!Dropping(all) \in [Message -> Fate4]
             /\ \A n \in Message : TQ!Dropping(all)[n] =
                   IF all /\ fate[n] = "queued" THEN "cancelled" ELSE fate[n]
  BY <1>0 DEF TQ!Dropping
<1> HIDE DEF fate
<1>2. ASSUME NEW m \in Message, TQ!Commit(m) PROVE OnceEach(pendingQueue, sent, fate)'
  <2>1. PICK reset \in BOOLEAN :
           /\ fate[m] = "new"
           /\ fate' = [TQ!Dropping(reset) EXCEPT ![m] = "sent"]
           /\ sent' = Append(sent, m)
           /\ pendingQueue' = IF reset THEN <<>> ELSE pendingQueue
    BY <1>2 DEF TQ!Commit
  <2>2. /\ fate' \in [Message -> Fate4]
        /\ \A n \in Message : fate'[n] = IF n = m THEN "sent"
              ELSE IF reset /\ fate[n] = "queued" THEN "cancelled" ELSE fate[n]
    BY <1>1, <2>1
  <2>3. \A n \in Message : fate'[n] = "sent" <=> n = m \/ fate[n] = "sent"
    BY <2>2
  <2>4. Listed(sent', fate', "sent")
    BY <1>0, <2>1, <2>3, ListedAppend
  <2>5. CASE reset
    <3>1. \A n \in Message : fate'[n] # "queued"
      BY <2>2, <2>5
    <3>2. QED
      BY <2>1, <2>2, <2>4, <2>5, <3>1, ListedNone DEF OnceEach
  <2>6. CASE ~reset
    <3>1. \A n \in Message : fate'[n] = "queued" <=> fate[n] = "queued"
      BY <2>1, <2>2, <2>6
    <3>2. Listed(pendingQueue, fate', "queued")
      BY <1>0, <3>1, ListedSame
    <3>3. QED
      BY <2>1, <2>2, <2>4, <2>6, <3>2 DEF OnceEach
  <2>7. QED
    BY <2>5, <2>6
<1>3. ASSUME NEW m \in Message, TQ!Park(m) PROVE OnceEach(pendingQueue, sent, fate)'
  <2>1. /\ fate[m] = "new" /\ pendingQueue' = Append(pendingQueue, m) /\ sent' = sent
        /\ fate' \in [Message -> Fate4]
        /\ \A n \in Message : fate'[n] = IF n = m THEN "queued" ELSE fate[n]
    BY <1>0, <1>3 DEF TQ!Park
  <2>2. Listed(pendingQueue', fate', "queued")
    BY <1>0, <2>1, ListedAppend
  <2>3. Listed(sent, fate', "sent")
    BY <1>0, <2>1, ListedSame
  <2>4. QED
    BY <2>1, <2>2, <2>3 DEF OnceEach
<1>4. CASE TQ!Release
  <2>0. PICK h : h = Head(pendingQueue)
    OBVIOUS
  <2>1. /\ pendingQueue # <<>> /\ fate' = [fate EXCEPT ![h] = "sent"]
        /\ sent' = Append(sent, h) /\ pendingQueue' = Tail(pendingQueue)
    BY <1>4, <2>0 DEF TQ!Release
  <2>2. /\ fate' \in [Message -> Fate4]
        /\ \A n \in Message : fate'[n] = IF n = h THEN "sent" ELSE fate[n]
    BY <1>0, <2>1
  <2>3. \A n \in Message : fate'[n] = "queued" <=> n # h /\ fate[n] = "queued"
    BY <2>2
  <2>4. /\ h \in Message /\ fate[h] = "queued"
        /\ Listed(Tail(pendingQueue), fate', "queued")
    BY <1>0, <2>0, <2>1, <2>3, ListedHead, ListedTail
  <2>5. \A n \in Message : fate'[n] = "sent" <=> n = h \/ fate[n] = "sent"
    BY <2>2
  <2>6. Listed(sent', fate', "sent")
    BY <1>0, <2>1, <2>4, <2>5, ListedAppend
  <2>7. QED
    BY <2>1, <2>2, <2>4, <2>6 DEF OnceEach
<1>5. CASE TQ!CancelAll
  <2>1. /\ pendingQueue' = <<>> /\ sent' = sent /\ fate' \in [Message -> Fate4]
        /\ \A n \in Message :
              fate'[n] = IF fate[n] = "queued" THEN "cancelled" ELSE fate[n]
    <3>1. fate' = TQ!Dropping(TRUE) /\ pendingQueue' = <<>> /\ sent' = sent
      BY <1>5 DEF TQ!CancelAll
    <3>2. QED
      BY <1>1, <3>1
  <2>2. Listed(<<>>, fate', "queued")
    <3>1. \A n \in Message : fate'[n] # "queued"
      BY <2>1
    <3>2. QED
      BY <3>1, ListedNone
  <2>3. Listed(sent, fate', "sent")
    <3>1. \A n \in Message : fate'[n] = "sent" <=> fate[n] = "sent"
      BY <2>1
    <3>2. QED
      BY <1>0, <3>1, ListedSame
  <2>4. QED
    BY <2>1, <2>2, <2>3 DEF OnceEach
<1>6. ASSUME NEW m \in Message, TQ!Refuse(m) PROVE OnceEach(pendingQueue, sent, fate)'
  <2>1. /\ pendingQueue' = pendingQueue /\ sent' = sent
        /\ fate' \in [Message -> Fate4] /\ fate[m] = "new"
        /\ \A n \in Message : fate'[n] = IF n = m THEN "cancelled" ELSE fate[n]
    BY <1>0, <1>6 DEF TQ!Refuse
  <2>2. Listed(pendingQueue, fate', "queued") /\ Listed(sent, fate', "sent")
    BY <1>0, <2>1, ListedSame
  <2>3. QED
    BY <2>1, <2>2 DEF OnceEach
<1>7. CASE UNCHANGED TQ!vars
  BY <1>0, <1>7 DEF TQ!vars, OnceEach
<1>8. QED
  BY <1>2, <1>3, <1>4, <1>5, <1>6, <1>7 DEF TQ!Next

(* A message is given to the driver once at most, and the messages given   *)
(* to it are those whose fate says so: none that was cancelled or refused. *)
THEOREM SentOnce == Spec => []TQ!SentOnce
<1>1. TQ!Init => OnceEach(pendingQueue, sent, fate)
  BY ListedNone DEF TQ!Init, OnceEach
<1>2. OnceEach(pendingQueue, sent, fate) /\ [TQ!Next]_(TQ!vars)
         => OnceEach(pendingQueue, sent, fate)'
  BY QueueStep
<1>3. OnceEach(pendingQueue, sent, fate) => TQ!SentOnce
  BY DEF OnceEach, Listed, TQ!SentOnce
<1>4. Spec => TQ!Spec
  BY Refinement DEF ImplementsTurnQueue
<1>5. QED
  BY <1>1, <1>2, <1>3, <1>4, PTL DEF TQ!Spec

-----------------------------------------------------------------------------
(* The plain session: a host that neither aborts, disposes nor repeats     *)
(* preflight, a driver that throws as soon as it has reported a failure,   *)
(* and no empty message.                                                   *)
PlainSession == Env \subseteq {"absent", "parallel"} /\ Blank \notin Message

(* Without a driver nothing is ever sent.                                  *)
AbsentInv == absent => \A m \in Message : pc[m] \in {"new", "ensuring", "refused"}

(* The status tells whether a turn is under way: none is while the runtime *)
(* could commit at once, and in failed only one that is about to throw.    *)
StatusInv ==
    /\ state.status \notin {"starting", "disposed"}
    /\ state.status \in {"idle", "preflighting", "ready"} => \A m \in Message : ~Live(m)
    /\ state.status = "failed" =>
          \A m \in Message : Live(m) => InFlight(m) /\ item[m] = "failed"

(* A send that has not reached the driver has reported nothing, and a      *)
(* prompt is held by a turn in flight.                                     *)
ItemInv ==
    /\ \A m \in Message :
          pc[m] \in {"new", "ensuring", "queued", "draining"} => item[m] = "open"
    /\ \A r \in Request : prompt[r] \in Message => InFlight(prompt[r])

(* The reducer and the scaffold agree; SingleFlight is what A2 asks for.   *)
PlainInv ==
    /\ TypeInv
    /\ AbsentInv
    /\ StatusInv
    /\ ItemInv
    /\ SingleFlight
    /\ state.status # "failed" => pendingQueue = state.queued
    /\ state.accepted = sent

(* A fresh runtime satisfies the plain invariant.                          *)
LEMMA PlainInit == Init => PlainInv
<1> SUFFICES ASSUME Init PROVE PlainInv
  OBVIOUS
<1>1. TypeInv
  BY TypeInvInit
<1>2. /\ state.status = "idle" /\ state.queued = <<>> /\ state.accepted = <<>>
      /\ \A m \in Message : pc[m] = "new" /\ ~Live(m) /\ item[m] = "open"
      /\ \A r \in Request : prompt[r] \notin Message
  BY MessageAssumption DEF Init, InitialState, Live, InFlight, PromptStage
<1> QED BY <1>1, <1>2 DEF PlainInv, AbsentInv, StatusInv, ItemInv, SingleFlight, Init

(* Steps that move no message: what they do to the state decides.          *)
LEMMA PlainKept ==
    ASSUME PlainInv, TypeInv', UNCHANGED <<pendingQueue, absent, pc, item, sent>>,
           \A r \in Request : prompt'[r] \in Message => InFlight(prompt'[r]),
           state'.queued = state.queued, state'.accepted = state.accepted,
           StatusInv', state.status = "failed" => state'.status = "failed"
    PROVE  PlainInv'
BY DEF PlainInv, AbsentInv, ItemInv, SingleFlight, Live, InFlight

(* In a plain session the host's only step is the first preflight.         *)
LEMMA PlainHost ==
    ASSUME PlainSession, PlainInv, TypeInv', Preflight \/ AbortCall \/ DisposeCall
    PROVE  PlainInv'
<1>1. Preflight /\ state.status = "idle"
  BY DEF PlainSession, Preflight, AbortCall, DisposeCall
<1>2. state'.status \in {"ready", "failed"} /\ state'.queued = state.queued
        /\ state'.accepted = state.accepted
  BY <1>1, StatusEffect DEF Preflight, PlainInv, TypeInv, TypeOK
<1>3. \A m \in Message : ~Live(m)
  BY <1>1 DEF PlainInv, StatusInv
<1>4. UNCHANGED <<pendingQueue, disposed, absent, pc, item, failures, prompt, sent>>
  BY <1>1 DEF Preflight
<1>5. StatusInv'
  BY <1>2, <1>3, <1>4 DEF StatusInv, Live, InFlight
<1> QED BY <1>1, <1>2, <1>4, <1>5, PlainKept DEF PlainInv, ItemInv

(* A send commits only when no turn is under way.                          *)
LEMMA PlainSend ==
    ASSUME PlainSession, PlainInv, TypeInv', NEW m \in Message, SendCall(m) \/ Send(m)
    PROVE  PlainInv'
<1> USE DEF PlainInv
<1>0. state \in RuntimeStates /\ pc \in [Message -> Stage] /\ prompt \in [Request -> Prompt]
  BY DEF TypeInv, TypeOK
<1>1. CASE SendCall(m)
  <2>1. \A n \in Message : /\ pc'[n] = IF n = m THEN "ensuring" ELSE pc[n]
                           /\ Live(n)' <=> Live(n)
                           /\ InFlight(n)' <=> InFlight(n)
    BY <1>0, <1>1 DEF SendCall, Live, InFlight
  <2>2. UNCHANGED <<state, pendingQueue, absent, item, prompt, sent>> /\ pc[m] = "new"
    BY <1>1 DEF SendCall
  <2>3. AbsentInv' /\ StatusInv'
    BY <2>1, <2>2 DEF AbsentInv, StatusInv
  <2>4. ItemInv' /\ SingleFlight'
    BY <2>1, <2>2 DEF ItemInv, SingleFlight
  <2> QED BY <2>2, <2>3, <2>4
<1>2. CASE SendRefused(m)
  <2>1. \A n \in Message : ~Live(n) /\ ~Live(n)'
    BY <1>0, <1>2 DEF SendRefused, AbsentInv, Live, InFlight
  <2>2. state'.status = "failed" /\ state'.accepted = state.accepted
    BY <1>0, <1>2, StatusEffect DEF SendRefused
  <2>3. UNCHANGED <<absent, item, prompt, sent>> /\ pc' = [pc EXCEPT ![m] = "refused"]
    BY <1>2 DEF SendRefused
  <2>4. AbsentInv' /\ StatusInv' /\ SingleFlight'
    BY <1>0, <2>1, <2>2, <2>3 DEF AbsentInv, StatusInv, SingleFlight
  <2>5. ItemInv'
    BY <1>0, <2>1, <2>3 DEF ItemInv, Live
  <2> QED BY <2>2, <2>3, <2>4, <2>5
<1>3. CASE SendResume(m)
  <2> DEFINE retry == state.status = "failed"
             base  == IF retry THEN Abort(state) ELSE state
             kept  == IF retry THEN <<>> ELSE pendingQueue
             stage == IF retry THEN Dropped ELSE pc
  <2>1. /\ pc[m] = "ensuring" /\ ~absent
        /\ \A n \in Message : InFlight(n) => item[n] # "failed"
        /\ state' = SendMessage(base, m)
        /\ UNCHANGED <<absent, item, prompt>>
    BY <1>3 DEF SendResume, Prompted, PlainSession
  <2>2. /\ base \in RuntimeStates /\ base.queued = kept /\ base.accepted = sent
        /\ base.status = IF retry THEN "ready" ELSE state.status
    BY <1>0, ResetEffect
  <2>3. retry => \A n \in Message : ~Live(n)
    BY <2>1 DEF StatusInv
  <2>4. \A n \in Message : stage[n] = pc[n] \/ (pc[n] = "queued" /\ stage[n] = "cancelled")
    BY DEF Dropped
  <2>5. stage \in [Message -> Stage] /\ item[m] = "open"
    BY <1>0, <2>1, MapTypes DEF ItemInv, TypeInv
  <2>6. CASE MustPark(base)
    <3>1. pc' = [stage EXCEPT ![m] = "queued"] /\ pendingQueue' = Append(kept, m) /\ sent' = sent
      BY <1>3, <2>6 DEF SendResume
    <3>2. base.status \in Busy /\ ~retry
      BY <1>0, <2>2, <2>6 DEF MustPark, StatusInv, Busy, RuntimeStates, Status
    <3>3. /\ state'.status = base.status
          /\ state'.queued = Append(kept, m)
          /\ state'.accepted = sent
      BY <2>1, <2>2, <3>2, SendMessageEffect
    <3>4. \A n \in Message : /\ pc'[n] = IF n = m THEN "queued" ELSE pc[n]
                             /\ Live(n)' <=> Live(n)
                             /\ InFlight(n)' <=> InFlight(n)
      BY <1>0, <2>1, <3>1, <3>2 DEF Live, InFlight
    <3>5. AbsentInv' /\ StatusInv'
      BY <2>1, <2>2, <3>2, <3>3, <3>4 DEF AbsentInv, StatusInv, Busy
    <3>6. ItemInv' /\ SingleFlight'
      BY <2>1, <2>5, <3>4 DEF ItemInv, SingleFlight
    <3> QED BY <3>1, <3>3, <3>5, <3>6
  <2>7. CASE ~MustPark(base)
    <3>1. pc' = [stage EXCEPT ![m] = "sending"] /\ pendingQueue' = kept /\ sent' = Append(sent, m)
      BY <1>3, <2>7 DEF SendResume
    <3>2. base.status \notin Busy \cup Terminal
      BY <2>2, <2>7 DEF MustPark, Busy, Terminal
    <3>3. /\ state'.status = "running"
          /\ state'.queued = kept
          /\ state'.accepted = Append(sent, m)
      <4> HIDE DEF base, kept, retry, stage
      <4>1. state' = Accept(base, m)
        BY <2>1, <2>2, <3>2, SendMessageEffect
      <4> QED BY <2>2, <4>1, AcceptEffect
    <3>4. \A n \in Message : ~Live(n)
      BY <2>2, <2>3, <2>7 DEF MustPark, StatusInv
    <3> HIDE DEF stage, kept, base, retry
    <3>5. \A n \in Message : /\ pc'[n] = IF n = m THEN "sending" ELSE stage[n]
                             /\ Live(n)' => n = m
      BY <2>4, <2>5, <3>1, <3>4 DEF Live, InFlight
    <3>6. AbsentInv' /\ StatusInv' /\ SingleFlight'
      BY <2>1, <3>3, <3>5 DEF AbsentInv, StatusInv, SingleFlight
    <3>7. ItemInv'
      BY <2>1, <2>4, <2>5, <3>4, <3>5 DEF ItemInv, Live
    <3> QED BY <3>1, <3>3, <3>6, <3>7
  <2> QED BY <2>6, <2>7
<1>4. CASE DrainResume(m)
  <2>1. /\ pc[m] = "draining" /\ pc' = [pc EXCEPT ![m] = "drained"]
        /\ UNCHANGED <<state, pendingQueue, absent, item, prompt, sent>>
    BY <1>4 DEF DrainResume
  <2>2. \A n \in Message : (Live(n)' <=> Live(n)) /\ (InFlight(n) => InFlight(n)')
    BY <1>0, <2>1 DEF Live, InFlight
  <2>3. AbsentInv' /\ StatusInv' /\ SingleFlight'
    BY <1>0, <2>1, <2>2 DEF AbsentInv, StatusInv, SingleFlight
  <2>4. ItemInv'
    BY <1>0, <2>1, <2>2 DEF ItemInv
  <2> QED BY <2>1, <2>3, <2>4
<1> QED BY <1>1, <1>2, <1>3, <1>4 DEF Send

(* The items of the one turn in flight.                                    *)
LEMMA PlainTurn ==
    ASSUME PlainSession, PlainInv, TypeInv', NEW m \in Message,
           Turn(m) \/ \E r \in Request : TurnAsks(m, r)
    PROVE  PlainInv'
<1>0. state \in RuntimeStates /\ InFlight(m) /\ Live(m)
  BY DEF PlainInv, TypeInv, TypeOK, Turn, TurnRuns, TurnCompletes, TurnFails, TurnAsks, Live
<1>1. state.status \notin {"idle", "preflighting", "ready", "starting", "disposed"}
  BY <1>0 DEF PlainInv, StatusInv
<1>2. item[m] # "failed" => state.status # "failed"
  BY <1>0 DEF PlainInv, StatusInv
<1>3. CASE TurnRuns(m)
  <2>1. state'.status = state.status /\ state'.queued = state.queued /\ state'.accepted = state.accepted
    BY <1>0, <1>1, <1>3, GuardedEffect DEF TurnRuns
  <2>2. UNCHANGED <<pendingQueue, absent, pc, item, prompt, sent>>
    BY <1>3 DEF TurnRuns
  <2>3. StatusInv'
    BY <2>1, <2>2 DEF PlainInv, StatusInv, Live, InFlight
  <2> QED BY <2>1, <2>2, <2>3, PlainKept DEF PlainInv, ItemInv
<1>4. CASE TurnCompletes(m)
  <2>1. /\ state'.status \in {state.status, "turn_completed"} /\ state.status # "failed"
        /\ state'.queued = state.queued /\ state'.accepted = state.accepted
    BY <1>0, <1>2, <1>4, GuardedEffect DEF TurnCompletes
  <2>2. /\ UNCHANGED <<pendingQueue, absent, pc, prompt, sent>>
        /\ item' = [item EXCEPT ![m] = "completed"]
    BY <1>4 DEF TurnCompletes
  <2>3. \A n \in Message : (Live(n)' <=> Live(n)) /\ (InFlight(n)' <=> InFlight(n))
    BY <2>2 DEF Live, InFlight
  <2>4. StatusInv' /\ AbsentInv' /\ SingleFlight'
    BY <1>1, <2>1, <2>2, <2>3 DEF PlainInv, StatusInv, AbsentInv, SingleFlight
  <2>5. ItemInv'
    BY <1>0, <2>2, <2>3 DEF PlainInv, ItemInv, InFlight, TypeInv, TypeOK
  <2> QED BY <2>1, <2>2, <2>4, <2>5 DEF PlainInv
<1>5. CASE TurnFails(m)
  <2>1. state'.status = "failed" /\ state'.accepted = state.accepted
    BY <1>0, <1>5, StatusEffect DEF TurnFails
  <2>2. /\ UNCHANGED <<pendingQueue, absent, pc, prompt, sent>>
        /\ item' = [item EXCEPT ![m] = "failed"]
    BY <1>5 DEF TurnFails
  <2>3. \A n \in Message : (Live(n)' <=> Live(n)) /\ (InFlight(n)' <=> InFlight(n))
    BY <2>2 DEF Live, InFlight
  <2>4. \A n \in Message : Live(n)' => InFlight(n)' /\ item'[n] = "failed"
    BY <1>0, <2>2, <2>3 DEF PlainInv, SingleFlight, TypeInv, TypeOK
  <2>5. StatusInv' /\ AbsentInv' /\ SingleFlight'
    BY <2>1, <2>2, <2>3, <2>4 DEF PlainInv, StatusInv, AbsentInv, SingleFlight
  <2>6. ItemInv'
    BY <1>0, <2>2, <2>3 DEF PlainInv, ItemInv, InFlight, TypeInv, TypeOK
  <2> QED BY <2>1, <2>2, <2>5, <2>6 DEF PlainInv
<1>6. ASSUME NEW r \in Request, TurnAsks(m, r) PROVE PlainInv'
  <2>1. /\ state'.status = "waiting_for_permission" /\ state.status # "failed"
        /\ state'.queued = state.queued /\ state'.accepted = state.accepted
    BY <1>0, <1>2, <1>6, PermissionEffect DEF TurnAsks
  <2>2. /\ UNCHANGED <<pendingQueue, absent, pc, item, sent>>
        /\ prompt' = [prompt EXCEPT ![r] = m]
    BY <1>6 DEF TurnAsks
  <2>3. StatusInv'
    BY <2>1 DEF StatusInv
  <2>4. \A q \in Request : prompt'[q] \in Message => InFlight(prompt'[q])
    BY <1>0, <2>2 DEF PlainInv, ItemInv, TypeInv, TypeOK
  <2> QED BY <2>1, <2>2, <2>3, <2>4, PlainKept
<1> QED BY <1>3, <1>4, <1>5, <1>6 DEF Turn

(* When the turn settles, the oldest parked send takes its place or the    *)
(* runtime is free.                                                        *)
LEMMA PlainSettle ==
    ASSUME PlainSession, PlainInv, TypeInv', NEW m \in Message, Settle(m)
    PROVE  PlainInv'
<1> USE DEF PlainInv
<1>0. /\ state \in RuntimeStates /\ pc \in [Message -> Stage] /\ prompt \in [Request -> Prompt]
      /\ InFlight(m) /\ Live(m)
  BY DEF TypeInv, TypeOK, Settle, TurnResolves, TurnThrows, Live
<1>1. \A n \in Message : Live(n) => n = m
  BY <1>0 DEF SingleFlight
<1>2. /\ state.status \notin {"idle", "preflighting", "ready", "starting", "disposed"}
      /\ ~absent
  BY <1>0 DEF StatusInv, AbsentInv, InFlight
<1>3. CASE TurnResolves(m)
  <2>1. /\ item[m] # "failed" /\ \A r \in Request : prompt[r] # m
        /\ state' = Complete(state) /\ DrainEagerQueue(m)
        /\ UNCHANGED <<absent, item, prompt>>
    BY <1>3 DEF TurnResolves, PlainSession
  <2>2. state.status \notin Terminal /\ pendingQueue = state.queued /\ state.accepted = sent
    BY <1>0, <1>2, <2>1 DEF StatusInv, Terminal
  <2>3. \A r \in Request : prompt[r] \notin Message
    BY <1>1, <2>1 DEF ItemInv, Live
  <2>4. CASE pendingQueue = <<>>
    <3>1. pc' = [pc EXCEPT ![m] = "settled"] /\ UNCHANGED <<pendingQueue, sent>>
      BY <2>1, <2>4 DEF DrainEagerQueue, NoDrain
    <3>2. state'.status = "ready" /\ state'.queued = state.queued /\ state'.accepted = sent
      BY <1>0, <2>1, <2>2, <2>4, CompleteEffect
    <3>3. \A n \in Message : ~Live(n)'
      BY <1>0, <1>1, <3>1 DEF Live, InFlight
    <3>4. AbsentInv' /\ StatusInv' /\ SingleFlight'
      BY <1>2, <2>1, <3>2, <3>3 DEF AbsentInv, StatusInv, SingleFlight
    <3>5. ItemInv'
      BY <1>0, <2>1, <2>3, <3>1 DEF ItemInv
    <3> QED BY <2>2, <3>1, <3>2, <3>4, <3>5
  <2>5. CASE pendingQueue # <<>>
    <3> DEFINE h == Head(pendingQueue)
    <3>1. /\ pc' = [pc EXCEPT ![m] = "settled", ![h] = "draining"]
          /\ sent' = Append(sent, h) /\ pendingQueue' = Tail(pendingQueue)
      BY <2>1, <2>5 DEF DrainEagerQueue
    <3>2. h \in Message /\ pc[h] = "queued" /\ h # Blank
      BY <2>5, QueueParts DEF TypeInv, TypeOK, QueueInv, PlainSession
    <3>3. /\ state'.status = "running" /\ state'.queued = Tail(pendingQueue)
          /\ state'.accepted = Append(sent, h)
      BY <1>0, <2>1, <2>2, <2>5, <3>2, CompleteEffect
    <3> HIDE DEF h
    <3>4. \A n \in Message : Live(n)' => n = h
      BY <1>0, <1>1, <3>1, <3>2 DEF Live, InFlight
    <3>5. AbsentInv' /\ StatusInv' /\ SingleFlight'
      BY <1>2, <2>1, <3>3, <3>4 DEF AbsentInv, StatusInv, SingleFlight
    <3>6. ItemInv'
      BY <1>0, <2>1, <2>3, <3>1, <3>2 DEF ItemInv
    <3> QED BY <3>1, <3>3, <3>5, <3>6
  <2> QED BY <2>4, <2>5
<1>4. CASE TurnThrows(m)
  <2>1. /\ state' = Error(state) /\ prompt' = Withdrawn(m)
        /\ UNCHANGED <<absent, item, sent>>
        /\ pc' \in {[Dropped EXCEPT ![m] = "failed"], [pc EXCEPT ![m] = "failed"]}
    BY <1>4 DEF TurnThrows, ReportSendFailure
  <2>2. state'.status = "failed" /\ state'.accepted = state.accepted
    BY <1>0, <2>1, StatusEffect
  <2>4. \A n \in Message : ~Live(n)'
    <3>1. ASSUME NEW n \in Message PROVE pc'[n] \notin {"draining", "sending", "drained"}
      <4>1. CASE n = m
        BY <1>0, <2>1, <4>1, MapTypes DEF TypeInv
      <4>2. CASE n # m
        <5>1. pc[n] \notin {"draining", "sending", "drained"}
          BY <1>1, <4>2 DEF Live, InFlight
        <5> QED BY <1>0, <2>1, <4>2, <5>1, MapTypes DEF Dropped, TypeInv
      <4> QED BY <4>1, <4>2
    <3> QED BY <3>1 DEF Live, InFlight
  <2>5. AbsentInv' /\ StatusInv' /\ SingleFlight'
    BY <1>2, <2>1, <2>2, <2>4 DEF AbsentInv, StatusInv, SingleFlight
  <2>6. \A r \in Request : prompt'[r] \notin Message
    <3>1. ASSUME NEW r \in Request, prompt[r] \in Message PROVE prompt[r] = m
      BY <1>1, <3>1 DEF ItemInv, Live
    <3> QED BY <1>0, <2>1, <3>1, MessageAssumption DEF Withdrawn, PromptStage
  <2>7. ItemInv'
    <3>1. ASSUME NEW n \in Message, pc'[n] \in {"new", "ensuring", "queued", "draining"}
          PROVE  pc[n] \in {"new", "ensuring", "queued", "draining"}
      BY <1>0, <2>1, <3>1, MapTypes DEF Dropped, TypeInv
    <3> QED BY <2>1, <2>6, <3>1 DEF ItemInv
  <2> QED BY <2>1, <2>2, <2>5, <2>7
<1> QED BY <1>3, <1>4 DEF Settle

(* Answers only reach a turn that has not failed.                          *)
LEMMA PlainRespond ==
    ASSUME PlainSession, PlainInv, TypeInv', NEW r \in Request, Respond(r) \/ RespondReturns(r)
    PROVE  PlainInv'
<1>0. state \in RuntimeStates /\ prompt \in [Request -> Prompt]
  BY DEF PlainInv, TypeInv, TypeOK
<1>1. /\ UNCHANGED <<pendingQueue, absent, pc, item, sent>>
      /\ prompt' \in {[prompt EXCEPT ![r] = "answering"], [prompt EXCEPT ![r] = "answered"]}
  BY DEF Respond, RespondReturns
<1>2. \A q \in Request : prompt'[q] \in Message => InFlight(prompt'[q])
  BY <1>0, <1>1, MessageAssumption DEF PlainInv, ItemInv, PromptStage
<1>3. \/ state' = state
      \/ state' = PermissionResponse(state) /\ state.status # "failed"
  <2>1. CASE RespondReturns(r)
    BY <2>1 DEF RespondReturns
  <2>2. CASE Respond(r) /\ prompt[r] \in Message
    <3>1. InFlight(prompt[r]) /\ item[prompt[r]] # "failed"
      BY <2>2 DEF PlainInv, ItemInv, Respond, Prompted, PlainSession
    <3>2. state.status # "failed"
      BY <2>2, <3>1 DEF PlainInv, StatusInv, Live
    <3> QED BY <2>2, <3>2 DEF Respond
  <2>3. CASE Respond(r) /\ prompt[r] \notin Message
    BY <2>3 DEF Respond
  <2> QED BY <2>1, <2>2, <2>3
<1>4. /\ state'.queued = state.queued /\ state'.accepted = state.accepted
      /\ state'.status = state.status \/ (state'.status = "running" /\ state.status # "failed")
  BY <1>0, <1>3, PermissionEffect
<1>5. \A n \in Message : (Live(n)' <=> Live(n)) /\ (InFlight(n)' <=> InFlight(n))
  BY <1>1 DEF Live, InFlight
<1>6. StatusInv'
  BY <1>1, <1>4, <1>5 DEF PlainInv, StatusInv
<1> QED BY <1>1, <1>2, <1>4, <1>6, PlainKept

(* Every step of a plain session keeps the invariant.                      *)
LEMMA PlainStep ==
    ASSUME PlainSession, PlainInv, [Next]_vars
    PROVE  PlainInv'
<1>1. TypeInv'
  BY TypeInvStep DEF PlainInv
<1>2. CASE UNCHANGED vars
  <2>1. UNCHANGED <<state, pendingQueue, disposed, absent, pc, item, failures, prompt, sent>>
    BY <1>2 DEF vars
  <2> QED BY <1>1, <2>1 DEF PlainInv, AbsentInv, StatusInv, ItemInv, SingleFlight, Live, InFlight
<1>3. CASE Next
  BY <1>1, <1>3, PlainHost, PlainSend, PlainTurn, PlainSettle, PlainRespond DEF Next
<1> QED BY <1>2, <1>3

(* In a plain session a send issued while a turn is in flight queues and   *)
(* never races it.                                                         *)
THEOREM PlainSingleFlight ==
    ASSUME PlainSession
    PROVE  Spec => []SingleFlight
<1>1. Init => PlainInv
  BY PlainInit
<1>2. PlainInv /\ [Next]_vars => PlainInv'
  BY PlainStep
<1>3. PlainInv => SingleFlight
  BY DEF PlainInv
<1> QED BY <1>1, <1>2, <1>3, PTL DEF Spec

(* ... and what getState() shows as queued and as accepted is what the     *)
(* scaffold holds and what the driver was given.                           *)
THEOREM PlainMirror ==
    ASSUME PlainSession
    PROVE  Spec => [](QueueMirrorsReducer /\ AcceptedIsSent)
<1>1. Init => PlainInv
  BY PlainInit
<1>2. PlainInv /\ [Next]_vars => PlainInv'
  BY PlainStep
<1>3. PlainInv => QueueMirrorsReducer /\ AcceptedIsSent
  BY DEF PlainInv, QueueMirrorsReducer, AcceptedIsSent, Terminal
<1> QED BY <1>1, <1>2, <1>3, PTL DEF Spec

-----------------------------------------------------------------------------
(* What getState() and the timeline tell the host, in a plain session in   *)
(* which one prompt at a time is open.                                     *)
OnePrompt == PlainSession /\ "parallel" \notin Env

(* One prompt is open at most, and the state waits for it; a failure is    *)
(* on the timeline once, and shown while the turn that had it unwinds.     *)
OpenPromptInv ==
    /\ \A q, r \in Request : prompt[q] \in Message /\ prompt[r] \in Message => q = r
    /\ \A r \in Request : prompt[r] \in Message =>
          \/ state.status = "failed"
          \/ state.status = "waiting_for_permission" /\ state.waiting = r

FailureInv ==
    \A m \in Message :
        /\ pc[m] \in {"failed", "refused"} => failures[m] = 1
        /\ InFlight(m) /\ item[m] = "failed" => failures[m] = 1 /\ state.status = "failed"

TruthInv == PlainInv /\ BusyHasTurn /\ OpenPromptInv /\ FailureInv

(* A parked message changes nothing but the queues, a committed one is the *)
(* only turn under way.                                                    *)
LEMMA ResumeCases ==
    ASSUME PlainSession, PlainInv, NEW m \in Message, SendResume(m)
    PROVE  /\ pc[m] = "ensuring" /\ UNCHANGED <<item, failures, prompt>>
           /\ \A n \in Message : InFlight(n) => item[n] # "failed"
           /\ \/ /\ pc' = [pc EXCEPT ![m] = "queued"]
                 /\ state'.status = state.status
                 /\ state'.waiting = state.waiting
              \/ /\ \A n \in Message : ~Live(n)
                 /\ \A n \in Message :
                       \/ n = m /\ pc'[n] = "sending"
                       \/ n # m /\ pc'[n] = pc[n]
                       \/ n # m /\ pc[n] = "queued" /\ pc'[n] = "cancelled"
<1>0. state \in RuntimeStates /\ pc \in [Message -> Stage]
  BY DEF PlainInv, TypeInv, TypeOK
<1>1. /\ pc[m] = "ensuring" /\ UNCHANGED <<item, failures, prompt>>
      /\ \A n \in Message : InFlight(n) => item[n] # "failed"
  BY DEF SendResume, Prompted, PlainSession
<1>2. CASE state.status = "failed"
  <2>1. ~MustPark(Abort(state))
    BY <1>0, ResetEffect DEF MustPark
  <2>2. pc' = [Dropped EXCEPT ![m] = "sending"]
    BY <1>2, <2>1 DEF SendResume
  <2>3. \A n \in Message : ~Live(n)
    BY <1>1, <1>2 DEF PlainInv, StatusInv
  <2> QED BY <1>0, <1>1, <2>2, <2>3, MapTypes DEF Dropped, PlainInv, TypeInv
<1>3. CASE state.status # "failed" /\ MustPark(state)
  <2>1. pc' = [pc EXCEPT ![m] = "queued"] /\ state' = SendMessage(state, m)
    BY <1>3 DEF SendResume
  <2>2. state.status \in Busy
    BY <1>0, <1>3 DEF MustPark, PlainInv, StatusInv, Busy, RuntimeStates, Status
  <2>3. state'.status = state.status /\ state'.waiting = state.waiting
    BY <1>0, <2>1, <2>2 DEF SendMessage, RuntimeStates
  <2> QED BY <1>1, <2>1, <2>3
<1>4. CASE state.status # "failed" /\ ~MustPark(state)
  <2>1. pc' = [pc EXCEPT ![m] = "sending"]
    BY <1>4 DEF SendResume
  <2>2. \A n \in Message : ~Live(n)
    BY <1>4 DEF MustPark, PlainInv, StatusInv
  <2> QED BY <1>0, <1>1, <2>1, <2>2
<1> QED BY <1>2, <1>3, <1>4

(* A turn that resolves leaves the runtime free, or hands over to the      *)
(* oldest parked send.                                                     *)
LEMMA ResolveCases ==
    ASSUME PlainSession, PlainInv, NEW m \in Message, TurnResolves(m)
    PROVE  /\ item[m] # "failed"
           /\ UNCHANGED <<item, failures, prompt>>
           /\ \A r \in Request : prompt[r] \notin Message
           /\ \A n \in Message : pc'[n] \in {"failed", "refused"} => pc[n] \in {"failed", "refused"}
           /\ \A n \in Message : ~InFlight(n)'
           /\ state'.status = "ready" \/ \E n \in Message : Live(n)'
<1>0. /\ state \in RuntimeStates /\ pc \in [Message -> Stage]
      /\ InFlight(m) /\ Live(m)
  BY DEF PlainInv, TypeInv, TypeOK, TurnResolves, Live
<1>1. \A n \in Message : Live(n) => n = m
  BY <1>0 DEF PlainInv, SingleFlight
<1>2. /\ item[m] # "failed" /\ UNCHANGED <<item, failures, prompt>>
      /\ \A r \in Request : prompt[r] # m
      /\ state' = Complete(state) /\ DrainEagerQueue(m)
  BY DEF TurnResolves, PlainSession
<1>3. \A r \in Request : prompt[r] \notin Message
  BY <1>1, <1>2 DEF PlainInv, ItemInv, Live
<1>4. CASE pendingQueue = <<>>
  <2>1. pc' = [pc EXCEPT ![m] = "settled"]
    BY <1>2, <1>4 DEF DrainEagerQueue, NoDrain
  <2>2. state.status \notin Terminal /\ state.queued = <<>>
    BY <1>0, <1>2, <1>4 DEF PlainInv, StatusInv, Terminal
  <2>3. state'.status = "ready"
    BY <1>0, <1>2, <2>2, CompleteEffect
  <2>4. \A n \in Message : pc'[n] = IF n = m THEN "settled" ELSE pc[n]
    BY <1>0, <2>1
  <2>5. \A n \in Message : ~InFlight(n)'
    BY <1>1, <2>4 DEF Live, InFlight
  <2> QED BY <1>2, <1>3, <2>3, <2>4, <2>5
<1>5. CASE pendingQueue # <<>>
  <2> DEFINE h == Head(pendingQueue)
  <2>1. pc' = [pc EXCEPT ![m] = "settled", ![h] = "draining"]
    BY <1>2, <1>5 DEF DrainEagerQueue
  <2>2. h \in Message /\ pc[h] = "queued"
    BY <1>5, QueueParts DEF PlainInv, TypeInv, TypeOK, QueueInv
  <2> HIDE DEF h
  <2>3. \A n \in Message :
           pc'[n] = IF n = h THEN "draining" ELSE IF n = m THEN "settled" ELSE pc[n]
    BY <1>0, <2>1, <2>2
  <2>4. \E n \in Message : Live(n)'
    BY <2>2, <2>3 DEF Live
  <2>5. \A n \in Message : ~InFlight(n)'
    BY <1>1, <2>3 DEF Live, InFlight
  <2>6. \A n \in Message : pc'[n] \in {"failed", "refused"} => pc[n] \in {"failed", "refused"}
    BY <2>3
  <2> QED BY <1>2, <1>3, <2>4, <2>5, <2>6
<1> QED BY <1>4, <1>5

(* A turn that throws was the only one under way, and its failure is on    *)
(* the timeline once: its own item, or the one the scaffold adds.          *)
LEMMA ThrowCases ==
    ASSUME PlainInv, FailureInv, NEW m \in Message, TurnThrows(m)
    PROVE  /\ state'.status = "failed"
           /\ \A r \in Request : prompt'[r] \notin Message
           /\ \A n \in Message : ~Live(n)'
           /\ \A n \in Message : pc'[n] \in {"failed", "refused"} => failures'[n] = 1
<1>0. /\ state \in RuntimeStates /\ pc \in [Message -> Stage]
      /\ prompt \in [Request -> Prompt] /\ failures \in [Message -> 0..2]
      /\ InFlight(m) /\ Live(m)
  BY DEF PlainInv, TypeInv, TypeOK, TurnThrows, Live
<1>1. \A n \in Message : Live(n) => n = m
  BY <1>0 DEF PlainInv, SingleFlight
<1>2. /\ state' = Error(state) /\ prompt' = Withdrawn(m)
      /\ failures' = IF state.status = "failed" THEN failures ELSE [failures EXCEPT ![m] = @ + 1]
      /\ item[m] \in {"open", "failed"}
      /\ pc' \in {[Dropped EXCEPT ![m] = "failed"], [pc EXCEPT ![m] = "failed"]}
  BY DEF TurnThrows, ReportSendFailure
<1>3. state'.status = "failed"
  BY <1>0, <1>2, StatusEffect
<1>4. \A r \in Request : prompt'[r] \notin Message
  <2>1. ASSUME NEW r \in Request, prompt[r] \in Message PROVE prompt[r] = m
    BY <1>1, <2>1 DEF PlainInv, ItemInv, Live
  <2> QED BY <1>0, <1>2, <2>1, MessageAssumption DEF Withdrawn, PromptStage
<1>5. \A n \in Message :
         \/ n = m /\ pc'[n] = "failed"
         \/ n # m /\ pc'[n] = pc[n]
         \/ n # m /\ pc[n] = "queued" /\ pc'[n] = "cancelled"
  BY <1>0, <1>2, MapTypes DEF Dropped, PlainInv, TypeInv
<1>6. \A n \in Message : ~Live(n)'
  BY <1>1, <1>5 DEF Live, InFlight
<1>7. failures'[m] = 1
  <2>1. CASE item[m] = "failed"
    BY <1>0, <1>2, <2>1 DEF FailureInv
  <2>2. CASE item[m] = "open"
    <3>1. state.status # "failed"
      BY <1>0, <2>2 DEF PlainInv, StatusInv
    <3>2. failures[m] = 0
      BY <1>0, <2>2 DEF PlainInv, TypeInv, FailuresBounded, InFlight
    <3> QED BY <1>0, <1>2, <3>1, <3>2
  <2> QED BY <1>2, <2>1, <2>2
<1>8. \A n \in Message : n # m => failures'[n] = failures[n]
  BY <1>0, <1>2
<1>9. \A n \in Message : pc'[n] \in {"failed", "refused"} => failures'[n] = 1
  BY <1>5, <1>7, <1>8 DEF FailureInv
<1> QED BY <1>3, <1>4, <1>6, <1>9

(* The session starts with no turn, no prompt and no failure.              *)
LEMMA TruthInit == Init => TruthInv
<1> SUFFICES ASSUME Init PROVE TruthInv
  OBVIOUS
<1>1. /\ state.status = "idle"
      /\ \A m \in Message : pc[m] = "new"
      /\ \A r \in Request : prompt[r] \notin Message
  BY MessageAssumption DEF Init, InitialState, PromptStage
<1>2. BusyHasTurn /\ OpenPromptInv
  BY <1>1 DEF BusyHasTurn, OpenPromptInv, Busy
<1>3. FailureInv
  BY <1>1 DEF FailureInv, InFlight
<1> QED BY <1>2, <1>3, PlainInit DEF TruthInv

(* A busy status has a turn behind it: every step that sets one is a step  *)
(* of a turn in flight, or commits a message.                              *)
LEMMA BusyStep ==
    ASSUME OnePrompt, TruthInv, Next
    PROVE  BusyHasTurn'
<1> USE DEF TruthInv, OnePrompt
<1>0. /\ state \in RuntimeStates /\ pc \in [Message -> Stage]
      /\ prompt \in [Request -> Prompt]
  BY DEF PlainInv, TypeInv, TypeOK
<1>1. CASE Preflight \/ AbortCall \/ DisposeCall
  <2>1. Preflight
    BY <1>1 DEF PlainSession, AbortCall, DisposeCall
  <2>2. state'.status \in {"ready", "failed"}
    BY <1>0, <2>1, StatusEffect DEF Preflight
  <2> QED BY <2>2 DEF BusyHasTurn, Busy
<1>2. ASSUME NEW m \in Message, SendCall(m) \/ DrainResume(m) PROVE BusyHasTurn'
  <2>1. state' = state /\ \A n \in Message : Live(n) => Live(n)'
    BY <1>0, <1>2 DEF SendCall, DrainResume, Live, InFlight
  <2> QED BY <2>1 DEF BusyHasTurn
<1>3. ASSUME NEW m \in Message, SendRefused(m) PROVE BusyHasTurn'
  <2>1. state'.status = "failed"
    BY <1>0, <1>3, StatusEffect DEF SendRefused
  <2> QED BY <2>1 DEF BusyHasTurn, Busy
<1>4. ASSUME NEW m \in Message, SendResume(m) PROVE BusyHasTurn'
  <2>1. CASE /\ pc' = [pc EXCEPT ![m] = "queued"]
             /\ state'.status = state.status
    <3>1. \A n \in Message : Live(n) => Live(n)'
      BY <1>0, <1>4, <2>1, ResumeCases DEF Live, InFlight
    <3> QED BY <2>1, <3>1 DEF BusyHasTurn
  <2>2. CASE pc'[m] = "sending"
    BY <2>2 DEF BusyHasTurn, Live, InFlight
  <2> QED BY <1>4, <2>1, <2>2, ResumeCases
<1>5. ASSUME NEW m \in Message, Turn(m) \/ \E r \in Request : TurnAsks(m, r)
      PROVE  BusyHasTurn'
  <2>1. InFlight(m) /\ pc' = pc
    BY <1>5 DEF Turn, TurnRuns, TurnCompletes, TurnFails, TurnAsks
  <2> QED BY <2>1 DEF BusyHasTurn, Live, InFlight
<1>6. ASSUME NEW m \in Message, TurnResolves(m) PROVE BusyHasTurn'
  BY <1>6, ResolveCases DEF BusyHasTurn, Busy
<1>7. ASSUME NEW m \in Message, TurnThrows(m) PROVE BusyHasTurn'
  BY <1>7, ThrowCases DEF BusyHasTurn, Busy
<1>8. ASSUME NEW r \in Request, Respond(r) \/ RespondReturns(r) PROVE BusyHasTurn'
  <2>1. \A n \in Message : Live(n) => Live(n)'
    BY <1>8 DEF Respond, RespondReturns, Live, InFlight
  <2>2. \/ state' = state
        \/ prompt[r] \in Message
        \/ state.status = "waiting_for_permission"
    BY <1>8 DEF Respond, RespondReturns
  <2>3. prompt[r] \in Message => Live(prompt[r])
    BY DEF PlainInv, ItemInv, Live
  <2> QED BY <2>1, <2>2, <2>3 DEF BusyHasTurn, Busy
<1> QED BY <1>1, <1>2, <1>3, <1>4, <1>5, <1>6, <1>7, <1>8 DEF Next, Send, Settle

(* An open prompt stays shown: its turn can only wait, and a stray answer  *)
(* to another request is told from the one the state waits for.            *)
LEMMA PromptStep ==
    ASSUME OnePrompt, TruthInv, Next
    PROVE  OpenPromptInv'
<1> USE DEF TruthInv, OnePrompt
<1>0. /\ state \in RuntimeStates /\ pc \in [Message -> Stage]
      /\ prompt \in [Request -> Prompt]
  BY DEF PlainInv, TypeInv, TypeOK
<1>1. CASE Preflight \/ AbortCall \/ DisposeCall
  <2>1. Preflight /\ state.status = "idle" /\ prompt' = prompt
    BY <1>1 DEF PlainSession, Preflight, AbortCall, DisposeCall
  <2>2. \A r \in Request : prompt[r] \notin Message
    BY <2>1 DEF PlainInv, StatusInv, ItemInv, Live
  <2> QED BY <2>1, <2>2 DEF OpenPromptInv
<1>2. ASSUME NEW m \in Message, SendCall(m) \/ DrainResume(m) PROVE OpenPromptInv'
  BY <1>2 DEF SendCall, DrainResume, OpenPromptInv
<1>3. ASSUME NEW m \in Message, SendRefused(m) PROVE OpenPromptInv'
  <2>1. prompt' = prompt /\ state'.status = "failed"
    BY <1>0, <1>3, StatusEffect DEF SendRefused
  <2> QED BY <2>1 DEF OpenPromptInv
<1>4. ASSUME NEW m \in Message, SendResume(m) PROVE OpenPromptInv'
  <2>1. prompt' = prompt
    BY <1>4, ResumeCases
  <2>2. CASE state'.status = state.status /\ state'.waiting = state.waiting
    BY <2>1, <2>2 DEF OpenPromptInv
  <2>3. CASE \A n \in Message : ~Live(n)
    <3>1. \A r \in Request : prompt[r] \notin Message
      BY <2>3 DEF PlainInv, ItemInv, Live
    <3> QED BY <2>1, <3>1 DEF OpenPromptInv
  <2> QED BY <1>4, <2>2, <2>3, ResumeCases
<1>5. ASSUME NEW m \in Message, Turn(m) PROVE OpenPromptInv'
  <2>1. InFlight(m) /\ prompt' = prompt
    BY <1>5 DEF Turn, TurnRuns, TurnCompletes, TurnFails
  <2>2. \A r \in Request : prompt[r] \in Message => prompt[r] = m
    BY <2>1 DEF PlainInv, ItemInv, SingleFlight, Live
  <2>3. CASE TurnRuns(m)
    <3>1. state.status \notin {"ready", "idle"}
      BY <2>1 DEF PlainInv, StatusInv, Live
    <3>2. state' = state
      BY <2>3, <3>1 DEF TurnRuns, Starting
    <3> QED BY <2>1, <3>2 DEF OpenPromptInv
  <2>4. CASE TurnCompletes(m)
    <3>1. \A r \in Request : prompt[r] \notin Message
      BY <2>2, <2>4 DEF TurnCompletes
    <3> QED BY <2>1, <3>1 DEF OpenPromptInv
  <2>5. CASE TurnFails(m)
    <3>1. state'.status = "failed"
      BY <1>0, <2>5, StatusEffect DEF TurnFails
    <3> QED BY <2>1, <3>1 DEF OpenPromptInv
  <2> QED BY <1>5, <2>3, <2>4, <2>5 DEF Turn
<1>6. ASSUME NEW m \in Message, NEW r \in Request, TurnAsks(m, r) PROVE OpenPromptInv'
  <2>1. /\ \A q \in Request : prompt[q] \notin Message
        /\ prompt' = [prompt EXCEPT ![r] = m]
        /\ state' = PermissionRequest(state, r)
    BY <1>6 DEF TurnAsks
  <2>2. state'.status = "waiting_for_permission" /\ state'.waiting = r
    BY <1>0, <2>1 DEF PermissionRequest, RuntimeStates
  <2>3. \A q \in Request : prompt'[q] \in Message => q = r
    BY <1>0, <2>1
  <2> QED BY <2>2, <2>3 DEF OpenPromptInv
<1>7. ASSUME NEW m \in Message, TurnResolves(m) PROVE OpenPromptInv'
  BY <1>7, ResolveCases DEF OpenPromptInv
<1>8. ASSUME NEW m \in Message, TurnThrows(m) PROVE OpenPromptInv'
  BY <1>8, ThrowCases DEF OpenPromptInv
<1>9. ASSUME NEW r \in Request, Respond(r) PROVE OpenPromptInv'
  <2>1. \A q \in Request : prompt'[q] = IF q = r THEN "answering" ELSE prompt[q]
    BY <1>0, <1>9 DEF Respond
  <2>2. \A q \in Request : prompt'[q] \in Message => q # r /\ prompt[q] \in Message
    BY <2>1, MessageAssumption DEF PromptStage
  <2>3. CASE prompt[r] \in Message
    <3>1. \A q \in Request : prompt'[q] \notin Message
      BY <2>2, <2>3 DEF OpenPromptInv
    <3> QED BY <3>1 DEF OpenPromptInv
  <2>4. CASE prompt[r] \notin Message
    <3>1. state' = state
      BY <1>9, <2>4 DEF Respond
    <3> QED BY <2>1, <2>2, <3>1 DEF OpenPromptInv
  <2> QED BY <2>3, <2>4
<1>10. ASSUME NEW r \in Request, RespondReturns(r) PROVE OpenPromptInv'
  <2>1. \A q \in Request : prompt'[q] = IF q = r THEN "answered" ELSE prompt[q]
    BY <1>0, <1>10 DEF RespondReturns
  <2>2. \A q \in Request : prompt'[q] \in Message => q # r /\ prompt[q] \in Message
    BY <2>1, MessageAssumption DEF PromptStage
  <2>3. CASE \E q \in Request : prompt[q] \in Message
    <3>1. PICK q \in Request : prompt[q] \in Message
      BY <2>3
    <3>2. q # r
      BY <1>10, <3>1, MessageAssumption DEF RespondReturns, PromptStage
    <3>3. state.status = "failed" \/ state.waiting \notin {NoRequest, r}
      BY <3>1, <3>2, NoRequestAssumption DEF OpenPromptInv
    <3>4. state' = state
      BY <1>10, <3>3 DEF RespondReturns
    <3> QED BY <2>1, <2>2, <3>4 DEF OpenPromptInv
  <2>4. CASE \A q \in Request : prompt[q] \notin Message
    BY <2>2, <2>4 DEF OpenPromptInv
  <2> QED BY <2>3, <2>4
<1> QED BY <1>1, <1>2, <1>3, <1>4, <1>5, <1>6, <1>7, <1>8, <1>9, <1>10 DEF Next, Send, Settle

(* A failure is counted once, and no step but a new send clears it.        *)
LEMMA FailureStep ==
    ASSUME OnePrompt, TruthInv, Next
    PROVE  FailureInv'
<1> USE DEF TruthInv, OnePrompt
<1>0. /\ state \in RuntimeStates /\ pc \in [Message -> Stage]
      /\ item \in [Message -> {"open", "completed", "failed"}]
      /\ failures \in [Message -> 0..2]
  BY DEF PlainInv, TypeInv, TypeOK
<1>1. CASE Preflight \/ AbortCall \/ DisposeCall
  <2>1. Preflight /\ state.status = "idle" /\ UNCHANGED <<pc, item, failures>>
    BY <1>1 DEF PlainSession, Preflight, AbortCall, DisposeCall
  <2>2. \A m \in Message : ~InFlight(m)
    BY <2>1 DEF PlainInv, StatusInv, Live
  <2> QED BY <2>1, <2>2 DEF FailureInv, InFlight
<1>2. ASSUME NEW m \in Message, SendCall(m) PROVE FailureInv'
  <2>1. \A n \in Message : pc'[n] = IF n = m THEN "ensuring" ELSE pc[n]
    BY <1>0, <1>2 DEF SendCall
  <2>2. UNCHANGED <<state, item, failures>>
    BY <1>2 DEF SendCall
  <2> QED BY <2>1, <2>2 DEF FailureInv, InFlight
<1>3. ASSUME NEW m \in Message, DrainResume(m) PROVE FailureInv'
  <2>1. \A n \in Message : pc'[n] = IF n = m THEN "drained" ELSE pc[n]
    BY <1>0, <1>3 DEF DrainResume
  <2>2. UNCHANGED <<state, item, failures>> /\ item[m] = "open"
    BY <1>3 DEF DrainResume, PlainInv, ItemInv
  <2> QED BY <2>1, <2>2 DEF FailureInv, InFlight
<1>4. ASSUME NEW m \in Message, SendRefused(m) PROVE FailureInv'
  <2>1. \A n \in Message : /\ pc'[n] = IF n = m THEN "refused" ELSE pc[n]
                           /\ failures'[n] = IF n = m THEN 1 ELSE failures[n]
    BY <1>0, <1>4 DEF SendRefused
  <2>2. state'.status = "failed" /\ item' = item
    BY <1>0, <1>4, StatusEffect DEF SendRefused
  <2> QED BY <2>1, <2>2 DEF FailureInv, InFlight
<1>5. ASSUME NEW m \in Message, SendResume(m) PROVE FailureInv'
  <2>1. /\ UNCHANGED <<item, failures>>
        /\ \A n \in Message : InFlight(n) => item[n] # "failed"
        /\ item[m] = "open" /\ pc[m] = "ensuring"
    BY <1>5, ResumeCases DEF PlainInv, ItemInv
  <2>2. \A n \in Message :
           \/ n = m /\ pc'[n] \in {"queued", "sending"}
           \/ n # m /\ (pc'[n] = pc[n] \/ pc'[n] = "cancelled")
    BY <1>0, <1>5, ResumeCases
  <2> QED BY <2>1, <2>2 DEF FailureInv, InFlight
<1>6. ASSUME NEW m \in Message, TurnRuns(m) PROVE FailureInv'
  <2>1. InFlight(m) /\ item[m] = "open" /\ UNCHANGED <<pc, item, failures>>
    BY <1>6 DEF TurnRuns
  <2>2. \A n \in Message : InFlight(n) => n = m
    BY <2>1 DEF PlainInv, SingleFlight, Live
  <2> QED BY <2>1, <2>2 DEF FailureInv, InFlight
<1>7. ASSUME NEW m \in Message, TurnCompletes(m) PROVE FailureInv'
  <2>1. InFlight(m) /\ UNCHANGED <<pc, failures>>
    BY <1>7 DEF TurnCompletes
  <2>2. \A n \in Message : InFlight(n) => n = m
    BY <2>1 DEF PlainInv, SingleFlight, Live
  <2>3. item'[m] # "failed"
    BY <1>0, <1>7 DEF TurnCompletes
  <2> QED BY <2>1, <2>2, <2>3 DEF FailureInv, InFlight
<1>8. ASSUME NEW m \in Message, TurnFails(m) PROVE FailureInv'
  <2>1. InFlight(m) /\ item[m] # "failed" /\ pc' = pc
    BY <1>8 DEF TurnFails
  <2>2. \A n \in Message : InFlight(n) => n = m
    BY <2>1 DEF PlainInv, SingleFlight, Live
  <2>3. state'.status = "failed"
    BY <1>0, <1>8, StatusEffect DEF TurnFails
  <2>4. failures[m] = 0
    BY <2>1 DEF PlainInv, TypeInv, FailuresBounded, InFlight
  <2>5. \A n \in Message : failures'[n] = IF n = m THEN 1 ELSE failures[n]
    BY <1>0, <1>8, <2>4 DEF TurnFails
  <2> QED BY <2>1, <2>2, <2>3, <2>5 DEF FailureInv, InFlight
<1>9. ASSUME NEW m \in Message, NEW r \in Request, TurnAsks(m, r) PROVE FailureInv'
  <2>1. InFlight(m) /\ item[m] = "open" /\ UNCHANGED <<pc, item, failures>>
    BY <1>9 DEF TurnAsks
  <2>2. \A n \in Message : InFlight(n) => n = m
    BY <2>1 DEF PlainInv, SingleFlight, Live
  <2> QED BY <2>1, <2>2 DEF FailureInv, InFlight
<1>10. ASSUME NEW m \in Message, TurnResolves(m) PROVE FailureInv'
  <2>1. UNCHANGED <<item, failures>>
    BY <1>10, ResolveCases
  <2>2. /\ \A n \in Message : pc'[n] \in {"failed", "refused"} => pc[n] \in {"failed", "refused"}
        /\ \A n \in Message : ~InFlight(n)'
    BY <1>10, ResolveCases
  <2> QED BY <2>1, <2>2 DEF FailureInv
<1>11. ASSUME NEW m \in Message, TurnThrows(m) PROVE FailureInv'
  BY <1>11, ThrowCases DEF FailureInv, Live
<1>12. ASSUME NEW r \in Request, Respond(r) \/ RespondReturns(r) PROVE FailureInv'
  <2>1. UNCHANGED <<pc, item, failures>>
    BY <1>12 DEF Respond, RespondReturns
  <2>2. CASE Respond(r)
    <3>1. \A n \in Message : InFlight(n) => item[n] # "failed"
      BY <2>2 DEF Respond, Prompted, PlainSession
    <3> QED BY <2>1, <3>1 DEF FailureInv, InFlight
  <2>3. CASE RespondReturns(r)
    <3>1. state' = state \/ state.status # "failed"
      BY <2>3 DEF RespondReturns
    <3> QED BY <2>1, <3>1 DEF FailureInv, InFlight
  <2> QED BY <1>12, <2>2, <2>3
<1> QED BY <1>1, <1>2, <1>3, <1>4, <1>5, <1>6, <1>7, <1>8, <1>9, <1>10, <1>11, <1>12
        DEF Next, Send, Turn, Settle

(* Every step of a plain session keeps the invariant.                      *)
LEMMA TruthStep ==
    ASSUME OnePrompt, TruthInv, [Next]_vars
    PROVE  TruthInv'
<1>1. PlainInv'
  BY PlainStep DEF OnePrompt, TruthInv
<1>2. CASE UNCHANGED vars
  <2>1. UNCHANGED <<state, pendingQueue, disposed, absent, pc, item, failures, prompt, sent>>
    BY <1>2 DEF vars
  <2>2. \A n \in Message : (Live(n)' <=> Live(n)) /\ (InFlight(n)' <=> InFlight(n))
    BY <2>1 DEF Live, InFlight
  <2>3. BusyHasTurn' /\ OpenPromptInv' /\ FailureInv'
    BY <2>1, <2>2 DEF TruthInv, BusyHasTurn, OpenPromptInv, FailureInv
  <2> QED BY <1>1, <2>3 DEF TruthInv
<1>3. CASE Next
  BY <1>1, <1>3, BusyStep, PromptStep, FailureStep DEF TruthInv
<1> QED BY <1>2, <1>3

(* In a plain session with one prompt at a time, what getState() and the   *)
(* timeline tell is so: accepted messages are those with the driver, a     *)
(* busy status has a turn behind it, an open prompt is shown, and a failed *)
(* send is reported once.                                                  *)
THEOREM PlainTruth ==
    ASSUME OnePrompt
    PROVE  Spec => []StateIsTrue
<1>1. Init => TruthInv
  BY TruthInit
<1>2. TruthInv /\ [Next]_vars => TruthInv'
  BY TruthStep
<1>3. TruthInv => StateIsTrue
  <2> SUFFICES ASSUME TruthInv PROVE StateIsTrue
    OBVIOUS
  <2>1. AcceptedIsSent
    BY DEF TruthInv, PlainInv, AcceptedIsSent
  <2>2. OpenPromptIsShown
    BY DEF TruthInv, OpenPromptInv, OpenPromptIsShown
  <2>3. FailureReportedOnce
    BY DEF TruthInv, FailureInv, FailureReportedOnce
  <2> QED BY <2>1, <2>2, <2>3 DEF TruthInv, StateIsTrue
<1> QED BY <1>1, <1>2, <1>3, PTL DEF Spec
=============================================================================

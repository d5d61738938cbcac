------------------------ MODULE DeferredRuntimeProofs ------------------------
(* Proofs about DeferredRuntime, for every set of messages and every       *)
(* number of restarts: type correctness and the refinement of TurnQueue in *)
(* every environment, so that nothing is posted twice; in plain sessions   *)
(* that one turn is open at a time and that the state is true; and,        *)
(* however often the server restarts, that no call of the past is handed   *)
(* out.                                                                    *)
EXTENDS DeferredRuntime, TLAPS

-----------------------------------------------------------------------------
(* The reducer: what each of its actions does to status, accepted and      *)
(* queued, and that the result is again a state.  The steps of the runtime *)
(* are proved about from these facts alone.                                *)

(* The head and the tail of a queue.                                       *)
LEMMA QueueParts ==
    ASSUME NEW S, NEW q \in Seq(S), q # <<>>
    PROVE  /\ Head(q) \in S
           /\ Head(q) = q[1]
           /\ 1 \in DOMAIN q
           /\ Tail(q) \in Seq(S)
           /\ \A i \in DOMAIN Tail(q) : i + 1 \in DOMAIN q /\ Tail(q)[i] = q[i + 1]
OBVIOUS

(* A sequence that grows by one item.                                      *)
LEMMA Appended ==
    ASSUME NEW S, NEW q \in Seq(S), NEW x \in S
    PROVE  /\ Append(q, x) \in Seq(S)
           /\ Len(Append(q, x)) = Len(q) + 1
           /\ \A i \in 1..Len(q) : Append(q, x)[i] = q[i]
           /\ Append(q, x)[Len(q) + 1] = x
OBVIOUS

(* Replacing a field by a value of its kind gives a state.                 *)
LEMMA FieldUpdates ==
    ASSUME NEW s \in RuntimeStates
    PROVE  /\ \A x \in Status : [s EXCEPT !.status = x] \in RuntimeStates
           /\ \A q \in Seq(Message) : [s EXCEPT !.queued = q] \in RuntimeStates
           /\ \A q \in Seq(Message) : [s EXCEPT !.accepted = q] \in RuntimeStates
           /\ \A r \in Request \cup {NoRequest} : [s EXCEPT !.waiting = r] \in RuntimeStates
BY DEF RuntimeStates

(* The actions that only set the status.                                   *)
LEMMA StatusEffect ==
    ASSUME NEW s \in RuntimeStates
    PROVE  /\ PreflightOk(s) \in RuntimeStates
           /\ PreflightOk(s).status = "ready"
           /\ PreflightOk(s).queued = s.queued
           /\ PreflightOk(s).accepted = s.accepted
           /\ PreflightError(s) \in RuntimeStates
           /\ PreflightError(s).status = "failed"
           /\ PreflightError(s).queued = s.queued
           /\ PreflightError(s).accepted = s.accepted
           /\ Error(s) \in RuntimeStates
           /\ Error(s).status = "failed"
           /\ Error(s).queued = s.queued
           /\ Error(s).accepted = s.accepted
<1>1. "ready" \in Status /\ "failed" \in Status
  BY DEF Status
<1>2. PreflightOk(s) \in RuntimeStates /\ PreflightError(s) \in RuntimeStates /\ Error(s) \in RuntimeStates
  BY <1>1, FieldUpdates DEF PreflightOk, PreflightError, Error
<1> QED BY <1>2 DEF RuntimeStates, PreflightOk, PreflightError, Error

(* starting and turn_completed apply from some statuses only.              *)
LEMMA GuardedEffect ==
    ASSUME NEW s \in RuntimeStates
    PROVE  /\ Starting(s) \in RuntimeStates
           /\ Starting(s).status = IF s.status \in {"ready", "idle"} THEN "starting" ELSE s.status
           /\ Starting(s).queued = s.queued
           /\ Starting(s).accepted = s.accepted
           /\ TurnCompleted(s) \in RuntimeStates
           /\ TurnCompleted(s).status = IF s.status = "running" THEN "turn_completed" ELSE s.status
           /\ TurnCompleted(s).queued = s.queued
           /\ TurnCompleted(s).accepted = s.accepted
<1>1. "starting" \in Status /\ "turn_completed" \in Status
  BY DEF Status
<1>2. Starting(s) \in RuntimeStates /\ TurnCompleted(s) \in RuntimeStates
  BY <1>1, FieldUpdates DEF Starting, TurnCompleted
<1> QED BY <1>2 DEF RuntimeStates, Starting, TurnCompleted

(* permission_request and permission_response.                             *)
LEMMA PermissionEffect ==
    ASSUME NEW s \in RuntimeStates, NEW r \in Request
    PROVE  /\ PermissionRequest(s, r) \in RuntimeStates
           /\ PermissionRequest(s, r).status = "waiting_for_permission"
           /\ PermissionRequest(s, r).queued = s.queued
           /\ PermissionRequest(s, r).accepted = s.accepted
           /\ PermissionResponse(s) \in RuntimeStates
           /\ PermissionResponse(s).status = "running"
           /\ PermissionResponse(s).queued = s.queued
           /\ PermissionResponse(s).accepted = s.accepted
<1>1. "waiting_for_permission" \in Status /\ "running" \in Status
  BY DEF Status
<1>2. PermissionRequest(s, r) \in RuntimeStates /\ PermissionResponse(s) \in RuntimeStates
  BY <1>1 DEF PermissionRequest, PermissionResponse, RuntimeStates
<1> QED BY <1>2 DEF RuntimeStates, PermissionRequest, PermissionResponse

(* abort and dispose drop the reducer's queue.                             *)
LEMMA ResetEffect ==
    ASSUME NEW s \in RuntimeStates
    PROVE  /\ Abort(s) \in RuntimeStates
           /\ Abort(s).status = "ready"
           /\ Abort(s).queued = <<>>
           /\ Abort(s).accepted = s.accepted
           /\ Dispose(s) \in RuntimeStates
           /\ Dispose(s).status = "disposed"
           /\ Dispose(s).queued = <<>>
           /\ Dispose(s).accepted = s.accepted
<1>1. "ready" \in Status /\ "disposed" \in Status
  BY DEF Status
<1>2. <<>> \in Seq(Message)
  OBVIOUS
<1>3. \A x \in Status, q \in Seq(Message) :
         [s EXCEPT !.status = x, !.queued = q, !.waiting = NoRequest] \in RuntimeStates
  BY DEF RuntimeStates
<1>4. Abort(s) \in RuntimeStates /\ Dispose(s) \in RuntimeStates
  BY <1>1, <1>2, <1>3 DEF Abort, Dispose
<1> QED BY <1>4 DEF RuntimeStates, Abort, Dispose

(* Accepting a message appends it and makes the state running.             *)
LEMMA AcceptEffect ==
    ASSUME NEW s \in RuntimeStates, NEW m \in Message
    PROVE  /\ Accept(s, m) \in RuntimeStates
           /\ Accept(s, m).status = "running"
           /\ Accept(s, m).queued = s.queued
           /\ Accept(s, m).accepted = Append(s.accepted, m)
<1>1. Append(s.accepted, m) \in Seq(Message) /\ "running" \in Status
  BY DEF RuntimeStates, Status
<1>2. \A x \in Status, q \in Seq(Message) :
         [s EXCEPT !.status = x, !.accepted = q] \in RuntimeStates
  BY DEF RuntimeStates
<1>3. Accept(s, m) = [s EXCEPT !.status = "running", !.accepted = Append(s.accepted, m)]
  BY DEF Accept
<1>4. Accept(s, m) \in RuntimeStates
  BY <1>1, <1>2, <1>3
<1> QED BY <1>4 DEF RuntimeStates, Accept

(* send_message parks, drops or accepts, according to the status.          *)
LEMMA SendMessageEffect ==
    ASSUME NEW s \in RuntimeStates, NEW m \in Message
    PROVE  /\ SendMessage(s, m) \in RuntimeStates
           /\ s.status \in Busy =>
                /\ SendMessage(s, m).status = s.status
                /\ SendMessage(s, m).queued = Append(s.queued, m)
                /\ SendMessage(s, m).accepted = s.accepted
           /\ s.status \in Terminal => SendMessage(s, m) = s
           /\ s.status \notin Busy \cup Terminal => SendMessage(s, m) = Accept(s, m)
<1>1. Append(s.queued, m) \in Seq(Message)
  BY DEF RuntimeStates
<1>2. [s EXCEPT !.queued = Append(s.queued, m)] \in RuntimeStates
  BY <1>1, FieldUpdates
<1>3. s.status \in Busy => SendMessage(s, m) = [s EXCEPT !.queued = Append(s.queued, m)]
  BY DEF SendMessage
<1>4. s.status \notin Busy /\ s.status \in Terminal => SendMessage(s, m) = s
  BY DEF SendMessage
<1>5. s.status \notin Busy \cup Terminal => SendMessage(s, m) = Accept(s, m)
  BY DEF SendMessage
<1>6. Busy \cap Terminal = {}
  BY DEF Busy, Terminal
<1>7. SendMessage(s, m) \in RuntimeStates
  BY <1>2, <1>3, <1>4, <1>5, AcceptEffect
<1> QED BY <1>2, <1>3, <1>4, <1>5, <1>6, <1>7 DEF RuntimeStates

(* complete promotes the head of the queue, or makes the state ready.      *)
LEMMA CompleteEffect ==
    ASSUME NEW s \in RuntimeStates
    PROVE  /\ Complete(s) \in RuntimeStates
           /\ s.status \in Terminal => Complete(s) = s
           /\ s.status \notin Terminal /\ (s.queued = <<>> \/ Head(s.queued) = Blank) =>
                /\ Complete(s).status = "ready"
                /\ Complete(s).queued = s.queued
                /\ Complete(s).accepted = s.accepted
           /\ s.status \notin Terminal /\ s.queued # <<>> /\ Head(s.queued) # Blank =>
                /\ Complete(s).status = "running"
                /\ Complete(s).queued = Tail(s.queued)
                /\ Complete(s).accepted = Append(s.accepted, Head(s.queued))
<1>1. CASE s.status \in Terminal
  BY <1>1 DEF Complete
<1>2. CASE s.status \notin Terminal /\ (s.queued = <<>> \/ Head(s.queued) = Blank)
  <2>1. Complete(s) = [s EXCEPT !.status = "ready"]
    BY <1>2 DEF Complete
  <2>2. "ready" \in Status
    BY DEF Status
  <2>3. Complete(s) \in RuntimeStates
    BY <2>1, <2>2, FieldUpdates
  <2> QED BY <1>2, <2>1, <2>3 DEF RuntimeStates
<1>3. CASE s.status \notin Terminal /\ s.queued # <<>> /\ Head(s.queued) # Blank
  <2> DEFINE a == Accept(s, Head(s.queued))
  <2>1. Head(s.queued) \in Message /\ Tail(s.queued) \in Seq(Message)
    BY <1>3 DEF RuntimeStates
  <2>2. /\ a \in RuntimeStates
        /\ a.status = "running"
        /\ a.queued = s.queued
        /\ a.accepted = Append(s.accepted, Head(s.queued))
    BY <2>1, AcceptEffect
  <2>3. Complete(s) = [a EXCEPT !.queued = Tail(s.queued)]
    BY <1>3, <2>2 DEF Complete
  <2>4. Complete(s) \in RuntimeStates
    BY <2>1, <2>2, <2>3, FieldUpdates
  <2> HIDE DEF a
  <2> QED BY <1>3, <2>2, <2>3, <2>4 DEF RuntimeStates
<1> QED BY <1>1, <1>2, <1>3
-----------------------------------------------------------------------------
(* The abstract queue of turns, TurnQueue, which both runtimes implement:  *)
(* lemmas about its variables, the queue q, what was sent s and the fates  *)
(* f, before a step and after it.  The parked messages are those whose     *)
(* fate is "queued", those sent the ones whose fate says so, once each.    *)
Listed(q, f, how) ==
    /\ q \in Seq(Message)
    /\ \A i, j \in DOMAIN q : q[i] = q[j] => i = j
    /\ \A m \in Message : f[m] = how <=> \E i \in DOMAIN q : q[i] = m

OnceEach(q, s, f) ==
    /\ f \in [Message -> {"new", "queued", "sent", "cancelled"}]
    /\ Listed(q, f, "queued")
    /\ Listed(s, f, "sent")

(* Nothing is listed when no fate says so.                                 *)
LEMMA ListedNone ==
    ASSUME NEW f, NEW how, \A m \in Message : f[m] # how
    PROVE  Listed(<<>>, f, how)
<1>1. <<>> \in Seq(Message) /\ DOMAIN <<>> = {}
  OBVIOUS
<1>2. QED
  BY <1>1 DEF Listed

(* A message that is not listed is added at the end.                       *)
LEMMA ListedAppend ==
    ASSUME NEW f, NEW g, NEW how, NEW q, Listed(q, f, how), NEW m \in Message, f[m] # how,
           \A n \in Message : g[n] = how <=> n = m \/ f[n] = how
    PROVE  Listed(Append(q, m), g, how)
<1> DEFINE r == Append(q, m)
<1>1. q \in Seq(Message) /\ \A i \in DOMAIN q : q[i] # m
  BY DEF Listed
<1>2. /\ r \in Seq(Message) /\ Len(q) \in Nat
      /\ DOMAIN q = 1..Len(q) /\ DOMAIN r = 1..Len(q) + 1
      /\ \A i \in 1..Len(q) : r[i] = q[i]
      /\ r[Len(q) + 1] = m
  BY <1>1
<1> HIDE DEF r
<1>3. \A i \in DOMAIN r : (i \in DOMAIN q /\ r[i] = q[i]) \/ (i = Len(q) + 1 /\ r[i] = m)
  BY <1>2
<1>4. \A i, j \in DOMAIN r : r[i] = r[j] => i = j
  BY <1>1, <1>3 DEF Listed
<1>5. ASSUME NEW n \in Message PROVE g[n] = how <=> \E i \in DOMAIN r : r[i] = n
  <2>1. Len(q) + 1 \in DOMAIN r /\ DOMAIN q \subseteq DOMAIN r
    BY <1>2
  <2>2. g[n] = how <=> n = m \/ \E i \in DOMAIN q : q[i] = n
    BY DEF Listed
  <2>3. ASSUME NEW i \in DOMAIN r, r[i] = n PROVE n = m \/ \E j \in DOMAIN q : q[j] = n
    BY <1>3, <2>3
  <2>4. ASSUME NEW j \in DOMAIN q, q[j] = n PROVE \E i \in DOMAIN r : r[i] = n
    BY <1>2, <2>1, <2>4
  <2>5. n = m => \E i \in DOMAIN r : r[i] = n
    BY <1>2, <2>1
  <2>6. QED
    BY <2>2, <2>3, <2>4, <2>5
<1>6. QED
  BY <1>2, <1>4, <1>5 DEF Listed, r

(* The oldest message of a list is one of those listed.                    *)
LEMMA ListedHead ==
    ASSUME NEW f, NEW how, NEW q, Listed(q, f, how), q # <<>>
    PROVE  Head(q) \in Message /\ f[Head(q)] = how
<1>1. q \in Seq(Message)
  BY DEF Listed
<1>2. Head(q) \in Message /\ Head(q) = q[1] /\ 1 \in DOMAIN q
  BY <1>1
<1>3. QED
  BY <1>2 DEF Listed

(* The oldest message leaves the list.                                     *)
LEMMA ListedTail ==
    ASSUME NEW f, NEW g, NEW how, NEW q, Listed(q, f, how), q # <<>>,
           NEW h, h = Head(q), \A n \in Message : g[n] = how <=> n # h /\ f[n] = how
    PROVE  Listed(Tail(q), g, how)
<1> DEFINE r == Tail(q)
<1>1. q \in Seq(Message) /\ \A i, j \in DOMAIN q : q[i] = q[j] => i = j
  BY DEF Listed
<1>2. /\ r \in Seq(Message) /\ h \in Message /\ h = q[1]
      /\ Len(q) \in Nat /\ Len(q) >= 1
      /\ DOMAIN q = 1..Len(q) /\ DOMAIN r = 1..Len(q) - 1
      /\ \A i \in 1..Len(q) - 1 : r[i] = q[i + 1]
  BY <1>1
<1> HIDE DEF r
<1>3. \A i \in DOMAIN r : i + 1 \in DOMAIN q /\ i + 1 # 1 /\ r[i] = q[i + 1]
  BY <1>2
<1>4. 1 \in DOMAIN q
  BY <1>2
<1>5. \A i, j \in DOMAIN r : r[i] = r[j] => i = j
  BY <1>1, <1>2, <1>3
<1>6. ASSUME NEW n \in Message PROVE g[n] = how <=> \E i \in DOMAIN r : r[i] = n
  <2>1. g[n] = how <=> n # h /\ \E i \in DOMAIN q : q[i] = n
    BY DEF Listed
  <2>2. ASSUME NEW i \in DOMAIN r, r[i] = n
        PROVE  n # h /\ \E j \in DOMAIN q : q[j] = n
    BY <1>1, <1>2, <1>3, <1>4, <2>2
  <2>3. ASSUME NEW j \in DOMAIN q, q[j] = n, n # h PROVE \E i \in DOMAIN r : r[i] = n
    <3>1. j # 1
      BY <1>2, <2>3
    <3>2. j - 1 \in DOMAIN r /\ j - 1 + 1 = j
      BY <1>2, <2>3, <3>1
    <3>3. r[j - 1] = n
      BY <1>3, <2>3, <3>2
    <3>4. QED
      BY <3>2, <3>3
  <2>4. QED
    BY <2>1, <2>2, <2>3
<1>7. QED
  BY <1>2, <1>5, <1>6 DEF Listed, r

(* A list that stays as it is, and so do the fates it is about.            *)
LEMMA ListedSame ==
    ASSUME NEW f, NEW g, NEW how, NEW q, Listed(q, f, how),
           \A n \in Message : g[n] = how <=> f[n] = how
    PROVE  Listed(q, g, how)
BY DEF Listed

-----------------------------------------------------------------------------
(* Type correctness.                                                       *)

(* What replay_reconcile makes of a state is a state.                      *)
LEMMA ReconcileType ==
    ASSUME NEW s \in RuntimeStates, NEW st \in Status, NEW r \in Request \cup {NoRequest}
    PROVE  ReplayReconcile(s, st, r) \in RuntimeStates
<1>1. <<>> \in Seq(Message)
  OBVIOUS
<1>2. QED
  BY <1>1 DEF ReplayReconcile, RuntimeStates

(* The items of the log reconcile a state to a state.                      *)
LEMMA ReconciledType ==
    ASSUME NEW s \in RuntimeStates, NEW item \in Item
    PROVE  Reconciled(s, item) \in RuntimeStates
<1>1. item.turn \in Request /\ item.type \in ItemType
  BY RequestAssumption DEF Item
<1>2. {"ready", "failed", "waiting_for_permission", "running"} \subseteq Status
  BY DEF Status
<1>3. QED
  BY <1>1, <1>2, ReconcileType DEF Reconciled

(* A completion that drains the queue moves its head to the driver, or     *)
(* nothing.                                                                *)
LEMMA DrainCases ==
    ASSUME TypeOK, NEW s \in RuntimeStates, NEW stage \in [Message -> Stage],
           DrainOnCompletion(s, stage)
    PROVE  /\ state' = Complete(s)
           /\ state' \in RuntimeStates
           /\ pc' \in [Message -> Stage]
           /\ pendingQueue' \in Seq(Message)
           /\ sent' \in Seq(Message)
           /\ \/ /\ state'.status \in Terminal \/ pendingQueue = <<>>
                 /\ pc' = stage /\ UNCHANGED <<pendingQueue, sent>>
              \/ /\ state'.status \notin Terminal /\ pendingQueue # <<>>
                 /\ Head(pendingQueue) \in Message
                 /\ pc' = [stage EXCEPT ![Head(pendingQueue)] = "posting"]
                 /\ pendingQueue' = Tail(pendingQueue)
                 /\ sent' = Append(sent, Head(pendingQueue))
<1>1. state' = Complete(s) /\ state' \in RuntimeStates
  BY CompleteEffect DEF DrainOnCompletion
<1>2. pendingQueue \in Seq(Message) /\ sent \in Seq(Message)
  BY DEF TypeOK
<1>3. CASE state'.status \in Terminal \/ pendingQueue = <<>>
  <2>1. pc' = stage /\ UNCHANGED <<pendingQueue, sent>>
    BY <1>1, <1>3 DEF DrainOnCompletion
  <2>2. QED
    BY <1>1, <1>2, <1>3, <2>1
<1>4. CASE state'.status \notin Terminal /\ pendingQueue # <<>>
  <2>1. Head(pendingQueue) \in Message /\ Tail(pendingQueue) \in Seq(Message)
    BY <1>2, <1>4, QueueParts
  <2>2. /\ pc' = [stage EXCEPT ![Head(pendingQueue)] = "posting"]
        /\ pendingQueue' = Tail(pendingQueue)
        /\ sent' = Append(sent, Head(pendingQueue))
    BY <1>1, <1>4 DEF DrainOnCompletion
  <2>3. sent' \in Seq(Message)
    BY <1>2, <2>1, <2>2, Appended
  <2>4. pc' \in [Message -> Stage]
    BY <2>2 DEF Stage
  <2>5. QED
    BY <1>1, <1>4, <2>1, <2>2, <2>3, <2>4
<1>5. QED
  BY <1>3, <1>4

(* A call is counted up to three times.                                    *)
LEMMA FiredType ==
    ASSUME TypeOK
    PROVE  \A ms : Fired(ms) \in [Message -> 0..3]
BY DEF TypeOK, Fired

(* What a step of the scaffold leaves well typed.                          *)
ScaffoldTypeOK ==
    /\ state \in RuntimeStates
    /\ pendingQueue \in Seq(Message)
    /\ suspended \subseteq Message
    /\ replayMode \in BOOLEAN
    /\ armTimer \in BOOLEAN
    /\ pc \in [Message -> Stage]
    /\ fired \in [Message -> 0..3]
    /\ sent \in Seq(Message)

(* The parts of the handlers.                                              *)
LEMMA NoDrainType ==
    ASSUME TypeOK, NEW s \in RuntimeStates, NEW stage \in [Message -> Stage],
           NoDrain(s, stage)
    PROVE  /\ state' \in RuntimeStates
           /\ pc' \in [Message -> Stage]
           /\ pendingQueue' \in Seq(Message)
           /\ sent' \in Seq(Message)
BY DEF NoDrain, TypeOK

LEMMA ArmReplayType ==
    ASSUME TypeOK, NEW stage \in [Message -> Stage], ArmReplay(stage)
    PROVE  ScaffoldTypeOK'
<1>1. /\ armTimer' = FALSE /\ replayMode' = FALSE
      /\ suspended' \in {{}, suspended}
      /\ fired' \in {fired, Fired(suspended)}
      /\ DrainOnCompletion(state, stage) \/ NoDrain(state, stage)
  BY DEF ArmReplay
<1>2. fired' \in [Message -> 0..3] /\ suspended' \subseteq Message
  BY <1>1, FiredType DEF TypeOK
<1>3. /\ state' \in RuntimeStates
      /\ pc' \in [Message -> Stage]
      /\ pendingQueue' \in Seq(Message)
      /\ sent' \in Seq(Message)
  BY <1>1, DrainCases, NoDrainType DEF TypeOK
<1>4. QED
  BY <1>1, <1>2, <1>3 DEF ScaffoldTypeOK

(* Outside a replay an item sets the state, and a terminal one drains.     *)
LEMMA LiveCases ==
    ASSUME TypeOK, NEW item \in Item, SyncLiveState(item)
    PROVE  /\ UNCHANGED <<suspended, armTimer>>
           /\ fired' \in {fired, Fired({item.turn})}
           /\ \E s \in RuntimeStates : DrainOnCompletion(s, pc) \/ NoDrain(s, pc)
<1>1. state \in RuntimeStates /\ item.turn \in Request
  BY RequestAssumption DEF TypeOK, Item
<1>2. /\ state \in RuntimeStates /\ TurnCompleted(state) \in RuntimeStates
      /\ Error(state) \in RuntimeStates /\ Starting(state) \in RuntimeStates
      /\ Abort(state) \in RuntimeStates
      /\ PermissionRequest(state, item.turn) \in RuntimeStates
      /\ PermissionResponse(state) \in RuntimeStates
  BY <1>1, StatusEffect, GuardedEffect, ResetEffect, PermissionEffect
<1>3. \/ DrainOnCompletion(TurnCompleted(state), pc)
      \/ DrainOnCompletion(Error(state), pc)
      \/ NoDrain(Starting(state), pc)
      \/ NoDrain(Abort(state), pc)
      \/ NoDrain(PermissionRequest(state, item.turn), pc)
      \/ NoDrain(PermissionResponse(state), pc)
      \/ NoDrain(state, pc)
  BY DEF SyncLiveState
<1>4. \E s \in RuntimeStates : DrainOnCompletion(s, pc) \/ NoDrain(s, pc)
  BY <1>2, <1>3, Zenon
<1>5. QED
  BY <1>4 DEF SyncLiveState

LEMMA IngestType ==
    ASSUME TypeOK, NEW i \in 1..Len(log), Ingest(i)
    PROVE  ScaffoldTypeOK' /\ epoch' \in 0..MaxEpoch /\ seen' \subseteq 1..Len(log)
<1> DEFINE rotates == epoch # served
           fold    == replayMode \/ rotates
           keys    == IF rotates THEN {} ELSE seen
           held    == IF rotates THEN {} ELSE suspended
<1>1. CASE i \in keys
  <2>1. UNCHANGED <<scaffold, epoch, seen>>
    BY <1>1 DEF Ingest
  <2>2. QED
    BY <2>1 DEF scaffold, TypeOK, ScaffoldTypeOK
<1>2. CASE i \notin keys
  <2>1. /\ epoch' = served /\ seen' = keys \cup {i} /\ replayMode' = fold
        /\ IF fold THEN SyncReplayState(log[i], held) ELSE SyncLiveState(log[i])
    BY <1>2 DEF Ingest
  <2>2. epoch' \in 0..MaxEpoch /\ seen' \subseteq 1..Len(log) /\ replayMode' \in BOOLEAN
    BY <2>1 DEF TypeOK, ServerTypeOK
  <2>3. log[i] \in Item /\ log[i].turn \in Message /\ held \subseteq Message
    <3>1. log[i] \in Item
      BY DEF TypeOK, ServerTypeOK
    <3>2. QED
      BY <3>1 DEF TypeOK, Item
  <2>4. CASE fold
    <3>1. SyncReplayState(log[i], held)
      BY <2>1, <2>4
    <3>2. state' \in RuntimeStates
      BY <2>3, <3>1, ReconciledType DEF SyncReplayState, TypeOK
    <3> HIDE DEF rotates, fold, keys, held
    <3>3. suspended' \in {held, held \cup {log[i].turn}, held \ {log[i].turn}}
      BY <3>1 DEF SyncReplayState
    <3>4. suspended' \subseteq Message
      BY <2>3, <3>3
    <3>5. armTimer' \in BOOLEAN
      BY <3>1 DEF SyncReplayState, TypeOK
    <3>6. QED
      BY <2>2, <3>1, <3>2, <3>4, <3>5 DEF SyncReplayState, ScaffoldTypeOK, TypeOK
  <2>5. CASE ~fold
    <3>1. SyncLiveState(log[i])
      BY <2>1, <2>5
    <3>2. PICK s \in RuntimeStates : DrainOnCompletion(s, pc) \/ NoDrain(s, pc)
      BY <2>3, <3>1, LiveCases
    <3>3. fired' \in [Message -> 0..3] /\ UNCHANGED <<suspended, armTimer>>
      BY <2>3, <3>1, LiveCases, FiredType DEF TypeOK
    <3>4. /\ state' \in RuntimeStates
          /\ pc' \in [Message -> Stage]
          /\ pendingQueue' \in Seq(Message)
          /\ sent' \in Seq(Message)
      BY <3>2, DrainCases, NoDrainType DEF TypeOK
    <3>5. QED
      BY <2>2, <3>3, <3>4 DEF ScaffoldTypeOK, TypeOK
  <2>6. QED
    BY <2>4, <2>5
<1>3. QED
  BY <1>1, <1>2

(* The server's own steps.                                                 *)
LEMMA ReportType ==
    ASSUME TypeOK, NEW m \in Message, NEW stage \in RunStage, NEW type \in ItemType,
           Report(m, stage, type)
    PROVE  ServerTypeOK' /\ Len(log') = Len(log) + 1
<1>1. [type |-> type, turn |-> m] \in Item
  BY DEF Item
<1>2. log' \in Seq(Item) /\ Len(log') = Len(log) + 1
  BY <1>1, Appended DEF Report, TypeOK, ServerTypeOK
<1>3. QED
  BY <1>2 DEF Report, TypeOK, ServerTypeOK

(* A run that reports something leaves everything else as it was.          *)
LEMMA RunReports ==
    ASSUME NEW m \in Message,
           \/ RunStarts(m) \/ RunAsks(m) \/ RunAnswered(m) \/ RunSuspends(m)
           \/ RunResumes(m) \/ Ends(m) \/ Works(m)
    PROVE  \E stage \in RunStage, type \in ItemType : Report(m, stage, type)
<1>1. /\ {"running", "ended", "asked", "resolved", "suspended", "resumed", "result",
          "completed", "failed"} \subseteq ItemType
      /\ {"running", "asking", "suspended", "over"} \subseteq RunStage
  BY DEF ItemType, RunStage
<1>2. QED
  BY <1>1 DEF RunStarts, RunAsks, RunAnswered, RunSuspends, RunResumes, Ends, Works,
              RunEnds, RunCancelled

(* A step of the server is seen by nobody until its item is delivered.     *)
LEMMA ServerStepType ==
    ASSUME TypeOK, ServerTypeOK', Len(log') = Len(log) + 1,
           UNCHANGED <<state, pendingQueue, replayMode, suspended, armTimer, fired, sent,
                       epoch, seen, next, history, disposed, closed, activeRunId, aborting>>,
           pc' \in [Message -> Stage],
           reply' \in [Message -> {"none", "posting", "taken", "over"}]
    PROVE  TypeOK'
<1>1. Len(log) \in Nat
  BY DEF TypeOK, ServerTypeOK
<1>2. next' \in 1..Len(log') + 1 /\ history' \in 0..Len(log') /\ seen' \subseteq 1..Len(log')
  BY <1>1 DEF TypeOK
<1>3. QED
  BY <1>2 DEF TypeOK

(* A step of the scaffold leaves the server alone.                         *)
LEMMA ScaffoldStepType ==
    ASSUME TypeOK, ScaffoldTypeOK',
           UNCHANGED <<epoch, seen, next, history, reply, run, log, served>>,
           disposed' \in BOOLEAN, closed' \in BOOLEAN,
           activeRunId' \in Message \cup {NoRun},
           aborting' \in Message \cup {NoRun, Calling},
           cancelled' \subseteq Message
    PROVE  TypeOK'
BY DEF TypeOK, ScaffoldTypeOK, ServerTypeOK

(* The constants of the driver.                                            *)
LEMMA TypeInit == Init => TypeOK
<1> SUFFICES ASSUME Init PROVE TypeOK
  OBVIOUS
<1>1. <<>> \in Seq(Message) /\ <<>> \in Seq(Item) /\ Len(<<>>) = 0
  OBVIOUS
<1>2. state \in RuntimeStates
  BY <1>1 DEF Init, InitialState, RuntimeStates, Status
<1>3. served \in 0..MaxEpoch /\ log = <<>> /\ run = [m \in Message |-> "none"] /\ cancelled = {}
  BY EpochAssumption DEF Init, ServerInit
<1>4. ServerTypeOK
  BY <1>1, <1>3 DEF ServerTypeOK, RunStage
<1>5. epoch \in 0..MaxEpoch
  BY EpochAssumption DEF Init
<1>6. next \in 1..Len(log) + 1 /\ history \in 0..Len(log) /\ seen \subseteq 1..Len(log)
  BY <1>1, <1>3 DEF Init
<1>7. /\ pc \in [Message -> Stage]
      /\ reply \in [Message -> {"none", "posting", "taken", "over"}]
      /\ fired \in [Message -> 0..3]
  BY DEF Init, Stage
<1>8. QED
  BY <1>1, <1>2, <1>4, <1>5, <1>6, <1>7 DEF Init, TypeOK

(* The steps of the stream and of the timers.                              *)
LEMMA TypeStream ==
    ASSUME TypeOK, Deliver \/ Reconnect \/ Armed \/ \E i \in DOMAIN log : Redeliver(i)
    PROVE  TypeOK'
<1>1. ASSUME NEW i \in 1..Len(log), Ingest(i), UNCHANGED <<driver, server>>,
             next' \in 1..Len(log) + 1, history' \in 0..Len(log)
      PROVE  TypeOK'
  <2>1. ScaffoldTypeOK' /\ epoch' \in 0..MaxEpoch /\ seen' \subseteq 1..Len(log)
    BY <1>1, IngestType
  <2>2. QED
    BY <1>1, <2>1 DEF driver, server, TypeOK, ScaffoldTypeOK, ServerTypeOK
<1>2. /\ Len(log) \in Nat /\ DOMAIN log = 1..Len(log)
      /\ next \in 1..Len(log) + 1 /\ history \in 0..Len(log)
  BY DEF TypeOK, ServerTypeOK
<1>3. CASE Deliver
  <2>1. next \in 1..Len(log) /\ next' \in 1..Len(log) + 1
    BY <1>2, <1>3 DEF Deliver
  <2>2. QED
    BY <1>1, <1>2, <1>3, <2>1 DEF Deliver
<1>4. ASSUME NEW i \in DOMAIN log, Redeliver(i) PROVE TypeOK'
  BY <1>1, <1>2, <1>4 DEF Redeliver
<1>5. CASE Reconnect
  <2>1. served' \in 0..MaxEpoch /\ UNCHANGED <<run, log, cancelled>>
    BY <1>5, EpochAssumption DEF Reconnect, Restart, TypeOK, ServerTypeOK
  <2>2. 1 \in 1..Len(log) + 1 /\ Len(log) \in 0..Len(log)
    BY <1>2
  <2>3. QED
    BY <1>5, <2>1, <2>2 DEF Reconnect, scaffold, driver, TypeOK, ServerTypeOK
<1>6. CASE Armed
  <2>1. ScaffoldTypeOK'
    BY <1>6, ArmReplayType DEF Armed, ArmedByHost, ArmedByTimer, TypeOK
  <2>2. QED
    BY <1>6, <2>1, ScaffoldStepType DEF Armed, ArmedByHost, ArmedByTimer, intake, driver, server, TypeOK, ServerTypeOK
<1>7. QED
  BY <1>3, <1>4, <1>5, <1>6

(* The steps of a send.                                                    *)
LEMMA TypeSend ==
    ASSUME TypeOK, NEW m \in Message, SendCall(m) \/ Send(m) \/ PostFails(m)
    PROVE  TypeOK'
<1>0. /\ state \in RuntimeStates /\ pc \in [Message -> Stage] /\ Dropped \in [Message -> Stage]
      /\ pendingQueue \in Seq(Message) /\ sent \in Seq(Message) /\ <<>> \in Seq(Message)
  BY DEF TypeOK, Dropped, Stage
<1>1. CASE SendCall(m)
  <2> DEFINE first == IF \A n \in Message : pc[n] \in {"new", "foreign"}
                      THEN "resolving" ELSE "ensuring"
  <2>1. [pc EXCEPT ![m] = first] \in [Message -> Stage]
    BY <1>0 DEF Stage
  <2>2. ArmReplay([pc EXCEPT ![m] = first])
    BY <1>1 DEF SendCall
  <2>3. ScaffoldTypeOK'
    BY <2>1, <2>2, ArmReplayType
  <2>4. QED
    BY <1>1, <2>3, ScaffoldStepType DEF SendCall, intake, driver, server, TypeOK, ServerTypeOK
<1>2. CASE ResolveSession(m)
  BY <1>2, EpochAssumption DEF ResolveSession, driver, server, TypeOK, ServerTypeOK, Stage
<1>3. CASE SendResume(m)
  <2> DEFINE retry == state.status = "failed"
             base  == IF retry THEN Abort(state) ELSE state
             kept  == IF retry THEN <<>> ELSE pendingQueue
             stage == IF retry THEN Dropped ELSE pc
  <2>1. base \in RuntimeStates /\ kept \in Seq(Message) /\ stage \in [Message -> Stage]
    BY <1>0, ResetEffect
  <2>2. /\ state' = SendMessage(base, m)
        /\ \/ /\ pc' = [stage EXCEPT ![m] = "queued"]
              /\ pendingQueue' = Append(kept, m) /\ sent' = sent
           \/ /\ pc' = [stage EXCEPT ![m] = "posting"]
              /\ pendingQueue' = kept /\ sent' = Append(sent, m)
        /\ UNCHANGED <<replayMode, suspended, armTimer, fired>>
        /\ UNCHANGED <<intake, driver, server>>
    BY <1>3 DEF SendResume
  <2> HIDE DEF retry, base, kept, stage
  <2>3. state' \in RuntimeStates
    BY <2>1, <2>2, SendMessageEffect
  <2>4. pc' \in [Message -> Stage]
    BY <2>1, <2>2 DEF Stage
  <2>5. pendingQueue' \in Seq(Message) /\ sent' \in Seq(Message)
    <3>1. Append(kept, m) \in Seq(Message) /\ Append(sent, m) \in Seq(Message)
      BY <1>0, <2>1, Appended
    <3>2. QED
      BY <1>0, <2>1, <2>2, <3>1
  <2>6. QED
    BY <2>2, <2>3, <2>4, <2>5, ScaffoldStepType
       DEF ScaffoldTypeOK, intake, driver, server, TypeOK, ServerTypeOK
<1>4. CASE PostArrives(m)
  <2>1. PICK stage \in RunStage, type \in ItemType : Report(m, stage, type)
    BY <1>4, RunReports DEF PostArrives
  <2>2. ServerTypeOK' /\ Len(log') = Len(log) + 1
    BY <2>1, ReportType
  <2>3. QED
    BY <1>4, <2>2, ServerStepType DEF PostArrives, scaffold, intake, driver, TypeOK
<1>5. CASE PostReturns(m)
  BY <1>5 DEF PostReturns, intake, server, TypeOK, ServerTypeOK, Stage
<1>6. CASE PostFails(m)
  <2>1. "failed" \in Status
    BY DEF Status
  <2>2. state' \in RuntimeStates
    BY <1>0, <1>6, <2>1, StatusEffect, ReconcileType DEF PostFails
  <2>3. pc' \in [Message -> Stage] /\ pendingQueue' = <<>>
    BY <1>0, <1>6 DEF PostFails, Stage
  <2>4. QED
    BY <1>0, <1>6, <2>2, <2>3, ScaffoldStepType
       DEF PostFails, ScaffoldTypeOK, intake, driver, server, TypeOK, ServerTypeOK
<1>7. QED
  BY <1>1, <1>2, <1>3, <1>4, <1>5, <1>6 DEF Send

(* The answer to a request, the outputs of a tool, and runs.               *)
LEMMA TypeRuns ==
    ASSUME TypeOK, NEW m \in Message,
           Reply(m) \/ ToolSubmits(m) \/ Foreign(m) \/ Runs(m)
    PROVE  TypeOK'
<1>0. state \in RuntimeStates /\ pc \in [Message -> Stage] /\ Message = Request
  BY RequestAssumption DEF TypeOK
<1>1. CASE Respond(m)
  BY <1>1 DEF Respond, scaffold, intake, server, TypeOK, ServerTypeOK
<1>2. CASE ReplyArrives(m)
  <2>1. /\ reply' \in [Message -> {"none", "posting", "taken", "over"}]
        /\ UNCHANGED <<scaffold, intake, disposed, closed, activeRunId, aborting>>
    BY <1>2 DEF ReplyArrives, TypeOK
  <2>2. CASE RunAnswered(m)
    <3>1. PICK stage \in RunStage, type \in ItemType : Report(m, stage, type)
      BY <2>2, RunReports
    <3>2. ServerTypeOK' /\ Len(log') = Len(log) + 1
      BY <3>1, ReportType
    <3>3. QED
      BY <2>1, <3>2, ServerStepType DEF scaffold, intake, TypeOK
  <2>3. CASE UNCHANGED server
    BY <2>1, <2>3 DEF server, scaffold, intake, TypeOK, ServerTypeOK
  <2>4. QED
    BY <1>2, <2>2, <2>3 DEF ReplyArrives
<1>3. CASE ReplyReturns(m)
  <2>1. state' \in RuntimeStates
    BY <1>0, <1>3, PermissionEffect DEF ReplyReturns
  <2>2. QED
    BY <1>3, <2>1 DEF ReplyReturns, intake, server, TypeOK, ServerTypeOK
<1>4. CASE ToolSubmits(m)
  <2>1. PICK stage \in RunStage, type \in ItemType : Report(m, stage, type)
    BY <1>4, RunReports DEF ToolSubmits
  <2>2. ServerTypeOK' /\ Len(log') = Len(log) + 1
    BY <2>1, ReportType
  <2>3. QED
    BY <1>4, <2>2, ServerStepType DEF ToolSubmits, scaffold, intake, driver, TypeOK
<1>5. CASE Foreign(m)
  <2>1. PICK stage \in RunStage, type \in ItemType : Report(m, stage, type)
    BY <1>5, RunReports DEF Foreign
  <2>2. ServerTypeOK' /\ Len(log') = Len(log) + 1
    BY <2>1, ReportType
  <2>3. pc' \in [Message -> Stage]
    BY <1>0, <1>5 DEF Foreign, Stage
  <2>4. QED
    BY <1>5, <2>2, <2>3, ServerStepType DEF Foreign, intake, driver, TypeOK
<1>6. CASE Runs(m)
  <2>1. PICK stage \in RunStage, type \in ItemType : Report(m, stage, type)
    BY <1>6, RunReports DEF Runs
  <2>2. ServerTypeOK' /\ Len(log') = Len(log) + 1
    BY <2>1, ReportType
  <2>3. QED
    BY <1>6, <2>2, ServerStepType DEF Runs, scaffold, intake, driver, TypeOK
<1>7. QED
  BY <1>1, <1>2, <1>3, <1>4, <1>5, <1>6 DEF Reply

(* The steps of the host.                                                  *)
LEMMA TypeHost ==
    ASSUME TypeOK,
           \/ Preflight \/ AbortCall \/ AbortResume \/ AbortReturns
           \/ DisposeCall \/ DisposeReturns
    PROVE  TypeOK'
<1>0. /\ state \in RuntimeStates /\ Dropped \in [Message -> Stage] /\ <<>> \in Seq(Message)
      /\ cancelled \cup ({activeRunId} \ {NoRun}) \subseteq Message
  BY DEF TypeOK, ServerTypeOK, Dropped, Stage
<1>1. CASE Preflight
  <2>1. state' \in RuntimeStates
    BY <1>0, <1>1, StatusEffect DEF Preflight
  <2>2. QED
    BY <1>1, <2>1 DEF Preflight, intake, driver, server, TypeOK, ServerTypeOK
<1>2. CASE AbortCall
  <2>1. state' \in RuntimeStates
    BY <1>0, <1>2, ResetEffect DEF AbortCall
  <2>2. QED
    BY <1>0, <1>2, <2>1 DEF AbortCall, intake, server, TypeOK, ServerTypeOK
<1>3. CASE AbortResume
  BY <1>0, <1>3 DEF AbortResume, scaffold, intake, TypeOK, ServerTypeOK
<1>4. CASE AbortReturns
  BY <1>4 DEF AbortReturns, scaffold, intake, server, TypeOK, ServerTypeOK
<1>5. CASE DisposeCall
  <2>1. state' \in RuntimeStates
    BY <1>0, <1>5, ResetEffect DEF DisposeCall
  <2>2. QED
    BY <1>0, <1>5, <2>1 DEF DisposeCall, intake, TypeOK, ServerTypeOK
<1>6. CASE DisposeReturns
  BY <1>6 DEF DisposeReturns, scaffold, intake, server, TypeOK, ServerTypeOK
<1>7. QED
  BY <1>1, <1>2, <1>3, <1>4, <1>5, <1>6

(* Every step keeps the types.                                             *)
LEMMA TypeStep ==
    ASSUME TypeOK, [Next]_vars
    PROVE  TypeOK'
<1>1. CASE UNCHANGED vars
  BY <1>1 DEF vars, scaffold, intake, driver, server, TypeOK, ServerTypeOK
<1>2. CASE Next
  BY <1>2, TypeStream, TypeSend, TypeRuns, TypeHost DEF Next
<1>3. QED
  BY <1>1, <1>2

(* The state of a deferred runtime is well typed whatever hosts, the       *)
(* server and the network do; in particular every key the runtime has seen *)
(* and the place of its stream are within the server's log.                *)
THEOREM DeferredTypes == Spec => []TypeOK
<1>1. Init => TypeOK
  BY TypeInit
<1>2. TypeOK /\ [Next]_vars => TypeOK'
  BY TypeStep
<1>3. QED
  BY <1>1, <1>2, PTL DEF Spec

-----------------------------------------------------------------------------
(* Refinement of TurnQueue.                                                *)

(* The stages and their fates, spelt out for the provers.                  *)
LEMMA Fates ==
    /\ FateOf("new") = "new" /\ FateOf("foreign") = "new"
    /\ FateOf("resolving") = "new" /\ FateOf("ensuring") = "new"
    /\ FateOf("queued") = "queued" /\ FateOf("cancelled") = "cancelled"
    /\ FateOf("posting") = "sent" /\ FateOf("posted") = "sent" /\ FateOf("failed") = "sent"
BY DEF FateOf

(* Only a parked send has the fate "queued".                               *)
LEMMA QueuedFate ==
    ASSUME NEW st \in Stage
    PROVE  FateOf(st) = "queued" <=> st = "queued"
BY DEF FateOf, Stage

(* A step that changes no fate and neither sequence is a stutter.          *)
LEMMA FateStutter ==
    ASSUME UNCHANGED <<pendingQueue, sent>>,
           \A n \in Message : FateOf(pc'[n]) = FateOf(pc[n])
    PROVE  UNCHANGED TQ!vars
BY DEF TQ!vars, fate

(* Dropping the queue is cancelling every parked message.                  *)
LEMMA DroppedFates ==
    ASSUME TypeOK
    PROVE  /\ [n \in Message |-> FateOf(Dropped[n])] = TQ!Dropping(TRUE)
           /\ fate = TQ!Dropping(FALSE)
           /\ Dropped \in [Message -> Stage]
<1>1. ASSUME NEW n \in Message
      PROVE  FateOf(Dropped[n]) = IF fate[n] = "queued" THEN "cancelled" ELSE fate[n]
  <2>1. pc[n] \in Stage /\ fate[n] = FateOf(pc[n])
    BY DEF TypeOK, fate
  <2>2. CASE pc[n] = "queued"
    BY <2>1, <2>2, Fates DEF Dropped
  <2>3. CASE pc[n] # "queued"
    BY <2>1, <2>3, QueuedFate DEF Dropped
  <2>4. QED
    BY <2>2, <2>3
<1>2. QED
  BY <1>1 DEF TQ!Dropping, fate, Dropped, TypeOK, Stage

(* A drain releases the oldest parked message, or nothing.                 *)
LEMMA DrainRefines ==
    ASSUME TypeOK, NEW s \in RuntimeStates, NEW stage \in [Message -> Stage],
           \A n \in Message : FateOf(stage[n]) = FateOf(pc[n]),
           DrainOnCompletion(s, stage) \/ NoDrain(s, stage)
    PROVE  TQ!Next \/ UNCHANGED TQ!vars
<1>1. CASE pc' = stage /\ UNCHANGED <<pendingQueue, sent>>
  BY <1>1, FateStutter
<1>2. CASE /\ pendingQueue # <<>>
           /\ Head(pendingQueue) \in Message
           /\ pc' = [stage EXCEPT ![Head(pendingQueue)] = "posting"]
           /\ pendingQueue' = Tail(pendingQueue)
           /\ sent' = Append(sent, Head(pendingQueue))
  <2>1. fate' = [n \in Message |-> IF n = Head(pendingQueue) THEN "sent" ELSE FateOf(pc[n])]
    BY <1>2, Fates DEF fate
  <2>2. fate' = [fate EXCEPT ![Head(pendingQueue)] = "sent"]
    BY <2>1 DEF fate
  <2>3. TQ!Release
    BY <1>2, <2>2 DEF TQ!Release
  <2>4. QED
    BY <2>3 DEF TQ!Next
<1>3. QED
  BY <1>1, <1>2, DrainCases DEF NoDrain

(* Items, timers and the arming of a replay.                               *)
LEMMA StreamRefines ==
    ASSUME TypeOK, Deliver \/ Reconnect \/ Armed \/ \E i \in DOMAIN log : Redeliver(i)
    PROVE  TQ!Next \/ UNCHANGED TQ!vars
<1>0. state \in RuntimeStates /\ pc \in [Message -> Stage]
  BY DEF TypeOK
<1>1. ASSUME NEW i \in 1..Len(log), Ingest(i) PROVE TQ!Next \/ UNCHANGED TQ!vars
  <2>1. log[i] \in Item
    BY DEF TypeOK, ServerTypeOK
  <2>2. CASE UNCHANGED <<pendingQueue, pc, sent>>
    BY <2>2, FateStutter
  <2>3. CASE SyncLiveState(log[i])
    BY <1>0, <2>1, <2>3, LiveCases, DrainRefines
  <2>4. QED
    BY <1>1, <2>2, <2>3 DEF Ingest, SyncReplayState, scaffold
<1>2. Len(log) \in Nat /\ DOMAIN log = 1..Len(log) /\ next \in 1..Len(log) + 1
  BY DEF TypeOK, ServerTypeOK
<1>3. CASE Deliver
  <2>1. next \in 1..Len(log)
    BY <1>2, <1>3 DEF Deliver
  <2>2. QED
    BY <1>1, <1>3, <2>1 DEF Deliver
<1>4. ASSUME NEW i \in DOMAIN log, Redeliver(i) PROVE TQ!Next \/ UNCHANGED TQ!vars
  BY <1>1, <1>2, <1>4 DEF Redeliver
<1>5. CASE Reconnect
  BY <1>5, FateStutter DEF Reconnect, scaffold
<1>6. CASE Armed
  BY <1>0, <1>6, DrainRefines DEF Armed, ArmedByHost, ArmedByTimer, ArmReplay
<1>7. QED
  BY <1>3, <1>4, <1>5, <1>6

(* A send is parked or committed; one whose POST fails cancels the queue.  *)
LEMMA SendRefines ==
    ASSUME TypeOK, NEW m \in Message, SendCall(m) \/ Send(m) \/ PostFails(m)
    PROVE  TQ!Next \/ UNCHANGED TQ!vars
<1>0. state \in RuntimeStates /\ pc \in [Message -> Stage]
  BY DEF TypeOK
<1>1. CASE SendCall(m)
  <2> DEFINE first == IF \A n \in Message : pc[n] \in {"new", "foreign"}
                      THEN "resolving" ELSE "ensuring"
             stage == [pc EXCEPT ![m] = first]
  <2>1. pc[m] = "new" /\ ArmReplay(stage)
    BY <1>1 DEF SendCall
  <2>2. stage \in [Message -> Stage] /\ first \in {"resolving", "ensuring"}
    BY <1>0 DEF Stage
  <2>3. \A n \in Message : FateOf(stage[n]) = FateOf(pc[n])
    BY <1>0, <2>1, <2>2, Fates
  <2> HIDE DEF stage
  <2>4. QED
    BY <1>0, <2>1, <2>2, <2>3, DrainRefines DEF ArmReplay
<1>2. CASE ResolveSession(m)
  BY <1>0, <1>2, Fates, FateStutter DEF ResolveSession
<1>3. CASE SendResume(m) /\ state.status # "failed"
  <2>1. pc[m] = "ensuring" /\ fate[m] = "new"
    BY <1>3, Fates DEF SendResume, fate
  <2>2. CASE pc' = [pc EXCEPT ![m] = "queued"] /\ pendingQueue' = Append(pendingQueue, m) /\ sent' = sent
    <3>1. fate' = [fate EXCEPT ![m] = "queued"]
      BY <1>0, <2>2, Fates DEF fate
    <3>2. TQ!Park(m)
      BY <2>1, <2>2, <3>1 DEF TQ!Park
    <3>3. QED
      BY <3>2 DEF TQ!Next
  <2>3. CASE pc' = [pc EXCEPT ![m] = "posting"] /\ pendingQueue' = pendingQueue /\ sent' = Append(sent, m)
    <3>1. fate' = [TQ!Dropping(FALSE) EXCEPT ![m] = "sent"]
      <4>1. fate' = [fate EXCEPT ![m] = "sent"]
        BY <1>0, <2>3, Fates DEF fate
      <4>2. QED
        BY <4>1, DroppedFates
    <3>2. TQ!Commit(m)
      BY <2>1, <2>3, <3>1 DEF TQ!Commit
    <3>3. QED
      BY <3>2 DEF TQ!Next
  <2>4. QED
    BY <1>3, <2>2, <2>3 DEF SendResume
<1>4. CASE SendResume(m) /\ state.status = "failed"
  <2>1. pc[m] = "ensuring" /\ fate[m] = "new"
    BY <1>4, Fates DEF SendResume, fate
  <2>2. ~MustPark(Abort(state))
    BY <1>0, ResetEffect DEF MustPark
  <2>3. pc' = [Dropped EXCEPT ![m] = "posting"] /\ pendingQueue' = <<>> /\ sent' = Append(sent, m)
    BY <1>4, <2>2 DEF SendResume
  <2>4. fate' = [TQ!Dropping(TRUE) EXCEPT ![m] = "sent"]
    <3>1. fate' = [n \in Message |-> IF n = m THEN "sent" ELSE FateOf(Dropped[n])]
      BY <2>3, DroppedFates, Fates DEF fate
    <3>2. QED
      BY <3>1, DroppedFates
  <2>5. TQ!Commit(m)
    BY <2>1, <2>3, <2>4 DEF TQ!Commit
  <2>6. QED
    BY <2>5 DEF TQ!Next
<1>5. CASE PostArrives(m)
  BY <1>5, FateStutter DEF PostArrives, scaffold
<1>6. CASE PostReturns(m)
  BY <1>0, <1>6, Fates, FateStutter DEF PostReturns
<1>7. CASE PostFails(m)
  <2>1. /\ pc[m] = "posting" /\ pc' = [Dropped EXCEPT ![m] = "failed"]
        /\ pendingQueue' = <<>> /\ sent' = sent
    BY <1>7 DEF PostFails
  <2>2. Dropped[m] = "posting"
    BY <2>1 DEF Dropped
  <2>3. fate' = [n \in Message |-> FateOf(Dropped[n])]
    BY <2>1, <2>2, DroppedFates, Fates DEF fate
  <2>4. TQ!CancelAll
    BY <2>1, <2>3, DroppedFates DEF TQ!CancelAll
  <2>5. QED
    BY <2>4 DEF TQ!Next
<1>8. QED
  BY <1>1, <1>2, <1>3, <1>4, <1>5, <1>6, <1>7 DEF Send

(* abort() and dispose() cancel the queue.                                 *)
LEMMA CancelRefines ==
    ASSUME TypeOK, AbortCall \/ DisposeCall
    PROVE  TQ!Next
<1>1. pc' = Dropped /\ pendingQueue' = <<>> /\ sent' = sent
  BY DEF AbortCall, DisposeCall
<1>2. TQ!CancelAll
  BY <1>1, DroppedFates DEF TQ!CancelAll, fate
<1>3. QED
  BY <1>2 DEF TQ!Next

(* Every other step leaves the queue, the posted messages and the fates.   *)
LEMMA OtherStutters ==
    ASSUME TypeOK,
           \/ Preflight \/ AbortResume \/ AbortReturns \/ DisposeReturns
           \/ \E m \in Message : Reply(m) \/ ToolSubmits(m) \/ Foreign(m) \/ Runs(m)
           \/ UNCHANGED vars
    PROVE  UNCHANGED TQ!vars
<1>1. ASSUME NEW m \in Message, Foreign(m) PROVE UNCHANGED TQ!vars
  BY <1>1, Fates, FateStutter DEF Foreign, TypeOK
<1>2. CASE UNCHANGED <<pendingQueue, pc, sent>>
  BY <1>2, FateStutter
<1>3. QED
  BY <1>1, <1>2 DEF Preflight, AbortResume, AbortReturns, DisposeReturns, Reply, Respond,
                    ReplyArrives, ReplyReturns, ToolSubmits, Runs, scaffold, vars

(* Every step of the runtime is a step of TurnQueue or a stutter.          *)
LEMMA StepRefines ==
    ASSUME TypeOK, [Next]_vars
    PROVE  [TQ!Next]_(TQ!vars)
<1>1. CASE Next
  BY <1>1, StreamRefines, SendRefines, CancelRefines, OtherStutters DEF Next
<1>2. QED
  BY <1>1, OtherStutters

(* In every environment the deferred scaffold implements TurnQueue: no     *)
(* message is posted twice, parked messages are posted in the order they   *)
(* came, and a cancelled message never is, even across replays, restarts   *)
(* of the server and lost responses.                                       *)
THEOREM DeferredRefinement == Spec => ImplementsTurnQueue
<1>1. Init => TQ!Init
  BY Fates DEF Init, TQ!Init, fate
<1>2. TypeOK /\ [Next]_vars => [TQ!Next]_(TQ!vars)
  BY StepRefines
<1>3. QED
  BY <1>1, <1>2, DeferredTypes, PTL DEF Spec, ImplementsTurnQueue, TQ!Spec

(* What TurnQueue does to the parked messages and the sent ones.           *)
LEMMA QueueStep ==
    ASSUME OnceEach(pendingQueue, sent, fate), [TQ!Next]_(TQ!vars)
    PROVE  OnceEach(pendingQueue, sent, fate)'
<1> DEFINE Fate4 == {"new", "queued", "sent", "cancelled"}
<1>0. /\ fate \in [Message -> Fate4]
      /\ Listed(pendingQueue, fate, "queued") /\ Listed(sent, fate, "sent")
  BY DEF OnceEach
<1>1. ASSUME NEW all \in BOOLEAN
      PROVE  /\ TQ!Dropping(all) \in [Message -> Fate4]
             /\ \A n \in Message : TQ!Dropping(all)[n] =
                   IF all /\ fate[n] = "queued" THEN "cancelled" ELSE fate[n]
  BY <1>0 DEF TQ!Dropping
<1> HIDE DEF fate
<1>2. ASSUME NEW m \in Message, TQ!Commit(m) PROVE OnceEach(pendingQueue, sent, fate)'
  <2>1. PICK reset \in BOOLEAN :
           /\ fate[m] = "new"
           /\ fate' = [TQ!Dropping(reset) EXCEPT ![m] = "sent"]
           /\ sent' = Append(sent, m)
           /\ pendingQueue' = IF reset THEN <<>> ELSE pendingQueue
    BY <1>2 DEF TQ!Commit
  <2>2. /\ fate' \in [Message -> Fate4]
        /\ \A n \in Message : fate'[n] = IF n = m THEN "sent"
              ELSE IF reset /\ fate[n] = "queued" THEN "cancelled" ELSE fate[n]
    BY <1>1, <2>1
  <2>3. \A n \in Message : fate'[n] = "sent" <=> n = m \/ fate[n] = "sent"
    BY <2>2
  <2>4. Listed(sent', fate', "sent")
    BY <1>0, <2>1, <2>3, ListedAppend
  <2>5. CASE reset
    <3>1. \A n \in Message : fate'[n] # "queued"
      BY <2>2, <2>5
    <3>2. QED
      BY <2>1, <2>2, <2>4, <2>5, <3>1, ListedNone DEF OnceEach
  <2>6. CASE ~reset
    <3>1. \A n \in Message : fate'[n] = "queued" <=> fate[n] = "queued"
      BY <2>1, <2>2, <2>6
    <3>2. Listed(pendingQueue, fate', "queued")
      BY <1>0, <3>1, ListedSame
    <3>3. QED
      BY <2>1, <2>2, <2>4, <2>6, <3>2 DEF OnceEach
  <2>7. QED
    BY <2>5, <2>6
<1>3. ASSUME NEW m \in Message, TQ!Park(m) PROVE OnceEach(pendingQueue, sent, fate)'
  <2>1. /\ fate[m] = "new" /\ pendingQueue' = Append(pendingQueue, m) /\ sent' = sent
        /\ fate' \in [Message -> Fate4]
        /\ \A n \in Message : fate'[n] = IF n = m THEN "queued" ELSE fate[n]
    BY <1>0, <1>3 DEF TQ!Park
  <2>2. Listed(pendingQueue', fate', "queued")
    BY <1>0, <2>1, ListedAppend
  <2>3. Listed(sent, fate', "sent")
    BY <1>0, <2>1, ListedSame
  <2>4. QED
    BY <2>1, <2>2, <2>3 DEF OnceEach
<1>4. CASE TQ!Release
  <2>0. PICK h : h = Head(pendingQueue)
    OBVIOUS
  <2>1. /\ pendingQueue # <<>> /\ fate' = [fate EXCEPT ![h] = "sent"]
        /\ sent' = Append(sent, h) /\ pendingQueue' = Tail(pendingQueue)
    BY <1>4, <2>0 DEF TQ!Release
  <2>2. /\ fate' \in [Message -> Fate4]
        /\ \A n \in Message : fate'[n] = IF n = h THEN "sent" ELSE fate[n]
    BY <1>0, <2>1
  <2>3. \A n \in Message : fate'[n] = "queued" <=> n # h /\ fate[n] = "queued"
    BY <2>2
  <2>4. /\ h \in Message /\ fate[h] = "queued"
        /\ Listed(Tail(pendingQueue), fate', "queued")
    BY <1>0, <2>0, <2>1, <2>3, ListedHead, ListedTail
  <2>5. \A n \in Message : fate'[n] = "sent" <=> n = h \/ fate[n] = "sent"
    BY <2>2
  <2>6. Listed(sent', fate', "sent")
    BY <1>0, <2>1, <2>4, <2>5, ListedAppend
  <2>7. QED
    BY <2>1, <2>2, <2>4, <2>6 DEF OnceEach
<1>5. CASE TQ!CancelAll
  <2>1. /\ pendingQueue' = <<>> /\ sent' = sent /\ fate' \in [Message -> Fate4]
        /\ \A n \in Message :
              fate'[n] = IF fate[n] = "queued" THEN "cancelled" ELSE fate[n]
    <3>1. fate' = TQ!Dropping(TRUE) /\ pendingQueue' = <<>> /\ sent' = sent
      BY <1>5 DEF TQ!CancelAll
    <3>2. QED
      BY <1>1, <3>1
  <2>2. Listed(<<>>, fate', "queued")
    <3>1. \A n \in Message : fate'[n] # "queued"
      BY <2>1
    <3>2. QED
      BY <3>1, ListedNone
  <2>3. Listed(sent, fate', "sent")
    <3>1. \A n \in Message : fate'[n] = "sent" <=> fate[n] = "sent"
      BY <2>1
    <3>2. QED
      BY <1>0, <3>1, ListedSame
  <2>4. QED
    BY <2>1, <2>2, <2>3 DEF OnceEach
<1>6. ASSUME NEW m \in Message, TQ!Refuse(m) PROVE OnceEach(pendingQueue, sent, fate)'
  <2>1. /\ pendingQueue' = pendingQueue /\ sent' = sent
        /\ fate' \in [Message -> Fate4] /\ fate[m] = "new"
        /\ \A n \in Message : fate'[n] = IF n = m THEN "cancelled" ELSE fate[n]
    BY <1>0, <1>6 DEF TQ!Refuse
  <2>2. Listed(pendingQueue, fate', "queued") /\ Listed(sent, fate', "sent")
    BY <1>0, <2>1, ListedSame
  <2>3. QED
    BY <2>1, <2>2 DEF OnceEach
<1>7. CASE UNCHANGED TQ!vars
  BY <1>0, <1>7 DEF TQ!vars, OnceEach
<1>8. QED
  BY <1>2, <1>3, <1>4, <1>5, <1>6, <1>7 DEF TQ!Next

(* A message is posted once at most, and the messages posted are those     *)
(* whose fate says so: none that was cancelled, whatever is replayed.      *)
THEOREM SentOnce == Spec => []TQ!SentOnce
<1>1. TQ!Init => OnceEach(pendingQueue, sent, fate)
  BY ListedNone DEF TQ!Init, OnceEach
<1>2. OnceEach(pendingQueue, sent, fate) /\ [TQ!Next]_(TQ!vars)
         => OnceEach(pendingQueue, sent, fate)'
  BY QueueStep
<1>3. OnceEach(pendingQueue, sent, fate) => TQ!SentOnce
  BY DEF OnceEach, Listed, TQ!SentOnce
<1>4. Spec => TQ!Spec
  BY DeferredRefinement DEF ImplementsTurnQueue
<1>5. QED
  BY <1>1, <1>2, <1>3, <1>4, PTL DEF TQ!Spec

-----------------------------------------------------------------------------
(* A plain session: one client, one epoch, no abort and no dispose, hosts  *)
(* that preflight once and send no empty string, and a network that loses  *)
(* no response.  Posts may still be refused, runs may fail, ask and        *)
(* suspend, items may be delivered again and hosts may arm the runtime.    *)
PlainSession ==
    /\ Env \subseteq {"pinned", "arms", "asks", "suspends", "fails", "rejects", "repeat"}
    /\ MaxEpoch = 0
    /\ Blank \notin Message

(* The items that end a turn.                                              *)
LastType == {"completed", "failed"}

Finished(m) == \E i \in 1..next - 1 : log[i].turn = m /\ log[i].type \in LastType

(* The client owes m an end: it was posted and its last item is not here.  *)
Open(m) == pc[m] \in {"posting", "posted"} /\ ~Finished(m)

(* What only an excluded kind of step would change.                        *)
SessionInv ==
    /\ epoch = 0 /\ served = 0 /\ replayMode = FALSE /\ armTimer = FALSE
    /\ disposed = FALSE /\ closed = FALSE /\ aborting = NoRun /\ cancelled = {}
    /\ seen = 1..next - 1
    /\ \A m \in Message : pc[m] # "foreign"

(* The parked messages are parked once.                                    *)
ParkedInv ==
    /\ \A i \in DOMAIN pendingQueue : pc[pendingQueue[i]] = "queued"
    /\ \A i, j \in DOMAIN pendingQueue : pendingQueue[i] = pendingQueue[j] => i = j

(* The log is about posted messages, and a turn is over when it says so.   *)
LogInv ==
    /\ \A i \in DOMAIN log : log[i].type # "ended"
    /\ \A m \in Message : run[m] # "none" => pc[m] \in {"posting", "posted"}
    /\ \A m \in Message : pc[m] = "posted" => run[m] # "none"
    /\ \A i \in DOMAIN log : run[log[i].turn] # "none"
    /\ \A i \in DOMAIN log : log[i].type \in LastType => run[log[i].turn] = "over"
    /\ \A m \in Message : run[m] = "over" =>
          \E i \in DOMAIN log : log[i].turn = m /\ log[i].type \in LastType

(* One turn is open, and what is on its way is about it, its end last.     *)
TurnInv ==
    /\ \A m, n \in Message : Open(m) /\ Open(n) => m = n
    /\ \A m \in Message : \A i \in next..Len(log) : log[i].turn = m => Open(m)
    /\ \A i \in next..Len(log) : log[i].type \in LastType => i = Len(log)

(* The status shows whether a turn is open and how the last one ended.     *)
ShownInv ==
    /\ (\E m \in Message : Open(m)) => state.status \in Busy
    /\ (\A m \in Message : ~Open(m)) =>
          /\ state.status \in {"idle", "ready", "failed"}
          /\ state.status = "idle" => log = <<>>
          /\ log # <<>> =>
                \/ state.status = IF log[Len(log)].type = "failed" THEN "failed" ELSE "ready"
                \/ state.status = "failed" /\ \E m \in Message : pc[m] = "failed"

MirrorInv ==
    /\ state.status \notin Terminal => pendingQueue = state.queued
    /\ state.accepted = sent

PlainInv == TypeOK /\ SessionInv /\ ParkedInv /\ LogInv /\ TurnInv /\ ShownInv /\ MirrorInv


-----------------------------------------------------------------------------
(* The log and the place of the stream in it.                              *)
LEMMA Indices ==
    ASSUME TypeOK
    PROVE  /\ Len(log) \in Nat /\ DOMAIN log = 1..Len(log) /\ next \in 1..Len(log) + 1
           /\ log \in Seq(Item)
           /\ \A i \in 1..Len(log) :
                 log[i] \in Item /\ log[i].turn \in Message /\ log[i].type \in ItemType
           /\ 1..next - 1 \subseteq 1..Len(log)
<1>1. Len(log) \in Nat /\ DOMAIN log = 1..Len(log) /\ next \in 1..Len(log) + 1 /\ log \in Seq(Item)
  BY DEF TypeOK, ServerTypeOK
<1>2. \A i \in 1..Len(log) : log[i] \in Item
  BY <1>1
<1>3. \A it \in Item : it.turn \in Message /\ it.type \in ItemType
  BY DEF Item
<1>4. QED
  BY <1>1, <1>2, <1>3

(* A finished turn has ended at the server.                                *)
LEMMA FinishedIsOver ==
    ASSUME TypeOK, LogInv, NEW m \in Message, Finished(m)
    PROVE  run[m] = "over"
BY Indices DEF Finished, LogInv

(* At rest, the runtime has all there is in the log.                       *)
LEMMA NothingToCome ==
    ASSUME TypeOK, TurnInv, \A m \in Message : ~Open(m)
    PROVE  next = Len(log) + 1
<1>1. next \notin 1..Len(log)
  <2> SUFFICES ASSUME next \in 1..Len(log) PROVE FALSE
    OBVIOUS
  <2>1. PICK m \in Message : log[next].turn = m
    BY Indices
  <2>2. next \in next..Len(log)
    BY Indices
  <2>3. Open(m)
    BY <2>1, <2>2 DEF TurnInv
  <2>4. QED
    BY <2>3
<1>2. QED
  BY <1>1, Indices

LEMMA PlainInit == PlainSession /\ Init => PlainInv
<1> SUFFICES ASSUME PlainSession, Init PROVE PlainInv
  OBVIOUS
<1>1. log = <<>> /\ Len(log) = 0 /\ DOMAIN log = {} /\ next = 1 /\ served = 0
      /\ run = [m \in Message |-> "none"] /\ cancelled = {} /\ pc = [m \in Message |-> "new"]
  <2>1. "pinned" \in Env
    BY EpochAssumption DEF PlainSession
  <2>2. QED
    BY <2>1 DEF Init, ServerInit
<1>2. TypeOK
  BY TypeInit
<1>3. SessionInv
  BY <1>1 DEF Init, SessionInv
<1>4. ParkedInv /\ LogInv
  BY <1>1 DEF Init, ParkedInv, LogInv
<1>5. \A m \in Message : ~Open(m)
  BY <1>1 DEF Open
<1>6. TurnInv
  BY <1>1, <1>5 DEF TurnInv
<1>7. ShownInv /\ MirrorInv
  BY <1>1, <1>5 DEF Init, InitialState, ShownInv, MirrorInv
<1>8. QED
  BY <1>2, <1>3, <1>4, <1>6, <1>7 DEF PlainInv

(* A step that changes nothing a client or its log holds.                  *)
LEMMA PlainStutter ==
    ASSUME PlainInv, TypeOK',
           UNCHANGED <<scaffold, intake, disposed, closed, aborting, server>>
    PROVE  PlainInv'
<1>1. \A m \in Message : Open(m)' <=> Open(m)
  BY DEF Open, Finished, scaffold, intake, server
<1>2. SessionInv' /\ ParkedInv' /\ LogInv'
  BY DEF PlainInv, SessionInv, ParkedInv, LogInv, scaffold, intake, server
<1>3. TurnInv' /\ ShownInv' /\ MirrorInv'
  BY <1>1 DEF PlainInv, TurnInv, ShownInv, MirrorInv, scaffold, intake, server
<1>4. QED
  BY <1>2, <1>3 DEF PlainInv

(* The open turn reports something; it is open until that is delivered.    *)
LEMMA PlainReport ==
    ASSUME PlainInv, TypeOK', NEW m \in Message, NEW stage \in RunStage, NEW type \in ItemType,
           Report(m, stage, type),
           pc[m] \in {"posting", "posted"}, run[m] # "over",
           stage # "none", type # "ended", stage = "over" <=> type \in LastType,
           UNCHANGED <<scaffold, intake, disposed, closed, aborting>>
    PROVE  PlainInv'
<1> DEFINE it == [type |-> type, turn |-> m]
<1>1. TypeOK /\ LogInv /\ TurnInv /\ ShownInv
  BY DEF PlainInv
<1>2. it \in Item /\ it.type = type /\ it.turn = m
  BY DEF Item
<1>3. /\ log' = Append(log, it)
      /\ \A n \in Message : run'[n] = IF n = m THEN stage ELSE run[n]
      /\ UNCHANGED <<served, cancelled>>
  BY <1>1 DEF Report, TypeOK, ServerTypeOK
<1>4. /\ Len(log) \in Nat /\ Len(log') = Len(log) + 1 /\ DOMAIN log = 1..Len(log)
      /\ DOMAIN log' = 1..Len(log) + 1
      /\ \A i \in 1..Len(log) : log'[i] = log[i] /\ log[i].turn \in Message
      /\ log'[Len(log) + 1] = it
      /\ next \in 1..Len(log) + 1
  <2>1. log \in Seq(Item) /\ Len(log) \in Nat /\ DOMAIN log = 1..Len(log)
        /\ next \in 1..Len(log) + 1 /\ \A i \in 1..Len(log) : log[i].turn \in Message
    BY <1>1, Indices
  <2>2. log' \in Seq(Item) /\ Len(log') = Len(log) + 1
    BY <1>2, <1>3, <2>1, Appended
  <2>3. (\A i \in 1..Len(log) : log'[i] = log[i]) /\ log'[Len(log) + 1] = it
    BY <1>2, <1>3, <2>1, Appended
  <2>4. QED
    BY <2>1, <2>2, <2>3
<1> HIDE DEF it
<1>5. UNCHANGED <<pc, state, pendingQueue, sent, next, seen>>
  BY DEF scaffold, intake
<1>6. \A n \in Message : Finished(n)' <=> Finished(n)
  <2>1. \A i \in 1..next - 1 : log'[i] = log[i]
    BY <1>4
  <2>2. QED
    BY <1>5, <2>1 DEF Finished
<1>7. \A n \in Message : Open(n)' <=> Open(n)
  BY <1>5, <1>6 DEF Open
<1>8. Open(m)
  BY <1>1, FinishedIsOver DEF Open
<1>9. LogInv'
  <2>1. \A i \in 1..Len(log) : log[i].turn = m => log[i].type \notin LastType
    BY <1>1, <1>4 DEF LogInv
  <2>2. \A i \in 1..Len(log) + 1 : log'[i].type # "ended"
    BY <1>1, <1>2, <1>4 DEF LogInv
  <2>3. \A n \in Message : run'[n] # "none" => pc'[n] \in {"posting", "posted"}
    BY <1>1, <1>3, <1>5 DEF LogInv
  <2>4. \A n \in Message : pc'[n] = "posted" => run'[n] # "none"
    BY <1>1, <1>3, <1>5 DEF LogInv
  <2>5. \A i \in 1..Len(log) + 1 : run'[log'[i].turn] # "none"
    BY <1>1, <1>2, <1>3, <1>4 DEF LogInv
  <2>6. \A i \in 1..Len(log) + 1 : log'[i].type \in LastType => run'[log'[i].turn] = "over"
    BY <1>1, <1>2, <1>3, <1>4, <2>1 DEF LogInv
  <2>7. ASSUME NEW n \in Message, run'[n] = "over"
        PROVE  \E i \in 1..Len(log) + 1 : log'[i].turn = n /\ log'[i].type \in LastType
    <3>1. CASE n = m
      BY <1>2, <1>3, <1>4, <2>7, <3>1
    <3>2. CASE n # m
      <4>1. \E i \in 1..Len(log) : log[i].turn = n /\ log[i].type \in LastType
        BY <1>1, <1>3, <1>4, <2>7, <3>2 DEF LogInv
      <4>2. QED
        BY <1>4, <4>1
    <3>3. QED
      BY <3>1, <3>2
  <2>8. QED
    BY <1>4, <2>2, <2>3, <2>4, <2>5, <2>6, <2>7 DEF LogInv
<1>10. TurnInv'
  <2>1. \A k, n \in Message : Open(k)' /\ Open(n)' => k = n
    BY <1>1, <1>7 DEF TurnInv
  <2>3. ASSUME NEW i \in next..Len(log) PROVE log[i].turn = m
    <3>1. PICK n \in Message : log[i].turn = n
      BY <1>4
    <3>2. Open(n)
      BY <1>1, <3>1 DEF TurnInv
    <3>3. n = m
      BY <1>1, <1>8, <3>2 DEF TurnInv
    <3>4. QED
      BY <3>1, <3>3
  <2>4. \A i \in next..Len(log) : log[i].type \notin LastType
    BY <1>1, <1>4, <2>3 DEF LogInv
  <2>5. ASSUME NEW i \in next..Len(log) + 1
        PROVE  log'[i].turn = m /\ (log'[i].type \in LastType => i = Len(log) + 1)
    <3>1. CASE i = Len(log) + 1
      <4>1. log'[i].turn = m
        BY <1>2, <1>4, <3>1
      <4>2. QED
        BY <3>1, <4>1
    <3>2. CASE i # Len(log) + 1
      <4>1. i \in next..Len(log) /\ i \in 1..Len(log)
        BY <1>4, <3>2
      <4>2. log'[i] = log[i] /\ log[i].type \notin LastType
        BY <1>4, <2>4, <4>1
      <4>3. log'[i].turn = m
        BY <2>3, <4>1, <4>2
      <4>4. QED
        BY <4>2, <4>3
    <3>3. QED
      BY <3>1, <3>2
  <2>6. ASSUME NEW n \in Message, NEW i \in next..Len(log) + 1, log'[i].turn = n
        PROVE  Open(n)'
    BY <1>7, <1>8, <2>5, <2>6
  <2>7. QED
    BY <1>4, <1>5, <2>1, <2>5, <2>6 DEF TurnInv
<1>11. ShownInv'
  BY <1>1, <1>5, <1>7, <1>8 DEF ShownInv
<1>12. SessionInv' /\ ParkedInv' /\ MirrorInv'
  BY <1>3 DEF PlainInv, SessionInv, ParkedInv, MirrorInv, scaffold, intake
<1>13. QED
  BY <1>9, <1>10, <1>11, <1>12 DEF PlainInv

(* A step of the client moves a send that has no run, and not to "posted". *)
LEMMA LogKept ==
    ASSUME LogInv, UNCHANGED <<log, run>>,
           \A n \in Message : pc'[n] = pc[n] \/ (run[n] = "none" /\ pc'[n] # "posted")
    PROVE  LogInv'
BY DEF LogInv

(* A send leaves the queue at its head, or all of them do, or one enters.  *)
LEMMA ParkedShift ==
    ASSUME TypeOK, ParkedInv, pendingQueue # <<>>, NEW h \in Message, h = Head(pendingQueue),
           \A n \in Message : pc'[n] = IF n = h THEN "posting" ELSE pc[n],
           pendingQueue' = Tail(pendingQueue)
    PROVE  pc[h] = "queued" /\ ParkedInv'
<1>1. pendingQueue \in Seq(Message)
  BY DEF TypeOK
<1>2. /\ h = pendingQueue[1] /\ 1 \in DOMAIN pendingQueue
      /\ \A i \in DOMAIN pendingQueue' : i + 1 \in DOMAIN pendingQueue
                                          /\ pendingQueue'[i] = pendingQueue[i + 1]
  BY <1>1, QueueParts
<1>3. \A i \in DOMAIN pendingQueue' : i \in Nat /\ i # 0
  BY <1>1
<1>4. \A i \in DOMAIN pendingQueue' : pendingQueue'[i] # h
  BY <1>2, <1>3 DEF ParkedInv
<1>5. \A i \in DOMAIN pendingQueue' : pendingQueue'[i] \in Message
  BY <1>1, <1>2
<1>6. \A i \in DOMAIN pendingQueue' : pc'[pendingQueue'[i]] = "queued"
  BY <1>2, <1>4, <1>5 DEF ParkedInv
<1>7. \A i, j \in DOMAIN pendingQueue' : pendingQueue'[i] = pendingQueue'[j] => i = j
  BY <1>2, <1>3 DEF ParkedInv
<1>8. QED
  BY <1>2, <1>6, <1>7 DEF ParkedInv

LEMMA ParkedAppend ==
    ASSUME TypeOK, ParkedInv, NEW m \in Message, pc[m] # "queued",
           \A n \in Message : pc'[n] = IF n = m THEN "queued" ELSE pc[n],
           pendingQueue' = Append(pendingQueue, m)
    PROVE  ParkedInv'
<1>1. pendingQueue \in Seq(Message)
  BY DEF TypeOK
<1>2. /\ pendingQueue' \in Seq(Message) /\ Len(pendingQueue') = Len(pendingQueue) + 1
      /\ \A i \in 1..Len(pendingQueue) : pendingQueue'[i] = pendingQueue[i]
      /\ pendingQueue'[Len(pendingQueue) + 1] = m
  BY <1>1, Appended
<1>3. /\ DOMAIN pendingQueue = 1..Len(pendingQueue) /\ Len(pendingQueue) \in Nat
      /\ DOMAIN pendingQueue' = 1..Len(pendingQueue) + 1
      /\ \A i \in 1..Len(pendingQueue) : pendingQueue[i] \in Message
  BY <1>1, <1>2
<1>4. \A i \in 1..Len(pendingQueue) : pendingQueue[i] # m
  BY <1>3 DEF ParkedInv
<1>5. \A i \in DOMAIN pendingQueue' : pc'[pendingQueue'[i]] = "queued"
  BY <1>2, <1>3 DEF ParkedInv
<1>6. \A i, j \in DOMAIN pendingQueue' : pendingQueue'[i] = pendingQueue'[j] => i = j
  BY <1>2, <1>3, <1>4 DEF ParkedInv
<1>7. QED
  BY <1>5, <1>6 DEF ParkedInv

(* With nothing on its way, one message that has no run yet may be open.   *)
LEMMA TurnOpens ==
    ASSUME TypeOK, LogInv, UNCHANGED <<log, run>>, next' = Len(log) + 1,
           NEW h \in Message, run[h] = "none", pc'[h] = "posting",
           \A n \in Message : n # h => ~Open(n)',
           state'.status \in Busy
    PROVE  TurnInv' /\ ShownInv'
<1>1. \A i \in 1..Len(log) : log[i].turn # h
  BY Indices DEF LogInv
<1>2. 1..next' - 1 = 1..Len(log)
  BY Indices
<1>3. Open(h)'
  BY <1>1, <1>2 DEF Open, Finished
<1>4. next'..Len(log') = {}
  BY Indices
<1>5. QED
  BY <1>3, <1>4 DEF TurnInv, ShownInv

(* With nothing on its way, no turn may be open.                           *)
LEMMA TurnRests ==
    ASSUME TypeOK, UNCHANGED log, next' = Len(log) + 1,
           \A n \in Message : ~Open(n)'
    PROVE  TurnInv'
<1>1. next'..Len(log') = {}
  BY Indices
<1>2. QED
  BY <1>1 DEF TurnInv

(* The status shows whether a turn is open.                                *)
LEMMA BusyIsOpen ==
    ASSUME ShownInv
    PROVE  /\ state.status \in Busy => \E m \in Message : Open(m)
           /\ state.status \in Busy \cup {"idle", "ready", "failed"}
           /\ state.status \notin Busy => \A m \in Message : ~Open(m)
BY DEF ShownInv, Busy

(* Nothing but the last item of a turn changes whether a turn is open.     *)
LEMMA PlainDeliver ==
    ASSUME PlainSession, PlainInv, TypeOK', Deliver
    PROVE  PlainInv'
<1>1. TypeOK /\ SessionInv /\ ParkedInv /\ LogInv /\ TurnInv /\ ShownInv /\ MirrorInv
  BY DEF PlainInv
<1>2. next \in 1..Len(log) /\ next \notin seen /\ epoch = served /\ replayMode = FALSE
  <2>1. next \in 1..Len(log)
    BY <1>1, Indices DEF Deliver
  <2>2. QED
    BY <1>1, <2>1 DEF SessionInv
<1> DEFINE item == log[next]
<1>3. item \in Item /\ item.turn \in Message /\ item.type \in ItemType
  BY <1>1, <1>2, Indices
<1>4. /\ SyncLiveState(item) /\ epoch' = served /\ seen' = seen \cup {next}
      /\ replayMode' = FALSE
      /\ next' = next + 1 /\ UNCHANGED <<driver, server>>
  BY <1>2 DEF Deliver, Ingest
<1>5. UNCHANGED <<log, run, served, cancelled, disposed, closed, aborting, suspended, armTimer>>
  BY <1>4 DEF SyncLiveState, driver, server
<1>6. PICK m \in Message : m = item.turn
  BY <1>3
<1>7. Open(m)
  <2>1. next \in next..Len(log)
    BY <1>1, <1>2, Indices
  <2>2. QED
    BY <1>1, <1>6, <2>1 DEF TurnInv
<1>8. state \in RuntimeStates /\ state.status \in Busy /\ state.status \notin Terminal
  BY <1>1, <1>7 DEF ShownInv, Busy, Terminal, TypeOK
<1>9. \A n \in Message :
         Finished(n)' <=> Finished(n) \/ (n = m /\ item.type \in LastType)
  <2>1. 1..next' - 1 = 1..next - 1 \cup {next}
    BY <1>1, <1>2, <1>4
  <2>2. QED
    BY <1>5, <1>6, <2>1 DEF Finished
<1>10. (SessionInv')
  <2>1. seen' = 1..next' - 1
    BY <1>1, <1>2, <1>4 DEF SessionInv
  <2>2. \A n \in Message : pc'[n] # "foreign"
    <3>1. PICK s \in RuntimeStates : DrainOnCompletion(s, pc) \/ NoDrain(s, pc)
      BY <1>1, <1>3, <1>4, LiveCases
    <3>2. \/ pc' = pc
          \/ /\ Head(pendingQueue) \in Message
             /\ pc' = [pc EXCEPT ![Head(pendingQueue)] = "posting"]
      BY <1>1, <3>1, DrainCases DEF NoDrain, TypeOK
    <3>3. QED
      BY <1>1, <3>2 DEF SessionInv, TypeOK
  <2>3. QED
    BY <1>1, <1>4, <1>5, <2>1, <2>2 DEF SessionInv
<1>11. CASE item.type \notin LastType
  <2>1. item.type \in {"running", "asked", "resolved", "suspended", "resumed", "result"}
    BY <1>1, <1>2, <1>3, <1>11, Indices DEF LogInv, LastType, ItemType
  <2>2. /\ UNCHANGED <<pendingQueue, pc, sent>>
        /\ state' \in {Starting(state), PermissionRequest(state, item.turn),
                       PermissionResponse(state), state}
    BY <1>4, <2>1 DEF SyncLiveState, NoDrain
  <2>3. /\ state'.status \in Busy /\ state'.queued = state.queued
        /\ state'.accepted = state.accepted
    <3>1. item.turn \in Request
      BY <1>3, RequestAssumption
    <3>2. state.status \notin {"ready", "idle"}
      BY <1>8 DEF Busy
    <3>3. "running" \in Busy /\ "waiting_for_permission" \in Busy
      BY DEF Busy
    <3>4. QED
      BY <1>8, <2>2, <3>1, <3>2, <3>3, PermissionEffect, GuardedEffect
  <2>4. \A n \in Message : Open(n)' <=> Open(n)
    BY <1>9, <1>11, <2>2 DEF Open
  <2>5. TurnInv'
    <3>1. next'..Len(log') \subseteq next..Len(log)
      BY <1>1, <1>4, <1>5, Indices
    <3>2. QED
      BY <1>1, <1>5, <2>4, <3>1 DEF TurnInv
  <2>6. ShownInv'
    BY <1>7, <2>3, <2>4 DEF ShownInv
  <2>7. ParkedInv' /\ LogInv' /\ MirrorInv'
    <3>1. ParkedInv' /\ LogInv'
      BY <1>1, <1>5, <2>2 DEF ParkedInv, LogInv
    <3>2. QED
      BY <1>1, <1>8, <2>2, <2>3, <3>1 DEF MirrorInv
  <2>8. QED
    BY <1>10, <2>5, <2>6, <2>7 DEF PlainInv
<1>12. CASE item.type \in LastType
  <2>1. next = Len(log) /\ next' = Len(log) + 1
    <3>1. next \in next..Len(log)
      BY <1>1, <1>2, Indices
    <3>2. QED
      BY <1>1, <1>4, <1>12, <3>1 DEF TurnInv
  <2>2. \A n \in Message : pc'[n] = pc[n] => ~Open(n)'
    BY <1>1, <1>7, <1>9, <1>12 DEF Open, TurnInv
  <2>3. CASE item.type = "failed"
    <3>1. DrainOnCompletion(Error(state), pc)
      BY <1>4, <2>3 DEF SyncLiveState
    <3>2. Error(state) \in RuntimeStates /\ Error(state).status = "failed"
          /\ Error(state).accepted = state.accepted
      BY <1>8, StatusEffect
    <3>3. state' = Error(state) /\ state'.status \in Terminal
      BY <1>1, <3>1, <3>2, DrainCases, CompleteEffect DEF Terminal, TypeOK
    <3>4. UNCHANGED <<pc, pendingQueue, sent>>
      BY <1>1, <3>1, <3>2, <3>3, DrainCases DEF TypeOK
    <3>5. TurnInv'
      BY <1>1, <1>5, <2>1, <2>2, <3>4, TurnRests
    <3>6. ShownInv'
      BY <1>5, <2>1, <2>2, <2>3, <3>2, <3>3, <3>4 DEF ShownInv
    <3>7. ParkedInv' /\ LogInv' /\ MirrorInv'
      BY <1>1, <1>5, <3>2, <3>3, <3>4 DEF ParkedInv, LogInv, MirrorInv, Terminal
    <3>8. QED
      BY <1>10, <3>5, <3>6, <3>7 DEF PlainInv
  <2>4. CASE item.type = "completed"
    <3> DEFINE s == TurnCompleted(state)
    <3>1. DrainOnCompletion(s, pc)
      BY <1>4, <2>4 DEF SyncLiveState
    <3>2. /\ s \in RuntimeStates /\ s.status \notin Terminal
          /\ s.queued = pendingQueue /\ s.accepted = sent
      <4>1. /\ s \in RuntimeStates
            /\ s.status = IF state.status = "running" THEN "turn_completed" ELSE state.status
            /\ s.queued = state.queued /\ s.accepted = state.accepted
        BY <1>8, GuardedEffect
      <4>2. s.status \notin Terminal
        BY <1>8, <4>1 DEF Terminal
      <4>3. QED
        BY <1>1, <1>8, <4>1, <4>2 DEF MirrorInv
    <3> HIDE DEF s
    <3>3. /\ pc \in [Message -> Stage] /\ pendingQueue \in Seq(Message)
      BY <1>1 DEF TypeOK
    <3>4. state' = Complete(s)
      BY <1>1, <3>1, <3>2, <3>3, DrainCases
    <3>5. CASE pendingQueue = <<>>
      <4>1. UNCHANGED <<pc, pendingQueue, sent>>
        BY <1>1, <3>1, <3>2, <3>3, <3>5, DrainCases
      <4>2. state'.status = "ready" /\ state'.queued = <<>> /\ state'.accepted = sent
        BY <3>2, <3>4, <3>5, CompleteEffect
      <4>3. TurnInv'
        BY <1>1, <1>5, <2>1, <2>2, <4>1, TurnRests
      <4>4. ShownInv'
        <5>1. log'[Len(log')].type # "failed"
          BY <1>5, <2>1, <2>4
        <5>2. QED
          BY <2>2, <4>1, <4>2, <5>1 DEF ShownInv
      <4>5. ParkedInv' /\ LogInv'
        BY <1>1, <1>5, <4>1 DEF ParkedInv, LogInv
      <4>6. MirrorInv'
        BY <3>5, <4>1, <4>2 DEF MirrorInv
      <4>7. QED
        BY <1>10, <4>3, <4>4, <4>5, <4>6 DEF PlainInv
    <3>6. CASE pendingQueue # <<>>
      <4>1. PICK h \in Message : h = Head(pendingQueue)
        BY <3>3, <3>6, QueueParts
      <4>2. h # Blank
        BY <4>1 DEF PlainSession
      <4>3. /\ state'.status = "running" /\ state'.queued = Tail(pendingQueue)
            /\ state'.accepted = Append(sent, h)
        BY <3>2, <3>4, <3>6, <4>1, <4>2, CompleteEffect
      <4>4. state'.status \notin Terminal /\ state'.status \in Busy
        BY <4>3 DEF Terminal, Busy
      <4>5. /\ pc' = [pc EXCEPT ![h] = "posting"]
            /\ pendingQueue' = Tail(pendingQueue) /\ sent' = Append(sent, h)
        BY <1>1, <3>1, <3>2, <3>3, <3>6, <4>1, <4>4, DrainCases
      <4>6. \A n \in Message : pc'[n] = IF n = h THEN "posting" ELSE pc[n]
        BY <3>3, <4>5
      <4>7. pc[h] = "queued" /\ ParkedInv'
        BY <1>1, <3>6, <4>1, <4>5, <4>6, ParkedShift
      <4>8. run[h] = "none"
        BY <1>1, <4>7 DEF LogInv
      <4>9. TurnInv' /\ ShownInv'
        BY <1>1, <1>5, <2>1, <2>2, <4>4, <4>6, <4>8, TurnOpens
      <4>10. LogInv'
        BY <1>1, <1>5, <4>6, <4>8, LogKept
      <4>11. MirrorInv'
        BY <4>3, <4>5 DEF MirrorInv
      <4>12. QED
        BY <1>10, <4>7, <4>9, <4>10, <4>11 DEF PlainInv
    <3>7. QED
      BY <3>5, <3>6
  <2>5. QED
    BY <1>12, <2>3, <2>4 DEF LastType
<1>13. QED
  BY <1>11, <1>12

(* A send that moves on, before its POST or when its POST returns.         *)
LEMMA PlainMove ==
    ASSUME PlainInv, TypeOK', SessionInv',
           UNCHANGED <<state, pendingQueue, sent, log, run, next>>,
           \A n \in Message :
              \/ pc'[n] = pc[n]
              \/ pc[n] \in {"new", "resolving"} /\ pc'[n] \in {"resolving", "ensuring"}
              \/ pc[n] = "posting" /\ pc'[n] = "posted" /\ run[n] # "none"
    PROVE  PlainInv'
<1>1. TypeOK /\ ParkedInv /\ LogInv /\ TurnInv /\ ShownInv /\ MirrorInv
  BY DEF PlainInv
<1>2. \A n \in Message : Open(n)' <=> Open(n)
  BY DEF Open, Finished
<1>3. ParkedInv'
  <2>1. \A i \in DOMAIN pendingQueue : pendingQueue[i] \in Message
    BY <1>1 DEF TypeOK
  <2>2. QED
    BY <1>1, <2>1 DEF ParkedInv
<1>4. LogInv'
  BY <1>1 DEF LogInv
<1>5. TurnInv' /\ ShownInv' /\ MirrorInv'
  <2>1. TurnInv' /\ MirrorInv'
    BY <1>1, <1>2 DEF TurnInv, MirrorInv
  <2>2. \A n \in Message : pc[n] = "failed" => pc'[n] = "failed"
    OBVIOUS
  <2>3. ShownInv'
    BY <1>1, <1>2, <2>2 DEF ShownInv
  <2>4. QED
    BY <2>1, <2>3
<1>6. QED
  BY <1>3, <1>4, <1>5 DEF PlainInv

(* The call goes on: while a turn is open it is parked, else it opens one. *)
LEMMA PlainSendResume ==
    ASSUME PlainSession, PlainInv, TypeOK', NEW m \in Message, SendResume(m)
    PROVE  PlainInv'
<1>1. TypeOK /\ SessionInv /\ ParkedInv /\ LogInv /\ TurnInv /\ ShownInv /\ MirrorInv
  BY DEF PlainInv
<1>2. /\ state \in RuntimeStates /\ pc \in [Message -> Stage] /\ pc[m] = "ensuring"
      /\ run[m] = "none"
  BY <1>1 DEF SendResume, TypeOK, LogInv
<1>3. UNCHANGED <<replayMode, suspended, armTimer, epoch, seen, next, disposed, closed, aborting,
                  log, run, served, cancelled>>
  BY DEF SendResume, intake, driver, server
<1>4. ASSUME \A n \in Message : pc'[n] # "foreign"
      PROVE  SessionInv'
  BY <1>1, <1>3, <1>4 DEF SessionInv
<1>5. CASE state.status \in Busy
  <2>1. MustPark(state) /\ state.status \notin Terminal /\ state.status # "failed"
    BY <1>5 DEF Busy, MustPark, Terminal
  <2>2. /\ state' = SendMessage(state, m) /\ pc' = [pc EXCEPT ![m] = "queued"]
        /\ pendingQueue' = Append(pendingQueue, m) /\ sent' = sent
    BY <2>1 DEF SendResume
  <2>3. \A n \in Message : pc'[n] = IF n = m THEN "queued" ELSE pc[n]
    BY <1>2, <2>2
  <2>4. /\ state'.status = state.status /\ state'.queued = Append(state.queued, m)
        /\ state'.accepted = state.accepted
    BY <1>2, <1>5, <2>2, SendMessageEffect
  <2>5. \A n \in Message : Open(n)' <=> Open(n)
    BY <1>2, <1>3, <2>3 DEF Open, Finished
  <2>6. SessionInv' /\ ParkedInv' /\ LogInv'
    <3>1. SessionInv'
      BY <1>1, <1>4, <2>3 DEF SessionInv
    <3>2. ParkedInv'
      BY <1>1, <1>2, <2>2, <2>3, ParkedAppend
    <3>3. LogInv'
      BY <1>1, <1>2, <1>3, <2>3, LogKept
    <3>4. QED
      BY <3>1, <3>2, <3>3
  <2>7. TurnInv'
    BY <1>1, <1>3, <2>5 DEF TurnInv
  <2>8. ShownInv'
    <3>1. \E n \in Message : Open(n)
      BY <1>1, <1>5, BusyIsOpen
    <3>2. QED
      BY <1>5, <2>4, <2>5, <3>1 DEF ShownInv
  <2>9. MirrorInv'
    BY <1>1, <2>1, <2>2, <2>4 DEF MirrorInv
  <2>10. QED
    BY <2>6, <2>7, <2>8, <2>9 DEF PlainInv
<1>6. CASE state.status \notin Busy
  <2>1. state.status \in {"idle", "ready", "failed"} /\ \A n \in Message : ~Open(n)
    BY <1>1, <1>6, BusyIsOpen
  <2>2. next' = Len(log) + 1
    BY <1>1, <1>3, <2>1, NothingToCome
  <2> DEFINE base  == IF state.status = "failed" THEN Abort(state) ELSE state
             kept  == IF state.status = "failed" THEN <<>> ELSE pendingQueue
             stage == IF state.status = "failed" THEN Dropped ELSE pc
  <2>3. /\ base \in RuntimeStates /\ base.status \in {"idle", "ready"}
        /\ base.queued = kept /\ base.accepted = sent
    BY <1>1, <1>2, <2>1, ResetEffect DEF MirrorInv, Terminal
  <2>4. \A n \in Message : \/ stage[n] = pc[n]
                           \/ pc[n] = "queued" /\ stage[n] = "cancelled"
    <3>1. \A n \in Message : Dropped[n] = IF pc[n] = "queued" THEN "cancelled" ELSE pc[n]
      BY DEF Dropped
    <3>2. stage = pc \/ stage = Dropped
      OBVIOUS
    <3> HIDE DEF stage
    <3>3. QED
      BY <3>1, <3>2
  <2>5. stage \in [Message -> Stage] /\ (kept = <<>> \/ (kept = pendingQueue /\ stage = pc))
    BY <1>1, <1>2, DroppedFates
  <2>6. state' = SendMessage(base, m) /\ ~MustPark(base)
    BY <2>3 DEF SendResume, MustPark
  <2>7. pc' = [stage EXCEPT ![m] = "posting"] /\ pendingQueue' = kept /\ sent' = Append(sent, m)
    BY <2>6 DEF SendResume
  <2> HIDE DEF base, kept, stage
  <2>8. \A n \in Message : pc'[n] = IF n = m THEN "posting" ELSE stage[n]
    BY <2>5, <2>7
  <2>9. /\ state'.status = "running" /\ state'.queued = kept
        /\ state'.accepted = Append(sent, m)
    <3>1. base.status \notin Busy \cup Terminal
      BY <2>3 DEF Busy, Terminal
    <3>2. QED
      BY <2>3, <2>6, <3>1, SendMessageEffect, AcceptEffect
  <2>10. SessionInv' /\ LogInv'
    <3>1. SessionInv'
      BY <1>1, <1>4, <2>4, <2>8 DEF SessionInv
    <3>2. \A n \in Message : pc'[n] = pc[n] \/ (run[n] = "none" /\ pc'[n] # "posted")
      BY <1>1, <1>2, <2>4, <2>8 DEF LogInv
    <3>3. QED
      BY <1>1, <1>3, <3>1, <3>2, LogKept
  <2>11. ParkedInv'
    <3>1. CASE kept = <<>>
      BY <2>7, <3>1 DEF ParkedInv
    <3>2. CASE kept = pendingQueue /\ stage = pc
      <4>1. \A i \in DOMAIN pendingQueue : pendingQueue[i] \in Message
        BY <1>1 DEF TypeOK
      <4>2. QED
        BY <1>1, <1>2, <2>7, <2>8, <3>2, <4>1 DEF ParkedInv
    <3>3. QED
      BY <2>5, <3>1, <3>2
  <2>12. TurnInv' /\ ShownInv'
    <3>1. \A n \in Message : n # m => ~Open(n)'
      BY <1>3, <2>1, <2>4, <2>8 DEF Open, Finished
    <3>2. state'.status \in Busy
      BY <2>9 DEF Busy
    <3>3. QED
      BY <1>1, <1>2, <1>3, <2>2, <2>8, <3>1, <3>2, TurnOpens
  <2>13. MirrorInv'
    BY <2>7, <2>9 DEF MirrorInv
  <2>14. QED
    BY <2>10, <2>11, <2>12, <2>13 DEF PlainInv
<1>7. QED
  BY <1>5, <1>6

(* A POST is refused before it has an effect: its turn was the open one.   *)
LEMMA PlainPostFails ==
    ASSUME PlainSession, PlainInv, TypeOK', NEW m \in Message, PostFails(m)
    PROVE  PlainInv'
<1>1. TypeOK /\ SessionInv /\ ParkedInv /\ LogInv /\ TurnInv /\ ShownInv /\ MirrorInv
  BY DEF PlainInv
<1>2. /\ state \in RuntimeStates /\ pc[m] = "posting" /\ run[m] = "none"
  BY <1>1 DEF PostFails, TypeOK, PlainSession
<1>3. UNCHANGED <<replayMode, suspended, armTimer, sent, epoch, seen, next, disposed, closed,
                  aborting, log, run, served, cancelled>>
  BY DEF PostFails, intake, driver, server
<1>4. state' = Error(state) /\ pendingQueue' = <<>>
  BY <1>1 DEF PostFails, SessionInv
<1>5. \A n \in Message :
         pc'[n] = IF n = m THEN "failed" ELSE IF pc[n] = "queued" THEN "cancelled" ELSE pc[n]
  BY DEF PostFails, Dropped
<1>6. state'.status = "failed" /\ state'.accepted = state.accepted
  BY <1>2, <1>4, StatusEffect
<1>7. Open(m)
  BY <1>1, <1>2, FinishedIsOver DEF Open
<1>8. \A n \in Message : ~Open(n)'
  <2>1. \A n \in Message : n # m => ~Open(n)
    BY <1>1, <1>7 DEF TurnInv
  <2>2. QED
    BY <1>3, <1>5, <2>1 DEF Open, Finished
<1>9. next = Len(log) + 1
  <2>1. next \notin 1..Len(log)
    <3> SUFFICES ASSUME next \in 1..Len(log) PROVE FALSE
      OBVIOUS
    <3>1. PICK n \in Message : log[next].turn = n
      BY <1>1, Indices
    <3>2. next \in next..Len(log)
      BY <1>1, Indices
    <3>3. n = m
      BY <1>1, <1>7, <3>1, <3>2 DEF TurnInv
    <3>4. QED
      BY <1>1, <1>2, <3>1, <3>3, Indices DEF LogInv
  <2>2. QED
    BY <1>1, <2>1, Indices
<1>10. TurnInv'
  BY <1>1, <1>3, <1>8, <1>9, TurnRests
<1>11. ShownInv'
  BY <1>5, <1>6, <1>8 DEF ShownInv
<1>12. LogInv'
  BY <1>1, <1>2, <1>3, <1>5, LogKept DEF LogInv
<1>13. SessionInv' /\ ParkedInv' /\ MirrorInv'
  BY <1>1, <1>3, <1>4, <1>5, <1>6 DEF SessionInv, ParkedInv, MirrorInv, Terminal
<1>14. QED
  BY <1>10, <1>11, <1>12, <1>13 DEF PlainInv

(* The steps of a send.                                                    *)
LEMMA PlainSend ==
    ASSUME PlainSession, PlainInv, TypeOK', NEW m \in Message,
           SendCall(m) \/ Send(m) \/ PostFails(m)
    PROVE  PlainInv'
<1>1. TypeOK /\ SessionInv /\ LogInv
  BY DEF PlainInv
<1>2. pc \in [Message -> Stage]
  BY <1>1 DEF TypeOK
<1>3. CASE SendCall(m)
  <2>1. /\ UNCHANGED <<state, pendingQueue, sent, suspended, intake, driver, server>>
        /\ replayMode' = FALSE /\ armTimer' = FALSE
    BY <1>1, <1>3 DEF SendCall, ArmReplay, NoDrain, SessionInv
  <2>2. pc[m] = "new" /\ \E st \in {"resolving", "ensuring"} : pc' = [pc EXCEPT ![m] = st]
    BY <1>1, <1>3 DEF SendCall, ArmReplay, NoDrain, SessionInv
  <2>3. \A n \in Message : pc'[n] = pc[n] \/
           (pc[n] \in {"new", "resolving"} /\ pc'[n] \in {"resolving", "ensuring"})
    BY <1>2, <2>2
  <2>4. SessionInv'
    BY <1>1, <2>1, <2>3 DEF SessionInv, intake, driver, server
  <2>5. QED
    BY <2>1, <2>3, <2>4, PlainMove DEF intake, server
<1>4. CASE ResolveSession(m)
  <2>1. \A n \in Message : pc'[n] = pc[n] \/
           (pc[n] \in {"new", "resolving"} /\ pc'[n] \in {"resolving", "ensuring"})
    BY <1>2, <1>4 DEF ResolveSession
  <2>2. SessionInv'
    BY <1>1, <1>4, <2>1 DEF ResolveSession, SessionInv, driver, server
  <2>3. QED
    BY <1>4, <2>1, <2>2, PlainMove DEF ResolveSession, server
<1>5. CASE PostArrives(m)
  <2>1. /\ "running" \in RunStage /\ "running" \in ItemType
        /\ "running" \notin LastType
    BY DEF RunStage, ItemType, LastType
  <2>2. Report(m, "running", "running") /\ pc[m] = "posting" /\ run[m] = "none"
        /\ UNCHANGED <<scaffold, intake, driver>>
    BY <1>5 DEF PostArrives, RunStarts
  <2>3. QED
    BY <2>1, <2>2, PlainReport DEF driver
<1>6. CASE PostReturns(m)
  <2>1. \A n \in Message : pc'[n] = pc[n] \/
           (pc[n] = "posting" /\ pc'[n] = "posted" /\ run[n] # "none")
    BY <1>2, <1>6 DEF PostReturns
  <2>2. SessionInv'
    BY <1>1, <1>6, <2>1 DEF PostReturns, SessionInv, intake, server
  <2>3. QED
    BY <1>6, <2>1, <2>2, PlainMove DEF PostReturns, intake, server
<1>7. QED
  BY <1>3, <1>4, <1>5, <1>6, PlainSendResume, PlainPostFails DEF Send

(* Replies, tools, and what a run does by itself.                          *)
LEMMA PlainRuns ==
    ASSUME PlainSession, PlainInv, TypeOK', NEW m \in Message,
           Reply(m) \/ ToolSubmits(m) \/ Foreign(m) \/ Runs(m)
    PROVE  PlainInv'
<1>1. TypeOK /\ SessionInv /\ LogInv /\ TurnInv /\ ShownInv /\ MirrorInv /\ ParkedInv
  BY DEF PlainInv
<1>2. /\ {"running", "asking", "suspended", "over"} \subseteq RunStage
      /\ {"asked", "resolved", "suspended", "resumed", "result", "completed", "failed"}
            \subseteq ItemType
      /\ {"asked", "resolved", "suspended", "resumed", "result"} \cap LastType = {}
      /\ {"completed", "failed"} \subseteq LastType
  BY DEF RunStage, ItemType, LastType
<1>3. CASE Respond(m)
  BY <1>3, PlainStutter DEF Respond
<1>4. CASE ReplyArrives(m)
  <2>1. CASE run[m] = "asking"
    <3>1. Report(m, "running", "resolved") /\ pc[m] \in {"posting", "posted"}
      BY <1>1, <1>4, <2>1 DEF ReplyArrives, RunAnswered, LogInv
    <3>2. QED
      BY <1>2, <1>4, <2>1, <3>1, PlainReport DEF ReplyArrives
  <2>2. CASE run[m] # "asking"
    BY <1>4, <2>2, PlainStutter DEF ReplyArrives
  <2>3. QED
    BY <2>1, <2>2
<1>5. CASE ReplyReturns(m)
  <2>1. /\ UNCHANGED <<pendingQueue, replayMode, armTimer, pc, sent, epoch, seen, next,
                       disposed, closed, aborting, log, run, served, cancelled>>
        /\ \/ state' = state
           \/ state.status = "waiting_for_permission" /\ state' = PermissionResponse(state)
    BY <1>5 DEF ReplyReturns, intake, server
  <2>2. /\ state'.queued = state.queued /\ state'.accepted = state.accepted
        /\ \/ state'.status = state.status
           \/ state.status \in Busy /\ state'.status \in Busy
    <3>1. "running" \in Busy /\ "waiting_for_permission" \in Busy
      BY DEF Busy
    <3>2. PermissionResponse(state).queued = state.queued
          /\ PermissionResponse(state).accepted = state.accepted
          /\ PermissionResponse(state).status = "running"
      <4>1. m \in Request /\ state \in RuntimeStates
        BY <1>1, RequestAssumption DEF TypeOK
      <4>2. QED
        BY <4>1, PermissionEffect
    <3>3. QED
      BY <2>1, <3>1, <3>2
  <2>3. \A n \in Message : Open(n)' <=> Open(n)
    BY <2>1 DEF Open, Finished
  <2>4. SessionInv' /\ ParkedInv' /\ LogInv'
    BY <1>1, <2>1 DEF SessionInv, ParkedInv, LogInv
  <2>5. TurnInv'
    BY <1>1, <2>1, <2>3 DEF TurnInv
  <2>6. MirrorInv'
    <3>1. Busy \cap Terminal = {}
      BY DEF Busy, Terminal
    <3>2. QED
      BY <1>1, <2>1, <2>2, <3>1 DEF MirrorInv
  <2>7. ShownInv'
    <3>1. CASE state'.status = state.status
      BY <1>1, <2>1, <2>3, <3>1 DEF ShownInv
    <3>2. CASE state.status \in Busy /\ state'.status \in Busy
      BY <1>1, <2>3, <3>2, BusyIsOpen DEF ShownInv
    <3>3. QED
      BY <2>2, <3>1, <3>2
  <2>8. QED
    BY <2>4, <2>5, <2>6, <2>7 DEF PlainInv
<1>6. CASE ToolSubmits(m)
  <2>1. PICK type \in {"resumed", "result"} :
           Report(m, "running", type) /\ run[m] = "suspended"
    BY <1>6 DEF ToolSubmits, RunResumes
  <2>2. pc[m] \in {"posting", "posted"}
    BY <1>1, <2>1 DEF LogInv
  <2>3. UNCHANGED <<scaffold, intake, driver>>
    BY <1>6 DEF ToolSubmits
  <2>4. QED
    BY <1>2, <2>1, <2>2, <2>3, PlainReport DEF driver
<1>7. ~Foreign(m)
  BY DEF Foreign, PlainSession
<1>8. CASE Runs(m)
  <2>1. ~RunCancelled(m)
    BY <1>1 DEF RunCancelled, SessionInv
  <2>2. "ends" \notin Env
    BY DEF PlainSession
  <2>3. \E stage \in {"asking", "suspended", "over"},
           type \in {"asked", "suspended", "completed", "failed"} :
             /\ Report(m, stage, type) /\ run[m] = "running"
             /\ stage = "over" <=> type \in LastType
    BY <1>2, <1>8, <2>1, <2>2 DEF Runs, Ends, Works, RunEnds, RunAsks, RunSuspends
  <2>4. pc[m] \in {"posting", "posted"}
    BY <1>1, <2>3 DEF LogInv
  <2>5. UNCHANGED <<scaffold, intake, driver>>
    BY <1>8 DEF Runs
  <2>6. QED
    BY <1>2, <2>3, <2>4, <2>5, PlainReport DEF driver
<1>9. QED
  BY <1>3, <1>4, <1>5, <1>6, <1>7, <1>8 DEF Reply

(* The rest of the steps: the first preflight, items that come again, and  *)
(* the arming of a runtime that is not replaying.                          *)
LEMMA PlainOther ==
    ASSUME PlainSession, PlainInv, TypeOK',
           \/ Reconnect \/ Preflight \/ Armed
           \/ AbortCall \/ AbortResume \/ AbortReturns \/ DisposeCall \/ DisposeReturns
           \/ \E i \in DOMAIN log : Redeliver(i)
           \/ UNCHANGED vars
    PROVE  PlainInv'
<1>1. TypeOK /\ SessionInv /\ LogInv /\ TurnInv /\ ShownInv /\ MirrorInv /\ ParkedInv
  BY DEF PlainInv
<1>2. ~Reconnect
  BY <1>1 DEF Reconnect, Restart, PlainSession, SessionInv
<1>3. ~AbortCall /\ ~AbortResume /\ ~AbortReturns /\ ~DisposeCall /\ ~DisposeReturns
  <2>1. NoRun # Calling /\ NoRun \notin Message
    BY MessageAssumption DEF NoRun, Calling
  <2>2. QED
    BY <1>1, <2>1 DEF AbortCall, AbortResume, AbortReturns, DisposeCall, DisposeReturns,
                      PlainSession, SessionInv
<1>4. CASE Armed
  <2>1. FALSE
    BY <1>1, <1>4 DEF Armed, ArmedByHost, ArmedByTimer, SessionInv
  <2>2. QED
    BY <2>1
<1>5. ASSUME NEW i \in DOMAIN log, Redeliver(i) PROVE PlainInv'
  <2>1. i \in seen /\ epoch = served
    <3>1. i \in 1..next - 1
      BY <1>1, <1>5, Indices DEF Redeliver
    <3>2. QED
      BY <1>1, <3>1 DEF SessionInv
  <2>2. UNCHANGED <<scaffold, epoch, seen>>
    BY <1>5, <2>1 DEF Redeliver, Ingest
  <2>3. QED
    BY <1>5, <2>2, PlainStutter DEF Redeliver, intake, driver
<1>6. CASE Preflight
  <2>1. state.status = "idle" /\ state' = PreflightOk(state)
    BY <1>6 DEF Preflight, PlainSession
  <2>2. UNCHANGED <<pendingQueue, replayMode, armTimer, pc, sent, epoch, seen, next,
                    disposed, closed, aborting, log, run, served, cancelled>>
    BY <1>6 DEF Preflight, intake, driver, server
  <2>3. /\ state'.status = "ready" /\ state'.queued = state.queued
        /\ state'.accepted = state.accepted
    BY <1>1, <2>1, StatusEffect DEF TypeOK
  <2>4. \A n \in Message : ~Open(n) /\ ~Open(n)'
    <3>1. \A n \in Message : ~Open(n)
      BY <1>1, <2>1 DEF ShownInv, Busy
    <3>2. QED
      BY <2>2, <3>1 DEF Open, Finished
  <2>5. log = <<>>
    BY <1>1, <2>1, <2>4 DEF ShownInv
  <2>6. SessionInv' /\ ParkedInv' /\ LogInv'
    BY <1>1, <2>2 DEF SessionInv, ParkedInv, LogInv
  <2>7. TurnInv' /\ ShownInv'
    <3>1. TurnInv'
      BY <1>1, <2>2, <2>4, NothingToCome, TurnRests
    <3>2. ShownInv'
      BY <2>2, <2>3, <2>4, <2>5 DEF ShownInv
    <3>3. QED
      BY <3>1, <3>2
  <2>8. MirrorInv'
    BY <1>1, <2>1, <2>2, <2>3 DEF MirrorInv, Terminal
  <2>9. QED
    BY <2>6, <2>7, <2>8 DEF PlainInv
<1>7. CASE UNCHANGED vars
  BY <1>7, PlainStutter DEF vars, driver
<1>8. QED
  BY <1>2, <1>3, <1>4, <1>5, <1>6, <1>7

LEMMA PlainStep ==
    ASSUME PlainSession, PlainInv, [Next]_vars
    PROVE  PlainInv'
<1>1. TypeOK'
  BY TypeStep DEF PlainInv
<1>2. QED
  BY <1>1, PlainDeliver, PlainSend, PlainRuns, PlainOther DEF Next

(* What the invariant says of a plain session.                             *)
LEMMA PlainConsequences ==
    ASSUME PlainInv
    PROVE  SingleFlight /\ QueueMirrorsReducer /\ StateIsTrue
<1>1. TypeOK /\ LogInv /\ TurnInv /\ ShownInv /\ MirrorInv
  BY DEF PlainInv
<1>2. ASSUME NEW m \in Message, InFlight(m) PROVE Open(m)
  BY <1>1, <1>2, FinishedIsOver DEF InFlight, Open
<1>3. SingleFlight
  BY <1>1, <1>2 DEF SingleFlight, TurnInv
<1>4. QueueMirrorsReducer /\ AcceptedIsSent
  BY <1>1 DEF QueueMirrorsReducer, AcceptedIsSent, MirrorInv
<1>5. ASSUME Quiet, log # <<>>, NEW m \in Message PROVE ~Open(m)
  <2> SUFFICES ASSUME Open(m) PROVE FALSE
    OBVIOUS
  <2>1. pc[m] = "posted"
    BY <1>5 DEF Open, Quiet
  <2>2. run[m] = "over"
    BY <1>1, <1>5, <2>1 DEF LogInv, Quiet
  <2>3. PICK i \in DOMAIN log : log[i].turn = m /\ log[i].type \in LastType
    BY <1>1, <2>2 DEF LogInv
  <2>4. i \in 1..next - 1
    BY <1>1, <1>5, Indices DEF Quiet
  <2>5. QED
    BY <2>3, <2>4 DEF Open, Finished
<1>6. StatusSettles
  BY <1>1, <1>5 DEF StatusSettles, ShownInv
<1>7. QED
  BY <1>3, <1>4, <1>6 DEF StateIsTrue

LEMMA PlainAlways ==
    ASSUME PlainSession
    PROVE  Spec => []PlainInv
<1>1. Init => PlainInv
  BY PlainInit
<1>2. PlainInv /\ [Next]_vars => PlainInv'
  BY PlainStep
<1>3. QED
  BY <1>1, <1>2, PTL DEF Spec

(* In a plain session at most one message of the client is being posted or *)
(* run, however replies, tools, items delivered again and the host's       *)
(* arming interleave with the stream, for every number of messages         *)
(* (sendMessage and drainOnCompletion of runtime-scaffold.ts).             *)
THEOREM PlainSingleFlight ==
    ASSUME PlainSession
    PROVE  Spec => []SingleFlight
BY PlainAlways, PlainConsequences, PTL

(* Its two queues, the scaffold's and the reducer's, agree (pendingQueue   *)
(* of runtime-scaffold.ts and queuedMessages of state.ts).                 *)
THEOREM PlainMirror ==
    ASSUME PlainSession
    PROVE  Spec => []QueueMirrorsReducer
BY PlainAlways, PlainConsequences, PTL

(* Its accepted messages are those posted, and when all is delivered its   *)
(* status shows how the last turn ended (syncStateFromTimelineItem of      *)
(* runtime-scaffold.ts).                                                   *)
THEOREM PlainTruth ==
    ASSUME PlainSession
    PROVE  Spec => []StateIsTrue
BY PlainAlways, PlainConsequences, PTL

-----------------------------------------------------------------------------
(* Calls of client-side tools.                                             *)

(* All the runs of the session are the client's own.                       *)
OneClient == "foreign" \notin Env

(* And nobody sends or arms the runtime while its history is served again. *)
Patient == OneClient /\ Env \cap {"midway", "stalls"} = {}

Suspends(i, m) == log[i].type = "suspended" /\ log[i].turn = m
Resumes(i, m) == log[i].type \in {"resumed", "result"} /\ log[i].turn = m

(* A turn suspends once, and resumes after that.                           *)
CallLogInv ==
    \A m \in Message :
       /\ \A i, j \in DOMAIN log : Suspends(i, m) /\ Suspends(j, m) => i = j
       /\ \A i \in DOMAIN log : Resumes(i, m) => \E j \in 1..i - 1 : Suspends(j, m)
       /\ run[m] = "suspended" => \E i \in DOMAIN log : Suspends(i, m)

(* The keys are those of the items delivered under the epoch of the server;*)
(* another epoch is known only before the first of them, and put back only *)
(* by a first send, before there is a log.                                 *)
KeysInv ==
    /\ epoch <= served
    /\ epoch = served => seen = 1..next - 1
    /\ epoch # served => next = 1
    /\ \A m \in Message : run[m] # "none" => pc[m] \notin {"new", "foreign"}
    /\ (\A m \in Message : pc[m] \in {"new", "foreign"}) => log = <<>>
    /\ \A m \in Message : pc[m] = "resolving" => next = 1

(* A suspended call is held while it is open, and was handed out at most   *)
(* once for every epoch in which it came and is not held.                  *)
CallInv ==
    /\ ~replayMode => suspended = {}
    /\ \A m \in suspended :
          IF epoch = served
          THEN /\ \E i \in 1..next - 1 : Suspends(i, m)
               /\ \A i \in 1..next - 1 : ~Resumes(i, m)
          ELSE fired[m] + 1 < Epochs
    /\ \A m \in Message :
          /\ fired[m] <= Epochs
          /\ fired[m] = Epochs =>
                /\ m \notin suspended
                /\ epoch = served
                /\ \E i \in 1..next - 1 : Suspends(i, m)

HandOutInv == TypeOK /\ CallLogInv /\ KeysInv /\ CallInv

(* Counting calls.                                                         *)
LEMMA FiredEffect ==
    ASSUME TypeOK, NEW ms, NEW m \in Message
    PROVE  /\ fired[m] \in Nat /\ Fired(ms)[m] \in Nat
           /\ Fired(ms)[m] <= fired[m] + 1
           /\ fired[m] <= Fired(ms)[m]
           /\ m \notin ms => Fired(ms)[m] = fired[m]
<1>1. fired[m] \in 0..3
  BY DEF TypeOK
<1>2. Fired(ms)[m] \in {fired[m], fired[m] + 1} /\ (m \notin ms => Fired(ms)[m] = fired[m])
  BY DEF Fired
<1>3. QED
  BY <1>1, <1>2

LEMMA EpochsType ==
    ASSUME TypeOK
    PROVE  Epochs \in Nat /\ served \in Nat /\ MaxEpoch \in Nat
BY EpochAssumption DEF Epochs, TypeOK, ServerTypeOK

LEMMA CallsInit == OneClient /\ Init => HandOutInv
<1> SUFFICES ASSUME OneClient, Init PROVE HandOutInv
  OBVIOUS
<1>1. /\ log = <<>> /\ DOMAIN log = {} /\ next = 1 /\ cancelled = {}
      /\ served = (IF "pinned" \in Env THEN 0 ELSE 1)
      /\ run = [m \in Message |-> "none"] /\ pc = [m \in Message |-> "new"]
  BY DEF Init, ServerInit
<1>2. TypeOK
  BY TypeInit
<1>3. CallLogInv
  BY <1>1 DEF CallLogInv
<1>4. KeysInv
  BY <1>1 DEF Init, KeysInv
<1>5. CallInv
  <2>1. Epochs = 1 /\ suspended = {} /\ \A m \in Message : fired[m] = 0
    BY <1>1 DEF Init, Epochs
  <2>2. QED
    BY <2>1 DEF CallInv
<1>6. QED
  BY <1>2, <1>3, <1>4, <1>5 DEF HandOutInv

(* A step of the host or of a send that no call depends on.                *)
LEMMA CallsKept ==
    ASSUME HandOutInv, TypeOK',
           UNCHANGED <<epoch, seen, next, replayMode, suspended, fired, log, run, served>>,
           \A n \in Message : pc'[n] = pc[n] \/ pc'[n] \notin {"new", "foreign", "resolving"}
    PROVE  HandOutInv'
<1>1. CallLogInv'
  BY DEF HandOutInv, CallLogInv, Suspends, Resumes
<1>2. KeysInv'
  BY DEF HandOutInv, KeysInv
<1>3. CallInv'
  BY DEF HandOutInv, CallInv, Suspends, Resumes, Epochs
<1>4. QED
  BY <1>1, <1>2, <1>3 DEF HandOutInv

(* A run reports something to the log.                                     *)
LEMMA CallsReport ==
    ASSUME HandOutInv, TypeOK', NEW m \in Message, NEW stage \in RunStage, NEW type \in ItemType,
           Report(m, stage, type), pc[m] \notin {"new", "foreign"},
           type = "suspended" => ~Reported("suspended", m),
           type \in {"resumed", "result"} => run[m] = "suspended",
           stage = "suspended" => type = "suspended",
           UNCHANGED <<scaffold, intake>>
    PROVE  HandOutInv'
<1> DEFINE it == [type |-> type, turn |-> m]
<1>1. TypeOK /\ CallLogInv /\ KeysInv /\ CallInv
  BY DEF HandOutInv
<1>2. it \in Item /\ it.type = type /\ it.turn = m
  BY DEF Item
<1>3. /\ log' = Append(log, it)
      /\ \A n \in Message : run'[n] = IF n = m THEN stage ELSE run[n]
      /\ UNCHANGED <<served, cancelled>>
  BY <1>1 DEF Report, TypeOK, ServerTypeOK
<1>4. /\ Len(log) \in Nat /\ DOMAIN log = 1..Len(log) /\ DOMAIN log' = 1..Len(log) + 1
      /\ \A i \in 1..Len(log) : log'[i] = log[i]
      /\ log'[Len(log) + 1] = it
      /\ next \in 1..Len(log) + 1
  <2>1. log \in Seq(Item) /\ Len(log) \in Nat /\ DOMAIN log = 1..Len(log)
        /\ next \in 1..Len(log) + 1
    BY <1>1, Indices
  <2>2. log' \in Seq(Item) /\ Len(log') = Len(log) + 1
    BY <1>2, <1>3, <2>1, Appended
  <2>3. (\A i \in 1..Len(log) : log'[i] = log[i]) /\ log'[Len(log) + 1] = it
    BY <1>2, <1>3, <2>1, Appended
  <2>4. QED
    BY <2>1, <2>2, <2>3
<1> HIDE DEF it
<1>5. type = "suspended" => \A i \in 1..Len(log) : ~Suspends(i, m)
  <2> SUFFICES ASSUME NEW i \in 1..Len(log), Suspends(i, m), type = "suspended" PROVE FALSE
    OBVIOUS
  <2>1. log[i] \in Item
    BY <1>1, Indices
  <2>2. log[i] = [type |-> "suspended", turn |-> m]
    BY <2>1 DEF Suspends, Item
  <2>3. QED
    BY <1>4, <2>2 DEF Reported
<1>6. \A n \in Message : \A i \in 1..Len(log) :
         (Suspends(i, n)' <=> Suspends(i, n)) /\ (Resumes(i, n)' <=> Resumes(i, n))
  BY <1>4 DEF Suspends, Resumes
<1>7. PICK k \in Nat : k = Len(log) + 1
  BY <1>4
<1>8. \A n \in Message :
         /\ Suspends(k, n)' <=> (type = "suspended" /\ n = m)
         /\ Resumes(k, n)' <=> (type \in {"resumed", "result"} /\ n = m)
  BY <1>2, <1>4, <1>7 DEF Suspends, Resumes
<1>9. UNCHANGED <<pc, replayMode, suspended, fired, epoch, seen, next>>
  BY DEF scaffold, intake
<1>10. ASSUME NEW n \in Message, NEW i \in 1..k, NEW j \in 1..k,
              Suspends(i, n)', Suspends(j, n)'
       PROVE  i = j
  <2>1. CASE i = k \/ j = k
    BY <1>4, <1>5, <1>6, <1>7, <1>8, <1>10, <2>1
  <2>2. CASE i # k /\ j # k
    BY <1>1, <1>4, <1>6, <1>7, <1>10, <2>2 DEF CallLogInv
  <2>3. QED
    BY <2>1, <2>2
<1>11. ASSUME NEW n \in Message, NEW i \in 1..k, Resumes(i, n)'
       PROVE  \E j \in 1..i - 1 : Suspends(j, n)'
  <2>1. CASE i = k
    <3>1. n = m /\ run[m] = "suspended"
      BY <1>8, <1>11, <2>1
    <3>2. PICK j \in 1..Len(log) : Suspends(j, n)
      BY <1>1, <1>4, <3>1 DEF CallLogInv
    <3>3. Suspends(j, n)' /\ j \in 1..i - 1
      BY <1>4, <1>6, <1>7, <2>1, <3>2
    <3>4. QED
      BY <3>3
  <2>2. CASE i # k
    <3>1. i \in 1..Len(log) /\ Resumes(i, n)
      BY <1>4, <1>6, <1>7, <1>11, <2>2
    <3>2. PICK j \in 1..i - 1 : Suspends(j, n)
      BY <1>1, <1>4, <3>1 DEF CallLogInv
    <3>3. j \in 1..Len(log)
      BY <1>4, <3>1
    <3>4. QED
      BY <1>6, <3>2, <3>3
  <2>3. QED
    BY <2>1, <2>2
<1>12. ASSUME NEW n \in Message, run'[n] = "suspended"
       PROVE  \E i \in 1..k : Suspends(i, n)'
  <2>1. CASE n = m
    <3>1. type = "suspended"
      BY <1>3, <1>12, <2>1
    <3>2. Suspends(k, n)' /\ k \in 1..k
      BY <1>4, <1>7, <1>8, <2>1, <3>1
    <3>3. QED
      BY <3>2
  <2>2. CASE n # m
    <3>1. PICK i \in 1..Len(log) : Suspends(i, n)
      BY <1>1, <1>3, <1>4, <1>12, <2>2 DEF CallLogInv
    <3>2. i \in 1..k
      BY <1>4, <1>7
    <3>3. QED
      BY <1>6, <3>1, <3>2
  <2>3. QED
    BY <2>1, <2>2
<1>13. CallLogInv'
  <2>1. DOMAIN log' = 1..k
    BY <1>4, <1>7
  <2>2. QED
    BY <1>10, <1>11, <1>12, <2>1 DEF CallLogInv
<1>14. KeysInv'
  <2>1. \A n \in Message : run'[n] # "none" => pc[n] \notin {"new", "foreign"}
    BY <1>1, <1>3 DEF KeysInv
  <2>2. QED
    BY <1>1, <1>3, <1>9, <2>1 DEF KeysInv
<1>15. CallInv'
  <2>1. Epochs' = Epochs
    BY <1>3 DEF Epochs
  <2>2. 1..next - 1 \subseteq 1..Len(log)
    BY <1>4
  <2>3. \A n \in Message : \A i \in 1..next - 1 :
         (Suspends(i, n)' <=> Suspends(i, n)) /\ (Resumes(i, n)' <=> Resumes(i, n))
    BY <1>6, <2>2
  <2>4. suspended \subseteq Message
    BY <1>1 DEF TypeOK
  <2>5. ASSUME NEW n \in suspended
        PROVE  IF epoch' = served'
               THEN /\ \E i \in 1..next' - 1 : Suspends(i, n)'
                    /\ \A i \in 1..next' - 1 : ~Resumes(i, n)'
               ELSE fired'[n] + 1 < Epochs'
    BY <1>1, <1>3, <1>9, <2>1, <2>3, <2>4 DEF CallInv
  <2>6. ASSUME NEW n \in Message
        PROVE  /\ fired'[n] <= Epochs'
               /\ fired'[n] = Epochs' =>
                     /\ n \notin suspended'
                     /\ epoch' = served'
                     /\ \E i \in 1..next' - 1 : Suspends(i, n)'
    BY <1>1, <1>3, <1>9, <2>1, <2>3 DEF CallInv
  <2>7. QED
    BY <1>1, <1>9, <2>5, <2>6 DEF CallInv
<1>16. QED
  BY <1>13, <1>14, <1>15 DEF HandOutInv

(* An item is delivered: in a replay it is reconciled, else it is acted on.*)
LEMMA CallsDeliver ==
    ASSUME HandOutInv, TypeOK', Deliver
    PROVE  /\ HandOutInv'
           /\ \A m \in Message : fired'[m] # fired[m] =>
                 \A i \in 1..next - 1 : ~Resumes(i, m)
<1>1. TypeOK /\ CallLogInv /\ KeysInv /\ CallInv
  BY DEF HandOutInv
<1>2. next \in 1..Len(log) /\ Len(log) \in Nat /\ DOMAIN log = 1..Len(log)
  BY <1>1, Indices DEF Deliver
<1> DEFINE rotates == epoch # served
           fold    == replayMode \/ rotates
           keys    == IF rotates THEN {} ELSE seen
           held    == IF rotates THEN {} ELSE suspended
<1>3. keys = 1..next - 1 /\ next \notin keys
  BY <1>1, <1>2 DEF KeysInv
<1>4. /\ epoch' = served /\ seen' = keys \cup {next} /\ replayMode' = fold
      /\ next' = next + 1 /\ UNCHANGED <<driver, server>>
      /\ IF fold THEN SyncReplayState(log[next], held) ELSE SyncLiveState(log[next])
  BY <1>3 DEF Deliver, Ingest
<1>5. UNCHANGED <<log, run, served, cancelled>> /\ Epochs' = Epochs
  BY <1>4 DEF server, Epochs
<1>6. PICK k \in Nat : k = next
  BY <1>2
<1>7. PICK t \in Message : t = log[k].turn
  BY <1>1, <1>2, <1>6, Indices
<1>8. \A n \in Message : \A i \in 1..Len(log) :
         (Suspends(i, n)' <=> Suspends(i, n)) /\ (Resumes(i, n)' <=> Resumes(i, n))
  BY <1>5 DEF Suspends, Resumes
<1>9. next' - 1 = k /\ 1..next' - 1 = 1..k /\ 1..k = 1..next - 1 \cup {k} /\ k \in 1..Len(log)
      /\ 1..next - 1 \subseteq 1..Len(log)
  BY <1>2, <1>4, <1>6
<1>10. \A n \in Message : Suspends(k, n) =>
          (\A i \in 1..next - 1 : ~Suspends(i, n)) /\ (\A i \in 1..k : ~Resumes(i, n))
  <2> SUFFICES ASSUME NEW n \in Message, Suspends(k, n)
               PROVE  (\A i \in 1..next - 1 : ~Suspends(i, n)) /\ (\A i \in 1..k : ~Resumes(i, n))
    OBVIOUS
  <2>1. \A i \in 1..next - 1 : ~Suspends(i, n)
    <3>1. \A i \in 1..next - 1 : i # k /\ i \in DOMAIN log
      BY <1>2, <1>6
    <3>2. QED
      BY <1>1, <1>2, <1>6, <3>1 DEF CallLogInv
  <2>2. ASSUME NEW i \in 1..k, Resumes(i, n) PROVE FALSE
    <3>1. PICK j \in 1..i - 1 : Suspends(j, n)
      BY <1>1, <1>2, <1>6, <2>2 DEF CallLogInv
    <3>2. j \in 1..next - 1
      BY <1>2, <1>6
    <3>3. QED
      BY <2>1, <3>1, <3>2
  <2>3. QED
    BY <2>1, <2>2
<1>11. CallLogInv'
  BY <1>1, <1>2, <1>5, <1>8 DEF CallLogInv
<1>12. KeysInv'
  <2>1. seen' = 1..next' - 1
    BY <1>3, <1>4, <1>6, <1>9
  <2>2. \A n \in Message : pc[n] \notin {"resolving", "ensuring"}
    BY DEF Deliver, NextTask
  <2>3. \A n \in Message : pc'[n] = pc[n] \/ pc'[n] = "posting"
    <3>1. pc \in [Message -> Stage] /\ log[next] \in Item
      BY <1>1, <1>2, Indices DEF TypeOK
    <3>2. CASE fold
      BY <1>4, <3>2 DEF SyncReplayState
    <3>3. CASE ~fold
      <4>1. PICK s \in RuntimeStates : DrainOnCompletion(s, pc) \/ NoDrain(s, pc)
        BY <1>1, <1>4, <3>1, <3>3, LiveCases
      <4>2. \/ pc' = pc
            \/ /\ Head(pendingQueue) \in Message
               /\ pc' = [pc EXCEPT ![Head(pendingQueue)] = "posting"]
        BY <1>1, <3>1, <4>1, DrainCases DEF NoDrain
      <4>3. QED
        BY <3>1, <4>2
    <3>4. QED
      BY <3>2, <3>3
  <2>4. QED
    BY <1>1, <1>4, <1>5, <2>1, <2>2, <2>3, EpochsType DEF KeysInv
<1>13. suspended \subseteq Message /\ held \subseteq Message
       /\ (\A n \in Message : fired[n] \in Nat) /\ Epochs \in Nat
  BY <1>1, FiredEffect, EpochsType DEF TypeOK
<1>14. \A n \in held : (\E i \in 1..next - 1 : Suspends(i, n)) /\ (\A i \in 1..next - 1 : ~Resumes(i, n))
  BY <1>1 DEF CallInv
<1> HIDE DEF rotates, keys, held, fold
<1>15. CASE fold
  <2>1. /\ UNCHANGED fired
        /\ suspended' = CASE log[k].type = "suspended" -> held \cup {t}
                          [] log[k].type \in {"resumed", "result"} -> held \ {t}
                          [] OTHER -> held
    BY <1>4, <1>6, <1>7, <1>15 DEF SyncReplayState
  <2>2. /\ replayMode' = TRUE /\ epoch' = served'
        /\ \A n \in suspended' : n \in held \/ (n = t /\ Suspends(k, n))
        /\ \A n \in suspended' : Resumes(k, n) => FALSE
    <3>1. \A n \in suspended' : n \in held \/ (n = t /\ log[k].type = "suspended")
      BY <2>1
    <3>2. \A n \in suspended' : n = t => log[k].type \notin {"resumed", "result"}
      BY <2>1
    <3>3. QED
      BY <1>4, <1>5, <1>7, <1>15, <3>1, <3>2 DEF Suspends, Resumes
  <2>3. ASSUME NEW n \in suspended'
        PROVE  (\E i \in 1..next' - 1 : Suspends(i, n)') /\ (\A i \in 1..next' - 1 : ~Resumes(i, n)')
    <3>1. n \in Message
      BY <1>13, <2>2
    <3>2. CASE n \in held
      <4>1. \A i \in 1..k : ~Resumes(i, n)
        BY <1>6, <1>9, <1>14, <2>2, <3>2
      <4>2. \E i \in 1..k : Suspends(i, n)
        BY <1>9, <1>14, <3>2
      <4>3. QED
        BY <1>8, <1>9, <3>1, <4>1, <4>2
    <3>3. CASE Suspends(k, n)
      BY <1>2, <1>6, <1>8, <1>9, <1>10, <3>1, <3>3
    <3>4. QED
      BY <2>2, <3>2, <3>3
  <2>4. ASSUME NEW n \in Message, fired'[n] = Epochs'
        PROVE  n \notin suspended' /\ \E i \in 1..next' - 1 : Suspends(i, n)'
    <3>1. fired[n] = Epochs
      BY <1>5, <2>1, <2>4
    <3>2. n \notin suspended /\ epoch = served /\ \E i \in 1..next - 1 : Suspends(i, n)
      BY <1>1, <3>1 DEF CallInv
    <3>3. n \notin held /\ ~Suspends(k, n)
      BY <1>10, <3>2 DEF held
    <3>4. n \notin suspended'
      BY <2>2, <3>3
    <3>5. \E i \in 1..k : Suspends(i, n)
      BY <1>9, <3>2
    <3>6. QED
      BY <1>8, <1>9, <3>4, <3>5
  <2>5. CallInv'
    BY <1>1, <1>5, <2>1, <2>2, <2>3, <2>4 DEF CallInv
  <2>6. QED
    BY <1>11, <1>12, <2>1, <2>5 DEF HandOutInv
<1>16. CASE ~fold
  <2>1. SyncLiveState(log[k]) /\ epoch = served /\ replayMode' = FALSE /\ epoch' = served'
    BY <1>4, <1>5, <1>6, <1>16 DEF fold, rotates
  <2>2. suspended = {} /\ suspended' = {}
    <3>1. replayMode = FALSE
      BY <1>1, <1>16 DEF fold, TypeOK
    <3>2. QED
      BY <1>1, <2>1, <3>1 DEF CallInv, SyncLiveState
  <2>3. \A n \in Message : fired'[n] = IF Suspends(k, n) THEN Fired({t})[n] ELSE fired[n]
    <3>1. fired' = IF log[k].type = "suspended" THEN Fired({t}) ELSE fired
      BY <1>7, <2>1 DEF SyncLiveState
    <3>2. \A n \in Message : n \notin {t} => Fired({t})[n] = fired[n]
      BY <1>1, FiredEffect
    <3>3. QED
      BY <1>7, <3>1, <3>2 DEF Suspends
  <2>4. ASSUME NEW n \in Message
        PROVE  /\ fired'[n] <= Epochs'
               /\ fired'[n] = Epochs' => \E i \in 1..next' - 1 : Suspends(i, n)'
               /\ fired'[n] # fired[n] => \A i \in 1..next - 1 : ~Resumes(i, n)
    <3>1. CASE Suspends(k, n)
      <4>1. ~\E i \in 1..next - 1 : Suspends(i, n)
        BY <1>10, <3>1
      <4>2. fired[n] <= Epochs /\ fired[n] # Epochs
        BY <1>1, <4>1 DEF CallInv
      <4>3. Fired({t})[n] \in Nat /\ Fired({t})[n] <= fired[n] + 1
        BY <1>1, FiredEffect
      <4>4. fired'[n] <= Epochs'
        BY <1>5, <1>13, <2>3, <3>1, <4>2, <4>3
      <4>5. \E i \in 1..next' - 1 : Suspends(i, n)'
        BY <1>2, <1>6, <1>8, <1>9, <3>1
      <4>6. \A i \in 1..next - 1 : ~Resumes(i, n)
        BY <1>9, <1>10, <3>1
      <4>7. QED
        BY <4>4, <4>5, <4>6
    <3>2. CASE ~Suspends(k, n)
      <4>1. fired'[n] = fired[n]
        BY <2>3, <3>2
      <4>2. fired[n] <= Epochs /\ (fired[n] = Epochs => \E i \in 1..next - 1 : Suspends(i, n))
        BY <1>1 DEF CallInv
      <4>3. (\E i \in 1..next - 1 : Suspends(i, n)) => \E i \in 1..next' - 1 : Suspends(i, n)'
        BY <1>8, <1>9
      <4>4. QED
        BY <1>5, <4>1, <4>2, <4>3
    <3>3. QED
      BY <3>1, <3>2
  <2>5. CallInv'
    BY <2>1, <2>2, <2>4 DEF CallInv
  <2>6. QED
    BY <1>11, <1>12, <2>4, <2>5 DEF HandOutInv
<1>17. QED
  BY <1>15, <1>16

(* The runtime is armed: what is held is handed out and no longer held.    *)
LEMMA CallsArm ==
    ASSUME HandOutInv, TypeOK', NEW stage \in [Message -> Stage], ArmReplay(stage),
           UNCHANGED <<epoch, seen, next, log, run, served>>,
           \A n \in Message : \/ stage[n] = pc[n]
                              \/ stage[n] \notin {"new", "foreign", "resolving"}
                              \/ stage[n] = "resolving" /\ next = 1
    PROVE  /\ HandOutInv'
           /\ \A m \in Message : fired'[m] # fired[m] =>
                 \A i \in 1..next - 1 : ~Resumes(i, m)
<1>1. TypeOK /\ CallLogInv /\ KeysInv /\ CallInv
  BY DEF HandOutInv
<1>2. suspended' = {} /\ replayMode' = FALSE
      /\ \/ fired' = Fired(suspended)
         \/ fired' = fired /\ suspended = {}
  BY <1>1 DEF ArmReplay, CallInv, TypeOK
<1>3. (\A n \in Message : fired[n] \in Nat) /\ Epochs \in Nat /\ Epochs' = Epochs
      /\ suspended \subseteq Message
  BY <1>1, FiredEffect, EpochsType DEF TypeOK, Epochs
<1>4. \A n \in Message :
         /\ fired'[n] \in Nat /\ fired'[n] <= fired[n] + 1
         /\ n \notin suspended => fired'[n] = fired[n]
  BY <1>1, <1>2, <1>3, FiredEffect
<1>5. \A n \in Message : \A i \in 1..next - 1 :
         (Suspends(i, n)' <=> Suspends(i, n)) /\ (Resumes(i, n)' <=> Resumes(i, n))
  BY DEF Suspends, Resumes
<1>6. ASSUME NEW n \in Message
      PROVE  /\ fired'[n] <= Epochs
             /\ fired'[n] = Epochs =>
                   epoch = served /\ \E i \in 1..next - 1 : Suspends(i, n)
             /\ fired'[n] # fired[n] => \A i \in 1..next - 1 : ~Resumes(i, n)
  <2>1. CASE n \notin suspended
    BY <1>1, <1>4, <2>1 DEF CallInv
  <2>2. CASE n \in suspended /\ epoch = served
    <3>1. fired[n] <= Epochs /\ fired[n] # Epochs
      BY <1>1, <2>2 DEF CallInv
    <3>2. fired'[n] <= Epochs
      BY <1>3, <1>4, <3>1
    <3>3. QED
      BY <1>1, <2>2, <3>2 DEF CallInv
  <2>3. CASE n \in suspended /\ epoch # served
    <3>1. fired[n] + 1 < Epochs
      BY <1>1, <2>3 DEF CallInv
    <3>2. fired'[n] <= Epochs /\ fired'[n] # Epochs
      BY <1>3, <1>4, <3>1
    <3>3. 1..next - 1 = {}
      BY <1>1, <2>3 DEF KeysInv
    <3>4. QED
      BY <3>2, <3>3
  <2>4. QED
    BY <2>1, <2>2, <2>3
<1>7. CallLogInv'
  BY <1>1 DEF CallLogInv, Suspends, Resumes
<1>8. KeysInv'
  <2>1. \A n \in Message : \/ pc'[n] = stage[n] \/ pc'[n] = "posting"
    <3>1. DrainOnCompletion(state, stage) \/ NoDrain(state, stage)
      BY DEF ArmReplay
    <3>2. \/ pc' = stage
          \/ /\ Head(pendingQueue) \in Message
             /\ pc' = [stage EXCEPT ![Head(pendingQueue)] = "posting"]
      BY <1>1, <3>1, DrainCases DEF NoDrain, TypeOK
    <3>3. QED
      BY <3>2
  <2>2. \A n \in Message : pc'[n] \in {"new", "foreign"} => pc'[n] = pc[n]
    BY <2>1
  <2>3. \A n \in Message : pc'[n] = "resolving" => next = 1
    BY <1>1, <2>1 DEF KeysInv
  <2>4. QED
    BY <1>1, <2>2, <2>3 DEF KeysInv
<1>9. CallInv'
  BY <1>2, <1>3, <1>5, <1>6 DEF CallInv
<1>10. QED
  BY <1>6, <1>7, <1>8, <1>9 DEF HandOutInv

(* The server restarts: every call may be handed out once more.            *)
LEMMA CallsRestart ==
    ASSUME OneClient, HandOutInv, TypeOK', Reconnect
    PROVE  HandOutInv' /\ UNCHANGED fired
<1>1. TypeOK /\ CallLogInv /\ KeysInv /\ CallInv
  BY DEF HandOutInv
<1>2. served < MaxEpoch /\ served' = served + 1 /\ next' = 1
      /\ UNCHANGED <<scaffold, epoch, seen, run, log>>
  BY DEF Reconnect, Restart
<1>3. UNCHANGED <<pc, replayMode, suspended, fired>>
  BY <1>2 DEF scaffold
<1>4. served \in Nat /\ MaxEpoch \in Nat /\ epoch \in 0..MaxEpoch /\ Epochs \in Nat
      /\ suspended \subseteq Message /\ \A n \in Message : fired[n] \in Nat
  BY <1>1, EpochsType, FiredEffect DEF TypeOK
<1>6. Epochs' = Epochs + 1
  BY <1>2, <1>4 DEF Epochs
<1>7. CallLogInv'
  BY <1>1, <1>2 DEF CallLogInv, Suspends, Resumes
<1>8. KeysInv' /\ epoch' # served'
  <2>1. epoch' # served'
    BY <1>1, <1>2, <1>4 DEF KeysInv
  <2>2. QED
    BY <1>1, <1>2, <1>3, <1>4, <2>1 DEF KeysInv
<1>9. CallInv'
  <2>1. ASSUME NEW n \in suspended PROVE fired[n] + 1 < Epochs + 1
    BY <1>1, <1>4, <1>6 DEF CallInv
  <2>2. \A n \in Message : fired[n] <= Epochs + 1 /\ fired[n] # Epochs + 1
    BY <1>1, <1>4, <1>6 DEF CallInv
  <2>3. QED
    BY <1>1, <1>3, <1>6, <1>8, <2>1, <2>2 DEF CallInv
<1>10. QED
  BY <1>3, <1>7, <1>8, <1>9 DEF HandOutInv

(* The first send puts the configured epoch back, before there is a log.   *)
LEMMA CallsResolve ==
    ASSUME OneClient, HandOutInv, TypeOK', NEW m \in Message, ResolveSession(m)
    PROVE  HandOutInv' /\ UNCHANGED fired
<1>1. TypeOK /\ CallLogInv /\ KeysInv /\ CallInv
  BY DEF HandOutInv
<1>2. /\ pc[m] = "resolving" /\ epoch' = 0 /\ pc' = [pc EXCEPT ![m] = "ensuring"]
      /\ UNCHANGED <<replayMode, suspended, fired, seen, next, run, log, served>>
  BY DEF ResolveSession, server
<1>3. next = 1 /\ 1..next - 1 = {}
  BY <1>1, <1>2 DEF KeysInv
<1>4. Epochs' = Epochs
  BY <1>2 DEF Epochs
<1>5. served \in Nat /\ epoch \in 0..MaxEpoch
  BY <1>1, EpochsType DEF TypeOK
<1>6. CASE epoch = 0
  BY <1>2, <1>6, CallsKept DEF TypeOK
<1>7. CASE epoch # 0
  <2>1. epoch' # served'
    BY <1>1, <1>2, <1>5, <1>7 DEF KeysInv
  <2>2. \A n \in suspended : epoch # served
    BY <1>1, <1>3 DEF CallInv
  <2>3. CallInv'
    BY <1>1, <1>2, <1>3, <1>4, <2>1, <2>2 DEF CallInv
  <2>4. KeysInv'
    BY <1>1, <1>2, <1>3, <1>5, <2>1 DEF KeysInv, TypeOK
  <2>5. CallLogInv'
    BY <1>1, <1>2 DEF CallLogInv, Suspends, Resumes
  <2>6. QED
    BY <1>2, <2>3, <2>4, <2>5 DEF HandOutInv
<1>8. QED
  BY <1>2, <1>6, <1>7

(* Every step keeps the invariant, and hands out no call of the past.      *)
LEMMA CallsStep ==
    ASSUME OneClient, HandOutInv, [Next]_vars
    PROVE  /\ HandOutInv'
           /\ \A m \in Message : fired'[m] # fired[m] =>
                 \A i \in 1..next - 1 : ~Resumes(i, m)
<1>1. TypeOK /\ CallLogInv /\ KeysInv /\ CallInv /\ TypeOK' /\ pc \in [Message -> Stage]
      /\ Dropped \in [Message -> Stage]
  BY TypeStep, DroppedFates DEF HandOutInv, TypeOK
<1>2. ASSUME UNCHANGED <<epoch, seen, next, replayMode, suspended, fired, log, run, served>>,
             \A n \in Message : pc'[n] = pc[n] \/ pc'[n] \notin {"new", "foreign", "resolving"}
      PROVE  HandOutInv' /\ UNCHANGED fired
  BY <1>1, <1>2, CallsKept
<1>3. CASE UNCHANGED vars
  BY <1>2, <1>3 DEF vars, scaffold, intake, server
<1>4. CASE Preflight
  BY <1>2, <1>4 DEF Preflight, intake, server
<1>5. CASE Armed
  BY <1>1, <1>5, CallsArm DEF Armed, ArmedByHost, ArmedByTimer, intake, server
<1>6. CASE AbortCall \/ DisposeCall
  <2>1. \A n \in Message : Dropped[n] = pc[n] \/ Dropped[n] = "cancelled"
    BY DEF Dropped
  <2>2. QED
    BY <1>2, <1>6, <2>1 DEF AbortCall, DisposeCall, intake, server
<1>7. CASE AbortResume \/ AbortReturns \/ DisposeReturns
  BY <1>2, <1>7 DEF AbortResume, AbortReturns, DisposeReturns, scaffold, intake, server
<1>8. ASSUME NEW i \in DOMAIN log, Redeliver(i) PROVE HandOutInv' /\ UNCHANGED fired
  <2>1. i \in 1..next - 1 /\ next # 1
    BY <1>1, <1>8, Indices DEF Redeliver
  <2>2. i \in seen /\ epoch = served
    BY <1>1, <2>1 DEF KeysInv
  <2>3. UNCHANGED <<scaffold, epoch, seen>>
    BY <1>8, <2>2 DEF Redeliver, Ingest
  <2>4. QED
    BY <1>2, <1>8, <2>3 DEF Redeliver, scaffold, server
<1>9. ASSUME NEW m \in Message, SendCall(m)
      PROVE  /\ HandOutInv'
             /\ \A n \in Message : fired'[n] # fired[n] =>
                   \A i \in 1..next - 1 : ~Resumes(i, n)
  <2> DEFINE first == IF \A n \in Message : pc[n] \in {"new", "foreign"}
                      THEN "resolving" ELSE "ensuring"
             stage == [pc EXCEPT ![m] = first]
  <2>1. ArmReplay(stage) /\ UNCHANGED <<epoch, seen, next, log, run, served>>
    BY <1>9 DEF SendCall, intake, server
  <2>2. stage \in [Message -> Stage]
    BY <1>1 DEF Stage
  <2>3. first = "ensuring" \/ (first = "resolving" /\ next = 1)
    <3>1. CASE \A n \in Message : pc[n] \in {"new", "foreign"}
      <4>1. log = <<>> /\ Len(log) = 0
        BY <1>1, <3>1 DEF KeysInv
      <4>2. next = 1
        BY <1>1, <4>1, Indices
      <4>3. QED
        BY <4>2
    <3>2. QED
      BY <3>1
  <2>4. \A n \in Message : stage[n] = IF n = m THEN first ELSE pc[n]
    BY <1>1
  <2> HIDE DEF first, stage
  <2>5. \A n \in Message : \/ stage[n] = pc[n]
                           \/ stage[n] \notin {"new", "foreign", "resolving"}
                           \/ stage[n] = "resolving" /\ next = 1
    BY <2>3, <2>4
  <2>6. QED
    BY <1>1, <2>1, <2>2, <2>5, CallsArm
<1>10. ASSUME NEW m \in Message, SendResume(m) PROVE HandOutInv' /\ UNCHANGED fired
  <2>1. \A n \in Message : Dropped[n] = pc[n] \/ Dropped[n] = "cancelled"
    BY DEF Dropped
  <2>2. PICK stage \in [Message -> Stage] :
           /\ stage = pc \/ stage = Dropped
           /\ pc' = [stage EXCEPT ![m] = "queued"] \/ pc' = [stage EXCEPT ![m] = "posting"]
    BY <1>1, <1>10 DEF SendResume
  <2>3. \A n \in Message : pc'[n] = pc[n] \/ pc'[n] \in {"queued", "posting", "cancelled"}
    BY <2>1, <2>2
  <2>4. QED
    BY <1>2, <1>10, <2>3 DEF SendResume, intake, server
<1>11. ASSUME NEW m \in Message, PostReturns(m) \/ PostFails(m)
       PROVE  HandOutInv' /\ UNCHANGED fired
  <2>1. \A n \in Message : pc'[n] = pc[n] \/ pc'[n] \in {"posted", "failed", "cancelled"}
    BY <1>1, <1>11 DEF PostReturns, PostFails, Dropped
  <2>2. QED
    BY <1>2, <1>11, <2>1 DEF PostReturns, PostFails, intake, server
<1>12. ASSUME NEW m \in Message, NEW stage \in RunStage, NEW type \in ItemType,
              Report(m, stage, type), pc[m] = "posting" \/ run[m] # "none",
              type = "suspended" => ~Reported("suspended", m),
              type \in {"resumed", "result"} => run[m] = "suspended",
              stage = "suspended" => type = "suspended",
              UNCHANGED <<scaffold, intake>>
       PROVE  HandOutInv' /\ UNCHANGED fired
  <2>1. pc[m] \notin {"new", "foreign"}
    BY <1>1, <1>12 DEF KeysInv
  <2>2. QED
    BY <1>1, <1>12, <2>1, CallsReport DEF scaffold
<1>13. /\ {"running", "asking", "suspended", "over"} \subseteq RunStage
       /\ {"running", "asked", "resolved", "suspended", "resumed", "result", "completed",
           "failed", "ended"} \subseteq ItemType
  BY DEF RunStage, ItemType
<1>14. ASSUME NEW m \in Message, PostArrives(m) PROVE HandOutInv' /\ UNCHANGED fired
  <2>1. Report(m, "running", "running") /\ pc[m] = "posting" /\ UNCHANGED <<scaffold, intake>>
    BY <1>14 DEF PostArrives, RunStarts
  <2>2. QED
    BY <1>12, <1>13, <2>1
<1>15. ASSUME NEW m \in Message, Reply(m) PROVE HandOutInv' /\ UNCHANGED fired
  <2>1. CASE Respond(m) \/ ReplyReturns(m)
    BY <1>2, <2>1 DEF Respond, ReplyReturns, scaffold, intake, server
  <2>2. CASE ReplyArrives(m) /\ run[m] # "asking"
    BY <1>2, <2>2 DEF ReplyArrives, scaffold, intake, server
  <2>3. CASE ReplyArrives(m) /\ run[m] = "asking"
    <3>1. Report(m, "running", "resolved") /\ UNCHANGED <<scaffold, intake>>
      BY <2>3 DEF ReplyArrives, RunAnswered
    <3>2. QED
      BY <1>12, <1>13, <2>3, <3>1
  <2>4. QED
    BY <1>15, <2>1, <2>2, <2>3 DEF Reply
<1>16. ASSUME NEW m \in Message, ToolSubmits(m) PROVE HandOutInv' /\ UNCHANGED fired
  <2>1. PICK type \in {"resumed", "result"} :
           Report(m, "running", type) /\ run[m] = "suspended"
    BY <1>16 DEF ToolSubmits, RunResumes
  <2>2. UNCHANGED <<scaffold, intake>>
    BY <1>16 DEF ToolSubmits
  <2>3. QED
    BY <1>12, <1>13, <2>1, <2>2
<1>17. ASSUME NEW m \in Message, Runs(m) PROVE HandOutInv' /\ UNCHANGED fired
  <2>1. UNCHANGED <<scaffold, intake>>
    BY <1>17 DEF Runs
  <2>2. CASE RunSuspends(m)
    <3>1. Report(m, "suspended", "suspended") /\ run[m] = "running" /\ ~Reported("suspended", m)
      BY <2>2 DEF RunSuspends
    <3>2. QED
      BY <1>12, <1>13, <2>1, <3>1
  <2>3. CASE RunAsks(m) \/ Ends(m)
    <3>1. PICK stage \in {"asking", "over"}, type \in {"asked", "completed", "failed", "ended"} :
             Report(m, stage, type) /\ run[m] # "none"
      BY <2>3 DEF RunAsks, Ends, RunEnds, RunCancelled
    <3>2. QED
      BY <1>12, <1>13, <2>1, <3>1
  <2>4. QED
    BY <1>17, <2>2, <2>3 DEF Runs, Works
<1>18. \A m \in Message : ~Foreign(m)
  BY DEF Foreign, OneClient
<1>19. CASE Next
  BY <1>1, <1>4, <1>5, <1>6, <1>7, <1>8, <1>9, <1>10, <1>11, <1>14, <1>15, <1>16, <1>17, <1>18,
     <1>19, CallsDeliver, CallsRestart, CallsResolve DEF Next, Send
<1>20. QED
  BY <1>3, <1>19

(* What is served again is folded as a replay, and there is none under the *)
(* configured epoch.                                                       *)
ReplayInv ==
    /\ next <= history => replayMode \/ epoch # served
    /\ served = 0 => history = 0

(* Nothing is handed out while the history is served again.                *)
LEMMA ReplayStep ==
    ASSUME Patient, HandOutInv, ReplayInv, [Next]_vars
    PROVE  /\ ReplayInv'
           /\ \A m \in Message : fired'[m] # fired[m] => CaughtUp
<1>1. /\ KeysInv /\ TypeOK
      /\ next \in Nat /\ history \in Nat /\ served \in Nat /\ epoch \in Nat
      /\ replayMode \in BOOLEAN
  <2>1. KeysInv /\ TypeOK
    BY DEF HandOutInv
  <2>2. Len(log) \in Nat /\ next \in 1..Len(log) + 1
    BY <2>1, Indices
  <2>3. served \in Nat /\ MaxEpoch \in Nat
    BY <2>1, EpochsType
  <2>4. history \in 0..Len(log) /\ epoch \in 0..MaxEpoch /\ replayMode \in BOOLEAN
    BY <2>1 DEF TypeOK
  <2>5. QED
    BY <2>1, <2>2, <2>3, <2>4
<1>2. ASSUME UNCHANGED <<next, history, replayMode, epoch, served, fired>>
      PROVE  ReplayInv' /\ UNCHANGED fired
  BY <1>2 DEF ReplayInv
<1>3. CASE Deliver
  <2>1. next' = next + 1 /\ UNCHANGED <<history, served>> /\ Ingest(next)
    BY <1>3 DEF Deliver, server
  <2>2. CASE next \in (IF epoch # served THEN {} ELSE seen)
    BY <1>1, <2>1, <2>2 DEF Ingest, scaffold, ReplayInv
  <2>3. CASE next \notin (IF epoch # served THEN {} ELSE seen)
    <3>1. epoch' = served /\ replayMode' = (replayMode \/ epoch # served)
      BY <2>1, <2>3 DEF Ingest
    <3>2. replayMode \/ epoch # served => UNCHANGED fired
      BY <2>1, <2>3 DEF Ingest, SyncReplayState
    <3>3. next' <= history => next <= history
      BY <1>1, <2>1
    <3>4. ~(replayMode \/ epoch # served) => CaughtUp
      BY <1>1 DEF ReplayInv, CaughtUp
    <3>5. QED
      BY <2>1, <3>1, <3>2, <3>3, <3>4 DEF ReplayInv
  <2>4. QED
    BY <2>2, <2>3
<1>4. ASSUME NEW i \in DOMAIN log, Redeliver(i) PROVE ReplayInv' /\ UNCHANGED fired
  <2>1. i \in 1..next - 1 /\ next # 1
    BY <1>1, <1>4, Indices DEF Redeliver
  <2>2. i \in seen /\ epoch = served
    BY <1>1, <2>1 DEF KeysInv
  <2>3. QED
    BY <1>2, <1>4, <2>2 DEF Redeliver, Ingest, scaffold, server
<1>5. CASE Reconnect
  <2>1. served' = served + 1 /\ UNCHANGED <<epoch, fired>>
    BY <1>5 DEF Reconnect, Restart, scaffold
  <2>2. epoch' # served' /\ served' # 0
    BY <1>1, <2>1 DEF KeysInv
  <2>3. QED
    BY <2>1, <2>2 DEF ReplayInv
<1>6. CASE Armed
  <2>1. CaughtUp /\ UNCHANGED <<next, history, epoch, served>>
    BY <1>6 DEF Armed, ArmedByHost, ArmedByTimer, Settled, Patient, intake, server
  <2>2. QED
    BY <1>1, <2>1 DEF CaughtUp, ReplayInv
<1>7. ASSUME NEW m \in Message, SendCall(m)
      PROVE  ReplayInv' /\ \A n \in Message : fired'[n] # fired[n] => CaughtUp
  <2>1. replayMode' = FALSE /\ UNCHANGED <<next, history, epoch, served>>
        /\ (~replayMode => UNCHANGED fired)
    BY <1>7 DEF SendCall, ArmReplay, intake, server
  <2>2. CASE replayMode
    <3>1. CaughtUp
      BY <1>7, <2>2 DEF SendCall, Patient
    <3>2. QED
      BY <1>1, <2>1, <3>1 DEF CaughtUp, ReplayInv
  <2>3. CASE ~replayMode
    BY <1>1, <2>1, <2>3 DEF ReplayInv
  <2>4. QED
    BY <2>2, <2>3
<1>8. ASSUME NEW m \in Message, ResolveSession(m) PROVE ReplayInv' /\ UNCHANGED fired
  <2>1. epoch' = 0 /\ UNCHANGED <<next, history, replayMode, served, fired>>
    BY <1>8 DEF ResolveSession, server
  <2>2. CASE served = 0
    BY <1>1, <2>1, <2>2, Indices DEF ReplayInv, TypeOK
  <2>3. CASE served # 0
    BY <2>1, <2>3 DEF ReplayInv
  <2>4. QED
    BY <2>2, <2>3
<1>9. CASE UNCHANGED vars \/ Preflight \/ AbortCall \/ AbortResume \/ AbortReturns
           \/ DisposeCall \/ DisposeReturns
  BY <1>2, <1>9 DEF vars, scaffold, intake, server, Preflight, AbortCall, AbortResume,
                    AbortReturns, DisposeCall, DisposeReturns
<1>10. ASSUME NEW m \in Message, SendResume(m) \/ PostArrives(m) \/ PostReturns(m) \/ PostFails(m)
       PROVE  ReplayInv' /\ UNCHANGED fired
  BY <1>2, <1>10 DEF SendResume, PostArrives, PostReturns, PostFails, RunStarts, Report,
                     scaffold, intake, server
<1>11. ASSUME NEW m \in Message, Reply(m) \/ ToolSubmits(m) \/ Runs(m)
       PROVE  ReplayInv' /\ UNCHANGED fired
  <2>1. UNCHANGED <<replayMode, fired, intake, served>>
    BY <1>11 DEF Reply, Respond, ReplyArrives, ReplyReturns, ToolSubmits, Runs, Ends, Works,
                 RunAnswered, RunResumes, RunAsks, RunSuspends, RunEnds, RunCancelled, Report,
                 scaffold, server
  <2>2. QED
    BY <1>2, <2>1 DEF intake
<1>12. \A m \in Message : ~Foreign(m)
  BY DEF Foreign, Patient, OneClient
<1>13. QED
  BY <1>3, <1>4, <1>5, <1>6, <1>7, <1>8, <1>9, <1>10, <1>11, <1>12 DEF Next, Send

(* A call is handed out only if no item of the past resolved it, neither   *)
(* of the history that the server had when it restarted nor of what came   *)
(* since; and once, or once under each epoch of the server: however often  *)
(* the server restarts, items are delivered again, the host arms the       *)
(* runtime or the fallback timer fires, aborts and disposes.  Nobody sends *)
(* before the history was served again, and no timer that waits for its    *)
(* end fires within it; for what happens else see "midway" and "stalls".   *)
(* All runs of the session are the client's own: if there is a log before  *)
(* its first send, that send puts the configured epoch back and the log    *)
(* counts twice.                                                           *)
THEOREM CallsOfThePresent ==
    ASSUME Patient
    PROVE  Spec => NoStaleCall
<1> DEFINE Inv == HandOutInv /\ ReplayInv
<1>1. OneClient
  BY DEF Patient
<1>2. Init => Inv
  <2>1. ASSUME Init PROVE ReplayInv
    BY <2>1 DEF Init, ReplayInv
  <2>2. QED
    BY <1>1, <2>1, CallsInit
<1>3. Inv /\ [Next]_vars => Inv'
  BY <1>1, CallsStep, ReplayStep
<1>4. ASSUME Inv, Inv', [Next]_vars, NEW m \in Message, fired'[m] # fired[m]
      PROVE  /\ FiredOnce'
             /\ \A i \in Past :
                   log[i] \notin [type : {"resumed", "result"}, turn : {m}]
  <2>1. \A i \in 1..next - 1 : ~Resumes(i, m)
    BY <1>1, <1>4, CallsStep
  <2>2. CaughtUp
    BY <1>4, ReplayStep
  <2>3. TypeOK
    BY <1>4 DEF HandOutInv
  <2>4. history \in Nat /\ next \in Nat
    BY <2>3, Indices DEF TypeOK
  <2>5. \A i \in Past : i \in 1..next - 1
    <3>1. SUFFICES ASSUME NEW i \in Past PROVE i \in 1..next - 1
      OBVIOUS
    <3>2. i \in 1..Len(log) /\ Len(log) \in Nat
      BY <2>3, Indices DEF Past
    <3>3. QED
      BY <2>2, <2>4, <3>2 DEF Past, CaughtUp
  <2>6. \A i \in Past :
           log[i] \notin [type : {"resumed", "result"}, turn : {m}]
    BY <2>1, <2>5 DEF Resumes
  <2>7. \A n \in Message : fired'[n] <= Epochs'
    BY <1>4 DEF HandOutInv, CallInv
  <2>8. FiredOnce'
    BY <2>7 DEF FiredOnce
  <2>9. QED
    BY <2>6, <2>8
<1> HIDE DEF Inv
<1>5. Inv /\ Inv' /\ [Next]_vars =>
        [\A m \in Message : fired'[m] # fired[m] =>
            /\ FiredOnce'
            /\ \A i \in Past :
                  log[i] \notin [type : {"resumed", "result"}, turn : {m}]]_vars
  BY <1>4
<1>6. QED
  BY <1>2, <1>3, <1>5, PTL DEF Spec, NoStaleCall
=============================================================================

-------------------------- MODULE RetryQueueProofs --------------------------
(***************************************************************************)
(* Proofs about RetryQueue, for every set of webhooks and every number of  *)
(* attempts: the types hold, no enqueued webhook is lost as long as no     *)
(* webhook fails during a tick and writeFile is not interrupted, and       *)
(* whatever happens only a crash repeats a request or a record.  Then,     *)
(* that Automations, of which the queue is a part, keeps all this, that    *)
(* its history keeps what is within the limits, and that both limiters     *)
(* hold for every sequence of times.                                       *)
(***************************************************************************)
EXTENDS Automations, FiniteSetTheorems, TLAPS

(* What a due time passing does to the entries.                            *)
LEMMA RipenedFacts ==
    ASSUME NEW S \in SUBSET Entry, NEW w \in Webhook
    PROVE  Ripened(S, w) \in SUBSET Entry /\ Ids(Ripened(S, w)) = Ids(S)
<1> DEFINE R(e) == [e EXCEPT !.ripe = (e.id = w) \/ e.ripe]
<1>1. ASSUME NEW e \in S
      PROVE  R(e) \in Entry /\ R(e).id = e.id
  <2>1. e \in Entry
    OBVIOUS
  <2>2. ((e.id = w) \/ e.ripe) \in BOOLEAN
    BY <2>1 DEF Entry
  <2>3. QED
    BY <2>1, <2>2 DEF Entry
<1>2. Ripened(S, w) = {R(e) : e \in S}
  BY DEF Ripened
<1> HIDE DEF R
<1>3. Ripened(S, w) \in SUBSET Entry
  BY <1>1, <1>2
<1>4. ASSUME NEW e \in S PROVE e.id \in Ids(Ripened(S, w))
  <2>1. R(e) \in Ripened(S, w)
    BY <1>2
  <2>2. QED
    BY <2>1, <1>1 DEF Ids
<1>5. ASSUME NEW d \in Ripened(S, w) PROVE d.id \in Ids(S)
  BY <1>1, <1>2 DEF Ids
<1>6. QED
  BY <1>3, <1>4, <1>5 DEF Ids

(* A bounded counter stays in its range, and never falls.                  *)
LEMMA CountFacts ==
    ASSUME NEW bound \in Nat, NEW f \in [Webhook -> 0..bound], NEW w \in Webhook
    PROVE  /\ Count(f, w, bound) \in [Webhook -> 0..bound]
           /\ \A x \in Webhook : f[x] > 0 => Count(f, w, bound)[x] > 0
           /\ bound > 0 => Count(f, w, bound)[w] > 0
<1>1. (IF f[w] < bound THEN f[w] + 1 ELSE f[w]) \in 0..bound
  OBVIOUS
<1>2. QED
  BY <1>1 DEF Count

(* The counters delivered and final.                                       *)
LEMMA CountEnds ==
    ASSUME NEW f \in [Webhook -> 0..MaxEnds], NEW w \in Webhook
    PROVE  /\ Count(f, w, MaxEnds) \in [Webhook -> 0..MaxEnds]
           /\ \A x \in Webhook : f[x] > 0 => Count(f, w, MaxEnds)[x] > 0
           /\ Count(f, w, MaxEnds)[w] > 0
<1>1. MaxEnds \in Nat /\ MaxEnds > 0
  BY RetryAssumption DEF MaxEnds
<1> HIDE DEF MaxEnds
<1>2. QED
  BY <1>1, CountFacts, Zenon

-----------------------------------------------------------------------------
(* One attempt more than e's, when e has not used up its attempts.         *)
LEMMA NextAttempt ==
    ASSUME NEW e \in Entry, ~IsLast(e)
    PROVE  [e EXCEPT !.attempt = e.attempt + 1, !.ripe = FALSE] \in Entry
<1>1. e.attempt + 1 \in 0..MaxAttempts - 1
  BY RetryAssumption DEF Entry, IsLast
<1>2. QED
  BY <1>1 DEF Entry

(* The types hold throughout: no entry's deferredAttempt reaches the       *)
(* maximum (retry-scheduler.ts 235).                                       *)
THEOREM RetryTypes == Spec => []TypeOK
<1>1. Init => TypeOK
  BY RetryAssumption DEF Init, TypeOK, MaxPosts, MaxEnds
<1>2. TypeOK /\ [Next]_vars => TypeOK'
  <2> SUFFICES ASSUME TypeOK, [Next]_vars PROVE TypeOK'
    OBVIOUS
  <2> USE DEF TypeOK
  <2>1. ASSUME NEW w \in Webhook, Execute(w) PROVE TypeOK'
    BY <2>1 DEF Execute, queue, history
  <2>2. ASSUME NEW w \in Webhook, Executed(w) PROVE TypeOK'
    <3>1. Count(delivered, w, MaxEnds) \in [Webhook -> 0..MaxEnds]
      BY CountEnds
    <3>2. QED
      BY <2>2, <3>1 DEF Executed, queue, history
  <2>3. ASSUME NEW w \in Webhook, Enqueue(w) PROVE TypeOK'
    <3>1. [id |-> w, attempt |-> 0, ripe |-> FALSE] \in Entry
      BY RetryAssumption DEF Entry
    <3>2. QED
      BY <2>3, <3>1 DEF Enqueue, queue, history
  <2>4. ASSUME NEW w \in Webhook, Elapse(w) PROVE TypeOK'
    BY <2>4, RipenedFacts DEF Elapse, queue, history
  <2>5. CASE ReadQueue
    BY <2>5 DEF ReadQueue, queue, history, Ids, Entry
  <2>6. ASSUME NEW e \in batch, Retry(e) PROVE TypeOK'
    <3>1. e \in Entry /\ e.id \in Webhook
      BY DEF Entry
    <3>2. MaxPosts \in Nat
      BY RetryAssumption DEF MaxPosts
    <3>3. Count(posts, e.id, MaxPosts) \in [Webhook -> 0..MaxPosts]
      BY <3>1, <3>2, CountFacts, Zenon
    <3>4. Count(delivered, e.id, MaxEnds) \in [Webhook -> 0..MaxEnds]
      BY <3>1, CountEnds
    <3>5. QED
      BY <2>6, <3>1, <3>3, <3>4, NextAttempt DEF Retry, queue, history
  <2>7. ASSUME NEW w \in Webhook, Record(w) PROVE TypeOK'
    <3>1. Count(final, w, MaxEnds) \in [Webhook -> 0..MaxEnds]
      BY CountEnds
    <3>2. QED
      BY <2>7, <3>1 DEF Record, queue, history
  <2>8. CASE Truncate
    BY <2>8 DEF Truncate, queue, history
  <2>9. CASE WriteQueue
    BY <2>9 DEF WriteQueue, queue, history
  <2>10. CASE Crash
    BY <2>10, RetryAssumption DEF Crash, queue, history
  <2>11. CASE UNCHANGED vars
    BY <2>11 DEF vars, queue, history
  <2>12. QED
    BY <2>1, <2>2, <2>3, <2>4, <2>5, <2>6, <2>7, <2>8, <2>9, <2>10, <2>11
       DEF Next, Tick
<1>3. QED
  BY <1>1, <1>2, PTL DEF Spec

-----------------------------------------------------------------------------
(* The inductive invariant of NeverLost.  While the tick works, whatever   *)
(* is in the file is still in its batch, or being recorded, or recorded;   *)
(* while it writes, nothing but the batch is left.                         *)
TickInv ==
    /\ stage = "working" =>
          \A w \in Ids(file) : w \in Ids(batch) \cup current \/ final[w] > 0
    /\ stage = "writing" => file = {}
    /\ stage \in {"idle", "writing"} => current = {}
    /\ \A v, w \in current : v = w

(* No webhook fails during a tick, and writeFile is not interrupted.       *)
Undisturbed == Env = {}

(* Crashes at any other moment lose no webhook: an entry leaves the file   *)
(* only when its end is recorded (retry-scheduler.ts 161-282).             *)
THEOREM NothingLost ==
    ASSUME Undisturbed
    PROVE  Spec => []NeverLost
<1> DEFINE IInv == TypeOK /\ TickInv /\ NeverLost
<1>1. Init => TickInv /\ NeverLost
  BY DEF Init, TickInv, NeverLost
<1>2. TypeOK /\ TypeOK' /\ TickInv /\ NeverLost /\ [Next]_vars
        => TickInv' /\ NeverLost'
  <2> SUFFICES ASSUME TypeOK, TypeOK', TickInv, NeverLost, [Next]_vars
               PROVE  TickInv' /\ NeverLost'
    OBVIOUS
  <2>1. ASSUME NEW w \in Webhook, Execute(w) PROVE TickInv' /\ NeverLost'
    BY <2>1 DEF Execute, queue, history, TypeOK, TickInv, NeverLost, Kept
  <2>2. ASSUME NEW w \in Webhook, Executed(w) PROVE TickInv' /\ NeverLost'
    BY <2>2 DEF Executed, queue, history, TypeOK, TickInv, NeverLost, Kept
  <2>3. ASSUME NEW w \in Webhook, Enqueue(w) PROVE TickInv' /\ NeverLost'
    <3>1. stage = "idle"
      BY <2>3 DEF Enqueue, queue, history, Undisturbed
    <3>2. Ids(file') = Ids(file) \cup {w}
      <4> DEFINE new == [id |-> w, attempt |-> 0, ripe |-> FALSE]
      <4>1. file' = file \cup {new} /\ new.id = w
        BY <2>3 DEF Enqueue, queue, history
      <4> HIDE DEF new
      <4>2. QED
        BY <4>1 DEF Ids
    <3>3. \A x \in Webhook \ {w} : task'[x] = task[x]
      BY <2>3 DEF Enqueue, queue, history, TypeOK
    <3>4. UNCHANGED <<stage, batch, current, final>>
      BY <2>3 DEF Enqueue, queue, history
    <3>5. TickInv'
      BY <3>1, <3>4 DEF TickInv
    <3>6. ASSUME NEW x \in Webhook, task'[x] = "enqueued"
          PROVE  Kept(x)' \/ final'[x] > 0
      <4>1. CASE x = w
        BY <4>1, <3>2 DEF Kept
      <4>2. CASE x # w
        <5>1. Kept(x) \/ final[x] > 0
          BY <4>2, <3>3, <3>6 DEF NeverLost
        <5>2. QED
          BY <5>1, <3>1, <3>2, <3>4 DEF Kept
      <4>3. QED
        BY <4>1, <4>2
    <3>7. QED
      BY <3>5, <3>6 DEF NeverLost
  <2>4. ASSUME NEW w \in Webhook, Elapse(w) PROVE TickInv' /\ NeverLost'
    <3>1. Ids(file') = Ids(file) /\ Ids(batch') = Ids(batch)
      BY <2>4, RipenedFacts DEF Elapse, queue, history, TypeOK
    <3>2. stage = "writing" => file' = {}
      BY <2>4 DEF Elapse, queue, history, Ripened, TickInv
    <3>3. UNCHANGED <<task, stage, current, final>>
      BY <2>4 DEF Elapse, queue, history
    <3>4. QED
      BY <3>1, <3>2, <3>3 DEF TickInv, NeverLost, Kept
  <2>5. CASE ReadQueue
    BY <2>5 DEF ReadQueue, queue, history, TickInv, NeverLost, Kept
  <2>6. ASSUME NEW e \in batch, Retry(e) PROVE TickInv' /\ NeverLost'
    <3>1. Ids(batch) \cup current \subseteq Ids(batch') \cup current'
      <4>1. ASSUME NEW d \in batch PROVE d.id \in Ids(batch') \cup current'
        <5>1. CASE batch' = batch \ {e} /\ current' = {e.id}
          BY <5>1 DEF Ids
        <5>2. CASE batch' = (batch \ {e})
                \cup {[e EXCEPT !.attempt = e.attempt + 1, !.ripe = FALSE]}
          <6>1. [e EXCEPT !.attempt = e.attempt + 1, !.ripe = FALSE].id = e.id
            BY DEF TypeOK, Entry
          <6>2. QED
            BY <5>2, <6>1 DEF Ids
        <5>3. QED
          BY <5>1, <5>2, <2>6 DEF Retry, queue, history
      <4>2. current = {}
        BY <2>6 DEF Retry, queue, history
      <4>3. QED
        BY <4>1, <4>2 DEF Ids
    <3>2. stage = "working" /\ UNCHANGED <<task, file, stage, final>>
      BY <2>6 DEF Retry, queue, history
    <3>3. \A v, w \in current' : v = w
      BY <2>6 DEF Retry, queue, history
    <3>4. QED
      BY <3>1, <3>2, <3>3 DEF TickInv, NeverLost, Kept
  <2>7. ASSUME NEW w \in Webhook, Record(w) PROVE TickInv' /\ NeverLost'
    <3>1. final' = Count(final, w, MaxEnds) /\ w \in current /\ current' = {}
      BY <2>7 DEF Record, queue, history, Undisturbed
    <3>2. final'[w] > 0 /\ \A x \in Webhook : final[x] > 0 => final'[x] > 0
      BY <3>1, CountEnds DEF TypeOK
    <3>3. UNCHANGED <<task, file, stage, batch>>
      BY <2>7 DEF Record, queue, history
    <3>4. current \subseteq {w}
      BY <2>7 DEF Record, queue, history, TickInv
    <3>5. QED
      BY <3>1, <3>2, <3>3, <3>4 DEF TickInv, NeverLost, Kept, TypeOK, Ids, Entry
  <2>8. CASE Truncate
    BY <2>8 DEF Truncate, queue, history, TickInv, NeverLost, Kept
  <2>9. CASE WriteQueue
    <3>1. stage = "writing" /\ Ids(file') = Ids(batch) /\ Ids(file) = {}
      BY <2>9 DEF WriteQueue, queue, history, TickInv, Ids
    <3>2. stage' = "idle" /\ current = {} /\ UNCHANGED <<task, current, final>>
      BY <2>9, <3>1 DEF WriteQueue, queue, history, TickInv
    <3>3. QED
      BY <3>1, <3>2 DEF TickInv, NeverLost, Kept
  <2>10. CASE Crash
    <3>1. stage # "writing"
      BY <2>10 DEF Crash, queue, history, Undisturbed
    <3>2. \A x \in Webhook : task'[x] = "enqueued" => task[x] = "enqueued"
      BY <2>10 DEF Crash, queue, history, TypeOK
    <3>3. QED
      BY <2>10, <3>1, <3>2 DEF Crash, queue, history, TickInv, NeverLost, Kept
  <2>11. CASE UNCHANGED vars
    BY <2>11 DEF vars, queue, history, TickInv, NeverLost, Kept
  <2>12. QED
    BY <2>1, <2>2, <2>3, <2>4, <2>5, <2>6, <2>7, <2>8, <2>9, <2>10, <2>11
       DEF Next, Tick
<1>3. QED
  BY <1>1, <1>2, RetryTypes, PTL DEF Spec

-----------------------------------------------------------------------------
(* Repetitions.  A webhook has one entry at most in the file and one in    *)
(* the batch, because it is enqueued once; before that nothing has been    *)
(* sent on its behalf.                                                     *)
OneEntry(entries) == \A d, e \in entries : d.id = e.id => d = e

EntryInv ==
    /\ OneEntry(file) /\ OneEntry(batch)
    /\ stage # "working" => current = {}
    /\ \A w \in current : w \notin Ids(batch) /\ final[w] <= crashes
    /\ \A w \in Webhook : task[w] # "enqueued" =>
          /\ w \notin Ids(file) \cup Ids(batch) \cup current
          /\ posts[w] = 0 /\ final[w] = 0
    /\ \A w \in Webhook : task[w] \in {"new", "sending", "failed"} => delivered[w] = 0

(* What has happened to an entry: a request for each of its attempts and   *)
(* for each of c repetitions, and an end for each repetition.              *)
Spent(e, c) ==
    posts[e.id] <= e.attempt + c /\ delivered[e.id] <= c /\ final[e.id] <= c

(* The batch is up to date.  The file is, but for the tick under way: it   *)
(* lags by the one request the tick may have made, and that a crash would  *)
(* make it forget.                                                         *)
SpentInv ==
    /\ \A e \in batch : Spent(e, crashes)
    /\ \A e \in file : Spent(e, crashes + 1)
    /\ \A e \in file : stage = "idle" => Spent(e, crashes)
    /\ \A e \in file : e.id \in todo => posts[e.id] <= e.attempt + crashes

RepeatInv == EntryInv /\ SpentInv /\ AttemptsBounded /\ SettledOnce

(* A counter counts by one, for one webhook.                               *)
LEMMA CountStep ==
    ASSUME NEW bound \in Nat, NEW f \in [Webhook -> 0..bound], NEW w \in Webhook
    PROVE  /\ Count(f, w, bound) \in [Webhook -> 0..bound]
           /\ Count(f, w, bound)[w] <= f[w] + 1
           /\ \A x \in Webhook \ {w} : Count(f, w, bound)[x] = f[x]
<1>1. (IF f[w] < bound THEN f[w] + 1 ELSE f[w]) \in 0..bound
  OBVIOUS
<1>2. QED
  BY <1>1 DEF Count

(* The bounds of the counters.                                             *)
LEMMA Bounds == MaxPosts \in Nat /\ MaxEnds \in Nat /\ MaxCrashes \in Nat
BY RetryAssumption DEF MaxPosts, MaxEnds

(* The numbers the invariant compares.                                     *)
LEMMA Numbers ==
    ASSUME TypeOK
    PROVE  /\ crashes \in Nat
           /\ \A w \in Webhook : posts[w] \in Nat /\ delivered[w] \in Nat /\ final[w] \in Nat
           /\ \A e \in file \cup batch :
                 e \in Entry /\ e.id \in Webhook /\ e.attempt \in Nat /\ e.attempt + 1 <= MaxAttempts
<1>1. crashes \in Nat
  BY Bounds DEF TypeOK
<1>2. \A w \in Webhook : posts[w] \in Nat /\ delivered[w] \in Nat /\ final[w] \in Nat
  BY Bounds DEF TypeOK
<1>3. \A e \in Entry : e.id \in Webhook /\ e.attempt \in Nat /\ e.attempt + 1 <= MaxAttempts
  BY RetryAssumption DEF Entry
<1>4. QED
  BY <1>1, <1>2, <1>3 DEF TypeOK

(* A due time that passes changes neither the ids nor the attempts.        *)
LEMMA RipenedEntries ==
    ASSUME NEW S \in SUBSET Entry, NEW w \in Webhook
    PROVE  /\ \A d \in Ripened(S, w) : \E e \in S : d.id = e.id /\ d.attempt = e.attempt
           /\ OneEntry(S) => OneEntry(Ripened(S, w))
<1> DEFINE R(e) == [e EXCEPT !.ripe = (e.id = w) \/ e.ripe]
<1>1. \A e \in S : R(e).id = e.id /\ R(e).attempt = e.attempt
  BY DEF Entry
<1>2. Ripened(S, w) = {R(e) : e \in S}
  BY DEF Ripened
<1> HIDE DEF R
<1>3. QED
  BY <1>1, <1>2 DEF OneEntry

(* A step that leaves the entries of the tick, the counters and the        *)
(* crashes alone keeps the invariant, when it brings no entry but that of  *)
(* a webhook for which nothing has been done.                              *)
LEMMA RepeatKept ==
    ASSUME TypeOK, TypeOK', RepeatInv,
           UNCHANGED <<current, crashes, posts, final>>,
           todo' \subseteq todo,
           OneEntry(file'), OneEntry(batch'),
           \A d \in batch' : \E e \in batch : d.id = e.id /\ d.attempt = e.attempt,
           \A d \in file' :
              \/ \E e \in file : d.id = e.id /\ d.attempt = e.attempt
              \/ posts[d.id] = 0 /\ delivered[d.id] = 0 /\ final[d.id] = 0,
           stage' = "idle" => stage = "idle",
           stage' = stage \/ current = {},
           \A w \in Webhook : task'[w] # "enqueued" =>
              task[w] # "enqueued" /\ w \notin Ids(file') \cup Ids(batch'),
           \A w \in Webhook : task'[w] \in {"new", "sending", "failed"} =>
              task[w] \in {"new", "sending", "failed"},
           delivered' = delivered
    PROVE  RepeatInv'
<1> USE DEF RepeatInv
<1>1. EntryInv'
  <2>1. \A w \in current' : w \notin Ids(batch') /\ final'[w] <= crashes'
    BY DEF EntryInv, Ids
  <2>2. \A w \in Webhook : task'[w] # "enqueued" =>
           /\ w \notin Ids(file') \cup Ids(batch') \cup current'
           /\ posts'[w] = 0 /\ final'[w] = 0
    BY DEF EntryInv
  <2>3. \A w \in Webhook : task'[w] \in {"new", "sending", "failed"} => delivered'[w] = 0
    BY DEF EntryInv
  <2>4. QED
    BY <2>1, <2>2, <2>3 DEF EntryInv
<1>2. \A e \in batch' : Spent(e, crashes)'
  BY DEF SpentInv, Spent
<1>3. ASSUME NEW d \in file'
      PROVE  /\ Spent(d, crashes + 1)'
             /\ stage' = "idle" => Spent(d, crashes)'
             /\ d.id \in todo' => posts'[d.id] <= d.attempt + crashes'
  <2>1. CASE \E e \in file : d.id = e.id /\ d.attempt = e.attempt
    BY <2>1 DEF SpentInv, Spent
  <2>2. CASE posts[d.id] = 0 /\ delivered[d.id] = 0 /\ final[d.id] = 0
    <3>1. d.attempt \in Nat /\ crashes \in Nat
      BY <1>3, Numbers, RetryAssumption DEF TypeOK, Entry
    <3>2. QED
      BY <2>2, <3>1 DEF Spent
  <2>3. QED
    BY <2>1, <2>2
<1>4. SpentInv'
  BY <1>2, <1>3 DEF SpentInv
<1>5. AttemptsBounded' /\ SettledOnce'
  BY DEF AttemptsBounded, SettledOnce
<1>6. QED
  BY <1>1, <1>4, <1>5

(* The handler: a webhook is executed once, and enqueued once.             *)
LEMMA RepeatHandler ==
    ASSUME TypeOK, TypeOK', RepeatInv, NEW w \in Webhook,
           Execute(w) \/ Executed(w) \/ Enqueue(w) \/ Elapse(w)
    PROVE  RepeatInv'
<1>1. CASE Execute(w)
  <2>1. task[w] = "new" /\ task' \in {[task EXCEPT ![w] = "sending"], [task EXCEPT ![w] = "over"]}
    BY <1>1 DEF Execute
  <2>2. \A x \in Webhook :
           \/ task'[x] = task[x]
           \/ x = w /\ task[x] = "new" /\ task'[x] \in {"sending", "over"}
    BY <2>1 DEF TypeOK
  <2>3. UNCHANGED <<file, stage, batch, todo, current, crashes, posts, delivered, final>>
    BY <1>1 DEF Execute, queue, history
  <2>4. \A x \in Webhook : task'[x] # "enqueued" =>
           task[x] # "enqueued" /\ x \notin Ids(file') \cup Ids(batch')
    BY <2>2, <2>3 DEF RepeatInv, EntryInv
  <2>5. OneEntry(file') /\ OneEntry(batch')
    BY <2>3 DEF RepeatInv, EntryInv
  <2>6. QED
    BY <2>2, <2>3, <2>4, <2>5, RepeatKept
<1>2. CASE Executed(w)
  <2>1. /\ task[w] = "sending"
        /\ \/ task' = [task EXCEPT ![w] = "over"]
           \/ task' = [task EXCEPT ![w] = "failed"] /\ delivered' = delivered
        /\ delivered' = delivered \/ delivered' = Count(delivered, w, MaxEnds)
    BY <1>2 DEF Executed
  <2>2. UNCHANGED <<file, stage, batch, todo, current, crashes, posts, final>>
    BY <1>2 DEF Executed, queue
  <2>3. delivered[w] = 0 /\ \A e \in file \cup batch : e.id # w
    BY <2>1 DEF RepeatInv, EntryInv, Ids
  <2>4. /\ \A x \in Webhook \ {w} : delivered'[x] = delivered[x] /\ task'[x] = task[x]
        /\ delivered'[w] <= 1
    <3>1. /\ Count(delivered, w, MaxEnds)[w] <= delivered[w] + 1
          /\ \A x \in Webhook \ {w} : Count(delivered, w, MaxEnds)[x] = delivered[x]
      BY Bounds, CountStep DEF TypeOK
    <3>2. \A x \in Webhook \ {w} : task'[x] = task[x]
      BY <2>1 DEF TypeOK
    <3>3. QED
      BY <2>1, <2>3, <3>1, <3>2
  <2>5. task'[w] = "over" \/ (task'[w] = "failed" /\ delivered'[w] = 0)
    <3>1. CASE task' = [task EXCEPT ![w] = "over"]
      BY <3>1 DEF TypeOK
    <3>2. CASE task' = [task EXCEPT ![w] = "failed"] /\ delivered' = delivered
      BY <2>3, <3>2 DEF TypeOK
    <3>3. QED
      BY <2>1, <3>1, <3>2
  <2>6. EntryInv'
    BY <2>1, <2>2, <2>3, <2>4, <2>5 DEF RepeatInv, EntryInv
  <2>7. \A e \in file \cup batch : delivered'[e.id] = delivered[e.id]
    BY <2>3, <2>4, Numbers
  <2>8. SpentInv'
    BY <2>2, <2>7 DEF RepeatInv, SpentInv, Spent
  <2>9. AttemptsBounded' /\ SettledOnce'
    <3>1. crashes \in Nat /\ delivered'[w] \in Nat
      BY Numbers, Bounds DEF TypeOK
    <3>2. delivered'[w] <= 1 + crashes
      BY <2>4, <3>1
    <3>3. QED
      BY <2>2, <2>4, <3>2 DEF RepeatInv, AttemptsBounded, SettledOnce
  <2>10. QED
    BY <2>6, <2>8, <2>9 DEF RepeatInv
<1>3. CASE Enqueue(w)
  <2> DEFINE new == [id |-> w, attempt |-> 0, ripe |-> FALSE]
  <2>1. /\ task[w] = "failed" /\ task' = [task EXCEPT ![w] = "enqueued"]
        /\ file' = file \cup {new}
        /\ UNCHANGED <<stage, batch, todo, current, crashes, posts, delivered, final>>
    BY <1>3 DEF Enqueue, history
  <2>2. new.id = w
    OBVIOUS
  <2> HIDE DEF new
  <2>3. \A x \in Webhook : task'[x] = IF x = w THEN "enqueued" ELSE task[x]
    BY <2>1 DEF TypeOK
  <2>4. /\ posts[w] = 0 /\ delivered[w] = 0 /\ final[w] = 0
        /\ w \notin Ids(file) \cup Ids(batch)
    BY <2>1 DEF RepeatInv, EntryInv
  <2>5. OneEntry(file') /\ OneEntry(batch')
    BY <2>1, <2>2, <2>4 DEF RepeatInv, EntryInv, OneEntry, Ids
  <2>6. Ids(file') = Ids(file) \cup {w}
    BY <2>1, <2>2 DEF Ids
  <2>7. \A x \in Webhook : task'[x] # "enqueued" =>
           task[x] # "enqueued" /\ x \notin Ids(file') \cup Ids(batch')
    BY <2>1, <2>3, <2>6 DEF RepeatInv, EntryInv
  <2>8. QED
    BY <2>1, <2>2, <2>3, <2>4, <2>5, <2>7, RepeatKept
<1>4. CASE Elapse(w)
  <2>1. /\ file' = Ripened(file, w) /\ batch' = Ripened(batch, w)
        /\ UNCHANGED <<task, stage, todo, current, crashes, posts, delivered, final>>
    BY <1>4 DEF Elapse, history
  <2>2. /\ OneEntry(file') /\ OneEntry(batch')
        /\ \A d \in file' : \E e \in file : d.id = e.id /\ d.attempt = e.attempt
        /\ \A d \in batch' : \E e \in batch : d.id = e.id /\ d.attempt = e.attempt
    BY <2>1, RipenedEntries DEF RepeatInv, EntryInv, TypeOK
  <2>3. Ids(file') = Ids(file) /\ Ids(batch') = Ids(batch)
    BY <2>1, RipenedFacts DEF TypeOK
  <2>4. \A x \in Webhook : task'[x] # "enqueued" =>
           task[x] # "enqueued" /\ x \notin Ids(file') \cup Ids(batch')
    BY <2>1, <2>3 DEF RepeatInv, EntryInv
  <2>5. QED
    BY <2>1, <2>2, <2>4, RepeatKept
<1>5. QED
  BY <1>1, <1>2, <1>3, <1>4

(* A request of the tick: the entry that was due has one attempt more, in  *)
(* the batch, or is gone from it with its attempts used up or its webhook  *)
(* delivered.                                                              *)
LEMMA RepeatRetry ==
    ASSUME TypeOK, TypeOK', RepeatInv, NEW e \in batch, Retry(e)
    PROVE  RepeatInv'
<1> USE DEF RepeatInv
<1> DEFINE next == [e EXCEPT !.attempt = e.attempt + 1, !.ripe = FALSE]
<1>1. /\ stage = "working" /\ current = {} /\ e.id \in todo
      /\ todo' = todo \ {e.id}
      /\ posts' = Count(posts, e.id, MaxPosts)
      /\ delivered' = delivered \/ delivered' = Count(delivered, e.id, MaxEnds)
      /\ \/ batch' = batch \ {e} /\ current' = {e.id}
         \/ /\ batch' = (batch \ {e}) \cup {next}
            /\ current' = {} /\ delivered' = delivered
      /\ UNCHANGED <<task, file, stage, crashes, final>>
  BY DEF Retry
<1>2. e \in Entry /\ e.id \in Webhook /\ e.attempt \in Nat /\ e.attempt + 1 <= MaxAttempts
  BY Numbers
<1>3. next.id = e.id /\ next.attempt = e.attempt + 1
  BY <1>2 DEF Entry
<1> HIDE DEF next
<1>4. /\ posts'[e.id] <= posts[e.id] + 1 /\ delivered'[e.id] <= delivered[e.id] + 1
      /\ \A x \in Webhook \ {e.id} : posts'[x] = posts[x] /\ delivered'[x] = delivered[x]
  <2>1. delivered[e.id] <= delivered[e.id] + 1
    BY <1>2, Numbers
  <2>2. /\ Count(delivered, e.id, MaxEnds)[e.id] <= delivered[e.id] + 1
        /\ \A x \in Webhook \ {e.id} : Count(delivered, e.id, MaxEnds)[x] = delivered[x]
    <3>1. delivered \in [Webhook -> 0..MaxEnds]
      BY DEF TypeOK
    <3>2. QED
      BY <1>2, <3>1, Bounds, CountStep
  <2>3. /\ Count(posts, e.id, MaxPosts)[e.id] <= posts[e.id] + 1
        /\ \A x \in Webhook \ {e.id} : Count(posts, e.id, MaxPosts)[x] = posts[x]
    <3>1. posts \in [Webhook -> 0..MaxPosts]
      BY DEF TypeOK
    <3>2. QED
      BY <1>2, <3>1, Bounds, CountStep
  <2>4. QED
    BY <1>1, <2>1, <2>2, <2>3
<1>5. /\ \A d \in batch \ {e} : d.id # e.id
      /\ \A d \in batch' : d \in batch \ {e} \/ d = next
      /\ Spent(e, crashes)
  BY <1>1 DEF EntryInv, OneEntry, SpentInv
<1>6. posts'[e.id] \in Nat /\ delivered'[e.id] \in Nat /\ crashes \in Nat
      /\ posts[e.id] \in Nat /\ delivered[e.id] \in Nat /\ final[e.id] \in Nat
  BY <1>2, Numbers, Bounds DEF TypeOK
<1>7. /\ posts'[e.id] <= e.attempt + 1 + crashes
      /\ delivered'[e.id] <= crashes + 1
      /\ final[e.id] <= crashes
  BY <1>2, <1>4, <1>5, <1>6 DEF Spent
<1>8. EntryInv'
  <2>1. OneEntry(batch')
    BY <1>1, <1>3, <1>5 DEF EntryInv, OneEntry
  <2>2. \A w \in current' : w \notin Ids(batch') /\ final'[w] <= crashes'
    BY <1>1, <1>5, <1>7 DEF Ids
  <2>3. Ids(batch') \subseteq Ids(batch) /\ e.id \in Ids(batch)
    BY <1>3, <1>5 DEF Ids
  <2>4. task[e.id] = "enqueued"
    BY <1>2, <2>3 DEF EntryInv
  <2>5. QED
    BY <1>1, <1>4, <2>1, <2>2, <2>3, <2>4 DEF EntryInv
<1>9. SpentInv'
  <2>1. ASSUME NEW d \in batch' PROVE Spent(d, crashes)'
    <3>1. CASE d \in batch \ {e}
      <4>1. d.id # e.id /\ d.id \in Webhook /\ Spent(d, crashes)
        BY <1>5, <3>1, Numbers DEF SpentInv
      <4>2. QED
        BY <1>1, <1>4, <4>1 DEF Spent
    <3>2. CASE d \notin batch \ {e}
      <4>1. d = next /\ delivered' = delivered
        BY <1>1, <1>5, <2>1, <3>2
      <4>2. QED
        BY <1>1, <1>2, <1>3, <1>5, <1>6, <1>7, <4>1 DEF Spent
    <3>3. QED
      BY <3>1, <3>2
  <2>2. ASSUME NEW d \in file'
        PROVE  /\ Spent(d, crashes + 1)'
               /\ d.id \in todo' => posts'[d.id] <= d.attempt + crashes'
    <3>1. d \in file /\ d.id \in Webhook /\ d.attempt \in Nat
      BY <1>1, <2>2, Numbers
    <3>2. CASE d.id = e.id
      <4>1. posts[d.id] <= d.attempt + crashes
        BY <1>1, <3>1, <3>2 DEF SpentInv
      <4>2. QED
        BY <1>1, <1>4, <1>6, <1>7, <3>1, <3>2, <4>1 DEF Spent
    <3>3. CASE d.id # e.id
      BY <1>1, <1>4, <3>1, <3>3 DEF Spent, SpentInv
    <3>4. QED
      BY <3>2, <3>3
  <2>3. QED
    BY <1>1, <2>1, <2>2 DEF SpentInv
<1>10. AttemptsBounded' /\ SettledOnce'
  <2>1. posts'[e.id] <= MaxAttempts + crashes
    BY <1>2, <1>6, <1>7, RetryAssumption
  <2>2. \A x \in Webhook : /\ posts'[x] <= MaxAttempts + crashes
                           /\ final[x] <= 1 + crashes /\ delivered'[x] <= 1 + crashes
    <3>1. ASSUME NEW x \in Webhook, x # e.id
          PROVE  /\ posts'[x] <= MaxAttempts + crashes
                 /\ final[x] <= 1 + crashes /\ delivered'[x] <= 1 + crashes
      BY <1>4, <3>1 DEF AttemptsBounded, SettledOnce
    <3>2. final[e.id] <= 1 + crashes /\ delivered'[e.id] <= 1 + crashes
      BY <1>6, <1>7
    <3>3. QED
      BY <2>1, <3>1, <3>2
  <2>3. QED
    BY <1>1, <2>2 DEF AttemptsBounded, SettledOnce
<1>11. QED
  BY <1>8, <1>9, <1>10

(* The rest of the tick: reading and rewriting the file move entries, and  *)
(* the end of a webhook is recorded when no entry of it is left.           *)
LEMMA RepeatTick ==
    ASSUME TypeOK, TypeOK', RepeatInv,
           ReadQueue \/ (\E w \in Webhook : Record(w)) \/ Truncate \/ WriteQueue
    PROVE  RepeatInv'
<1> USE DEF RepeatInv
<1>0. \A w \in Webhook : task[w] # "enqueued" => w \notin Ids(file) \cup Ids(batch)
  BY DEF EntryInv
<1>1. CASE ReadQueue
  <2>1. /\ stage = "idle" /\ stage' = "working" /\ batch' = file
        /\ UNCHANGED <<task, file, current, crashes, posts, delivered, final>>
    BY <1>1 DEF ReadQueue, history
  <2>2. EntryInv'
    BY <1>0, <2>1 DEF EntryInv
  <2>3. \A e \in file : Spent(e, crashes) /\ posts[e.id] <= e.attempt + crashes
    BY <2>1 DEF SpentInv, Spent
  <2>4. SpentInv'
    BY <2>1, <2>3 DEF SpentInv, Spent
  <2>5. QED
    BY <2>1, <2>2, <2>4 DEF AttemptsBounded, SettledOnce
<1>2. ASSUME NEW w \in Webhook, Record(w) PROVE RepeatInv'
  <2>1. /\ w \in current /\ current' = {} /\ final' = Count(final, w, MaxEnds)
        /\ UNCHANGED <<task, file, stage, batch, todo, crashes, posts, delivered>>
    BY <1>2 DEF Record
  <2>2. /\ final'[w] <= final[w] + 1
        /\ \A x \in Webhook \ {w} : final'[x] = final[x]
    <3>1. /\ Count(final, w, MaxEnds)[w] <= final[w] + 1
          /\ \A x \in Webhook \ {w} : Count(final, w, MaxEnds)[x] = final[x]
      BY Bounds, CountStep DEF TypeOK
    <3>2. QED
      BY <2>1, <3>1
  <2>3. final'[w] <= crashes + 1
    <3>1. final[w] <= crashes
      BY <2>1 DEF EntryInv
    <3>2. crashes \in Nat /\ final[w] \in Nat /\ final'[w] \in Nat
      BY Numbers, Bounds DEF TypeOK
    <3>3. QED
      BY <2>2, <3>1, <3>2
  <2>4. w \notin Ids(batch) /\ stage = "working"
    BY <2>1 DEF EntryInv
  <2>5. \A x \in Webhook : task[x] # "enqueued" => x # w
    BY <2>1 DEF EntryInv
  <2>6. EntryInv'
    BY <2>1, <2>2, <2>5 DEF EntryInv
  <2>7. \A e \in batch' : Spent(e, crashes)'
    <3>1. \A e \in batch : final'[e.id] = final[e.id]
      BY <2>2, <2>4, Numbers DEF Ids
    <3>2. QED
      BY <2>1, <3>1 DEF SpentInv, Spent
  <2>8. \A e \in file' : Spent(e, crashes + 1)'
    <3>1. \A e \in file : e.id = w \/ final'[e.id] = final[e.id]
      BY <2>2, Numbers
    <3>2. QED
      BY <2>1, <2>3, <3>1 DEF SpentInv, Spent
  <2>9. SpentInv'
    BY <2>1, <2>4, <2>7, <2>8 DEF SpentInv
  <2>10. AttemptsBounded' /\ SettledOnce'
    <3>1. final'[w] <= 1 + crashes
      BY <2>3, Numbers, Bounds DEF TypeOK
    <3>2. QED
      BY <2>1, <2>2, <3>1 DEF AttemptsBounded, SettledOnce
  <2>11. QED
    BY <2>6, <2>9, <2>10
<1>3. CASE Truncate
  <2>1. /\ current = {} /\ file' = {} /\ stage' = "writing"
        /\ UNCHANGED <<task, batch, todo, current, crashes, posts, delivered, final>>
    BY <1>3 DEF Truncate, history
  <2>2. OneEntry(file') /\ OneEntry(batch') /\ Ids(file') = {}
    BY <2>1 DEF EntryInv, OneEntry, Ids
  <2>3. \A w \in Webhook : task'[w] # "enqueued" =>
           task[w] # "enqueued" /\ w \notin Ids(file') \cup Ids(batch')
    BY <1>0, <2>1, <2>2
  <2>4. QED
    BY <2>1, <2>2, <2>3, RepeatKept
<1>4. CASE WriteQueue
  <2>1. /\ stage = "writing" /\ stage' = "idle" /\ file' = batch /\ batch' = {}
        /\ UNCHANGED <<task, todo, current, crashes, posts, delivered, final>>
    BY <1>4 DEF WriteQueue, history
  <2>2. Ids(batch') = {} /\ OneEntry(batch')
    BY <2>1 DEF Ids, OneEntry
  <2>3. EntryInv'
    BY <1>0, <2>1, <2>2 DEF EntryInv
  <2>4. \A e \in batch : Spent(e, crashes) /\ Spent(e, crashes + 1)
                           /\ posts[e.id] <= e.attempt + crashes
    BY Numbers DEF SpentInv, Spent
  <2>5. SpentInv'
    BY <2>1, <2>4 DEF SpentInv, Spent
  <2>6. QED
    BY <2>1, <2>3, <2>5 DEF AttemptsBounded, SettledOnce
<1>5. QED
  BY <1>1, <1>2, <1>3, <1>4

(* A crash makes the tick forget one request of an entry at most, and      *)
(* counts as much.                                                         *)
LEMMA RepeatCrash ==
    ASSUME TypeOK, TypeOK', RepeatInv, Crash
    PROVE  RepeatInv'
<1> USE DEF RepeatInv
<1>1. /\ crashes' = crashes + 1 /\ stage' = "idle"
      /\ batch' = {} /\ todo' = {} /\ current' = {}
      /\ UNCHANGED <<file, posts, delivered, final>>
  BY DEF Crash
<1>2. \A w \in Webhook : \/ task'[w] = task[w]
                         \/ task[w] \in {"sending", "failed"} /\ task'[w] = "over"
  BY DEF Crash, TypeOK
<1>3. EntryInv'
  <2>1. OneEntry(batch') /\ Ids(batch') = {}
    BY <1>1 DEF OneEntry, Ids
  <2>2. \A w \in Webhook : task'[w] # "enqueued" =>
           /\ w \notin Ids(file') \cup Ids(batch') \cup current'
           /\ posts'[w] = 0 /\ final'[w] = 0
    BY <1>1, <1>2, <2>1 DEF EntryInv
  <2>3. \A w \in Webhook : task'[w] \in {"new", "sending", "failed"} => delivered'[w] = 0
    BY <1>1, <1>2 DEF EntryInv
  <2>4. QED
    BY <1>1, <2>1, <2>2, <2>3 DEF EntryInv
<1>4. SpentInv'
  <2>1. \A e \in file : Spent(e, crashes + 1) /\ Spent(e, crashes + 1 + 1)
    BY Numbers DEF SpentInv, Spent
  <2>2. QED
    BY <1>1, <2>1 DEF SpentInv, Spent
<1>5. AttemptsBounded' /\ SettledOnce'
  BY <1>1, Numbers, RetryAssumption DEF AttemptsBounded, SettledOnce
<1>6. QED
  BY <1>3, <1>4, <1>5

(* Every step keeps the invariant.                                         *)
LEMMA RepeatStep ==
    ASSUME TypeOK, TypeOK', RepeatInv, [Next]_vars
    PROVE  RepeatInv'
<1>1. CASE Next
  BY <1>1, RepeatHandler, RepeatRetry, RepeatTick, RepeatCrash DEF Next, Tick
<1>2. CASE UNCHANGED vars
  <2>1. UNCHANGED <<task, file, stage, batch, todo, current, crashes, posts, delivered, final>>
    BY <1>2 DEF vars, queue, history
  <2>2. EntryInv' /\ SpentInv'
    BY <2>1 DEF RepeatInv, EntryInv, SpentInv, Spent
  <2>3. QED
    BY <2>1, <2>2 DEF RepeatInv, AttemptsBounded, SettledOnce
<1>3. QED
  BY <1>1, <1>2

(* Only a crash repeats: whatever is enqueued during a tick and however    *)
(* writeFile is interrupted, a webhook is sent MAX_DEFERRED_ATTEMPTS times *)
(* and once more for every crash at most, and gets through, and has its    *)
(* end recorded, once and once more for every crash at most                *)
(* (retry-scheduler.ts 161-282).                                           *)
THEOREM Repeats == Spec => [](AttemptsBounded /\ SettledOnce)
<1>1. Init => RepeatInv
  <2> SUFFICES ASSUME Init PROVE RepeatInv
    OBVIOUS
  <2>1. Ids(file) = {} /\ Ids(batch) = {} /\ OneEntry(file) /\ OneEntry(batch)
    BY DEF Init, Ids, OneEntry
  <2>2. EntryInv
    BY <2>1 DEF Init, EntryInv
  <2>3. SpentInv
    BY DEF Init, SpentInv
  <2>4. AttemptsBounded /\ SettledOnce
    BY RetryAssumption DEF Init, AttemptsBounded, SettledOnce
  <2>5. QED
    BY <2>2, <2>3, <2>4 DEF RepeatInv
<1>2. TypeOK /\ TypeOK' /\ RepeatInv /\ [Next]_vars => RepeatInv'
  BY RepeatStep
<1>3. RepeatInv => AttemptsBounded /\ SettledOnce
  BY DEF RepeatInv
<1>4. QED
  BY <1>1, <1>2, <1>3, RetryTypes, PTL DEF Spec

-----------------------------------------------------------------------------
(* The queue within the automations, for every length of the history:      *)
(* whatever appends and compactions do, the queue takes steps of           *)
(* RetryQueue only, so that what is proved of RetryQueue holds of the      *)
(* whole.                                                                  *)

(* Every step of the automations is a step of the queue, or one of the     *)
(* history by itself.                                                      *)
LEMMA StepOfQueue == AutomationNext => [Next]_vars
<1> SUFFICES ASSUME AutomationNext PROVE [Next]_vars
  OBVIOUS
<1>1. ASSUME NEW e \in batch, RetryDue(e) PROVE Next
  BY <1>1 DEF RetryDue, Next, Tick
<1>2. ASSUME NEW w \in Webhook, Outcome(w) \/ Event(w) \/ EnqueueFailed(w) PROVE Next
  BY <1>2 DEF Outcome, Event, EnqueueFailed, Next
<1>3. ASSUME NEW w \in Webhook, Elapse(w) PROVE Next
  BY <1>3 DEF Next
<1>4. ASSUME NEW w \in Webhook, Recorded(w) PROVE Next
  BY <1>4 DEF Recorded, Next, Tick
<1>5. CASE ReadQueue \/ Truncate \/ WriteQueue
  BY <1>5 DEF Next, Tick
<1>6. ASSUME NEW i \in 1..Len(line), AppendEntry(i) PROVE UNCHANGED vars
  BY <1>6 DEF AppendEntry
<1>7. CASE RunCompaction
  BY <1>7 DEF RunCompaction, vars
<1>8. CASE Restart
  BY <1>8 DEF Restart, Next
<1>9. QED
  BY <1>1, <1>2, <1>3, <1>4, <1>5, <1>6, <1>7, <1>8 DEF AutomationNext, Works

(* The automations implement the retry queue: the history they write, its  *)
(* mutex and its compaction, and the waiting of the handler and of the     *)
(* tick for their entries, only delay it (webhook-handler.ts,              *)
(* retry-scheduler.ts, history-store.ts).                                  *)
THEOREM AutomationsRetry == AutomationSpec => Spec
<1>1. AutomationInit => Init
  BY DEF AutomationInit
<1>2. [AutomationNext]_allVars => [Next]_vars
  <2>1. UNCHANGED allVars => UNCHANGED vars
    BY DEF allVars
  <2>2. QED
    BY <2>1, StepOfQueue
<1>3. QED
  BY <1>1, <1>2, PTL DEF AutomationSpec, Spec

(* The entries of the queue stay well formed.                              *)
THEOREM AutomationTypes == AutomationSpec => []TypeOK
BY AutomationsRetry, RetryTypes, PTL

(* No enqueued webhook is lost, whatever happens to the history, as long   *)
(* as no webhook fails during a tick and writeFile is not interrupted.     *)
THEOREM AutomationsLoseNothing ==
    ASSUME Undisturbed
    PROVE  AutomationSpec => []NeverLost
BY AutomationsRetry, NothingLost, PTL

(* Requests are repeated by crashes alone, and the ends of webhooks are    *)
(* recorded once and once more for every crash at most.                    *)
THEOREM AutomationsRepeat == AutomationSpec => []RepeatedByCrashes
<1>1. Spec => []RepeatedByCrashes
  BY Repeats, PTL DEF RepeatedByCrashes
<1>2. QED
  BY <1>1, AutomationsRetry, PTL
-----------------------------------------------------------------------------
(* The history.  First, recursion: what is defined by recursion over a
   prefix of a sequence exists, and so does what a filter keeps.           *)
Less == {p \in Nat \X Nat : p[1] < p[2]}

(* Every nonempty set of numbers has a least one. *)
LEMMA LeastNat ==
    ASSUME NEW T \in SUBSET Nat, T # {}
    PROVE  \E n \in T : \A k \in T : n <= k
<1>1. PICK n \in T : \A k \in T : ~(<<k, n>> \in Less)
  <2>1. IsWellFoundedOn(Less, Nat)
    BY NatLessThanWellFounded DEF OpToRel, Less
  <2> HIDE DEF Less
  <2>2. QED
    BY <2>1, WFMin
<1>2. ASSUME NEW k \in T PROVE n <= k
  <2>1. <<k, n>> \in Less <=> k < n
    BY DEF Less
  <2>2. n \in Nat /\ k \in Nat
    OBVIOUS
  <2>3. QED
    BY <1>1, <2>1, <2>2
<1>3. QED
  BY <1>2

(* A recursion over the numbers up to n has a solution.                    *)
Iterates(g, v, step, n) == g[0] = v /\ \A i \in 1..n : g[i] = step[i][g[i - 1]]

LEMMA Recursion ==
    ASSUME NEW n \in Nat, NEW V, NEW v \in V, NEW step \in [1..n -> [V -> V]]
    PROVE  \E g \in [0..n -> V] : Iterates(g, v, step, n)
<1> DEFINE Solved(k) == \E g \in [0..k -> V] : Iterates(g, v, step, k)
           Bad == {k \in 0..n : ~Solved(k)}
<1>1. Solved(0)
  <2> DEFINE h == [i \in 0..0 |-> v]
  <2>1. h \in [0..0 -> V] /\ h[0] = v
    OBVIOUS
  <2> HIDE DEF h
  <2>2. QED
    BY <2>1 DEF Iterates
<1>2. ASSUME NEW k \in 1..n, Solved(k - 1) PROVE Solved(k)
  <2>0. PICK g \in [0..k - 1 -> V] : Iterates(g, v, step, k - 1)
    BY <1>2
  <2>1. g[0] = v /\ \A i \in 1..k - 1 : g[i] = step[i][g[i - 1]]
    BY <2>0 DEF Iterates
  <2> DEFINE h == [i \in 0..k |-> IF i = k THEN step[k][g[k - 1]] ELSE g[i]]
  <2>2. step[k][g[k - 1]] \in V
    <3>1. g[k - 1] \in V /\ step[k] \in [V -> V]
      OBVIOUS
    <3>2. QED
      BY <3>1
  <2>3. h \in [0..k -> V]
    BY <2>2
  <2>4. h[0] = v
    BY <2>1
  <2>5. ASSUME NEW i \in 1..k PROVE h[i] = step[i][h[i - 1]]
    <3>1. i - 1 \in 0..k - 1 /\ h[i - 1] = g[i - 1]
      OBVIOUS
    <3>2. CASE i = k
      BY <3>1, <3>2
    <3>3. CASE i # k
      <4>1. i \in 1..k - 1 /\ h[i] = g[i]
        BY <3>3
      <4>2. g[i] = step[i][g[i - 1]]
        BY <2>1, <4>1
      <4>3. QED
        BY <3>1, <4>1, <4>2
    <3>4. QED
      BY <3>2, <3>3
  <2> HIDE DEF h
  <2>6. QED
    BY <2>3, <2>4, <2>5 DEF Iterates
<1> HIDE DEF Solved
<1>3. Bad = {}
  <2>1. SUFFICES ASSUME Bad # {} PROVE FALSE
    OBVIOUS
  <2>2. PICK k \in Bad : \A j \in Bad : k <= j
    <3>1. Bad \in SUBSET Nat
      OBVIOUS
    <3> HIDE DEF Bad
    <3>2. QED
      BY <2>1, <3>1, LeastNat
  <2>3. k \in 1..n
    BY <1>1
  <2>4. k - 1 \in 0..n /\ k - 1 \notin Bad
    BY <2>2, <2>3
  <2>5. QED
    BY <1>2, <2>3, <2>4
<1>4. Solved(n)
  BY <1>3
<1>5. QED
  BY <1>4 DEF Solved

Embeds(r, s, T, n, e) ==
    /\ e \in [1..Len(r) -> 1..n]
    /\ \A p \in 1..Len(r) : r[p] = s[e[p]] /\ s[e[p]] \in T
    /\ \A p, q \in 1..Len(r) : p < q => e[p] < e[q]
    /\ \A j \in 1..n : s[j] \in T => \E p \in 1..Len(r) : e[p] = j

LEMMA FilterFacts ==
    ASSUME NEW S, NEW s \in Seq(S), NEW T
    PROVE  /\ Filter(s, T) \in Seq(S)
           /\ \E e : Embeds(Filter(s, T), s, T, Len(s), e)
<1> DEFINE Body(g) == [i \in 0..Len(s) |->
                      IF i = 0 THEN <<>>
                      ELSE IF s[i] \in T THEN Append(g[i - 1], s[i]) ELSE g[i - 1]]
           f == CHOOSE g : g = Body(g)
           Good(n) == f[n] \in Seq(S) /\ \E e : Embeds(f[n], s, T, n, e)
           Bad == {n \in 0..Len(s) : ~Good(n)}
<1>1. Filter(s, T) = f[Len(s)]
  BY DEF Filter
<1>2. f = Body(f)
  <2> DEFINE step == [i \in 1..Len(s) |->
                        [q \in Seq(S) |-> IF s[i] \in T THEN Append(q, s[i]) ELSE q]]
  <2>1. step \in [1..Len(s) -> [Seq(S) -> Seq(S)]] /\ <<>> \in Seq(S) /\ Len(s) \in Nat
    <3>1. \A i \in 1..Len(s), q \in Seq(S) : Append(q, s[i]) \in Seq(S)
      OBVIOUS
    <3>2. QED
      BY <3>1
  <2>2. \A i \in 1..Len(s), q \in Seq(S) :
           step[i][q] = IF s[i] \in T THEN Append(q, s[i]) ELSE q
    OBVIOUS
  <2> HIDE DEF step
  <2>3. PICK g \in [0..Len(s) -> Seq(S)] : Iterates(g, <<>>, step, Len(s))
    BY <2>1, Recursion
  <2>4. \A i \in 1..Len(s) :
           g[i] = IF s[i] \in T THEN Append(g[i - 1], s[i]) ELSE g[i - 1]
    <3>1. \A i \in 1..Len(s) : g[i - 1] \in Seq(S)
      OBVIOUS
    <3>2. QED
      BY <2>2, <2>3, <3>1 DEF Iterates
  <2>5. g = Body(g)
    <3>1. \A i \in 0..Len(s) : i = 0 \/ i \in 1..Len(s)
      BY <2>1
    <3>2. g[0] = <<>>
      BY <2>3 DEF Iterates
    <3>3. \A i \in 0..Len(s) : g[i] = Body(g)[i]
      BY <2>4, <3>1, <3>2
    <3>4. DOMAIN Body(g) = 0..Len(s) /\ g = [i \in 0..Len(s) |-> g[i]]
      OBVIOUS
    <3>5. QED
      BY <3>3, <3>4
  <2> HIDE DEF Body
  <2>6. QED
    BY <2>5
<1>3. \A i \in 0..Len(s) : f[i] = IF i = 0 THEN <<>>
                     ELSE IF s[i] \in T THEN Append(f[i - 1], s[i]) ELSE f[i - 1]
  <2> HIDE DEF f
  <2>1. QED
    BY <1>2
<1>4. Len(s) \in Nat
  OBVIOUS
<1> HIDE DEF f
<1>5. Good(0)
  <2> DEFINE e == [p \in 1..0 |-> 0]
  <2>1. f[0] = <<>> /\ Len(<<>>) = 0 /\ <<>> \in Seq(S)
    BY <1>3, <1>4
  <2>2. Embeds(<<>>, s, T, 0, e)
    BY <2>1 DEF Embeds
  <2> HIDE DEF e
  <2>3. QED
    BY <2>1, <2>2
<1>6. ASSUME NEW n \in 1..Len(s), Good(n - 1) PROVE Good(n)
  <2>1. f[n - 1] \in Seq(S) /\ n \in Nat /\ n >= 1 /\ s[n] \in S
    BY <1>4, <1>6
  <2>2. PICK d : Embeds(f[n - 1], s, T, n - 1, d)
    BY <1>6
  <2>3. PICK r : r = f[n - 1] /\ r \in Seq(S) /\ Len(r) \in Nat
    BY <2>1
  <2>4. CASE s[n] \in T
    <3> DEFINE e == [p \in 1..Len(r) + 1 |-> IF p = Len(r) + 1 THEN n ELSE d[p]]
               q == Append(r, s[n])
    <3>1. f[n] = q /\ q \in Seq(S) /\ Len(q) = Len(r) + 1
      <4>1. n \in 0..Len(s) /\ n # 0
        BY <1>4, <2>1
      <4>2. f[n] = Append(f[n - 1], s[n])
        BY <1>3, <2>4, <4>1
      <4>3. QED
        BY <2>1, <2>3, <4>2
    <3>2. (\A p \in 1..Len(r) : q[p] = r[p]) /\ q[Len(r) + 1] = s[n]
      BY <2>1, <2>3
    <3> HIDE DEF q
    <3>3. d \in [1..Len(r) -> 1..n - 1]
      BY <2>2, <2>3 DEF Embeds
    <3>4. e \in [1..Len(q) -> 1..n]
      BY <2>1, <2>3, <3>1, <3>3
    <3>5. (\A p \in 1..Len(r) : e[p] = d[p] /\ d[p] < n) /\ e[Len(r) + 1] = n
      <4>1. \A p \in 1..Len(r) : p \in 1..Len(r) + 1 /\ p # Len(r) + 1 /\ d[p] \in 1..n - 1
        BY <2>3, <3>3
      <4>2. \A k \in 1..n - 1 : k < n
        BY <2>1
      <4>3. Len(r) + 1 \in 1..Len(r) + 1
        BY <2>3
      <4>4. QED
        BY <4>1, <4>2, <4>3
    <3> HIDE DEF e
    <3>6. \A p \in 1..Len(q) : p \in 1..Len(r) \/ p = Len(r) + 1
      BY <2>3, <3>1
    <3>7. \A p \in 1..Len(q) : q[p] = s[e[p]] /\ s[e[p]] \in T
      BY <2>2, <2>3, <2>4, <3>2, <3>5, <3>6 DEF Embeds
    <3>8. ASSUME NEW a \in 1..Len(q), NEW b \in 1..Len(q), a < b PROVE e[a] < e[b]
      <4>1. a \in 1..Len(r)
        BY <2>3, <3>1, <3>8
      <4>2. CASE b \in 1..Len(r)
        BY <2>2, <2>3, <3>5, <3>8, <4>1, <4>2 DEF Embeds
      <4>3. CASE b = Len(r) + 1
        BY <3>5, <4>1, <4>3
      <4>4. QED
        BY <3>6, <4>2, <4>3
    <3>9. ASSUME NEW j \in 1..n, s[j] \in T PROVE \E p \in 1..Len(q) : e[p] = j
      <4>1. CASE j = n
        BY <2>3, <3>1, <3>5, <4>1
      <4>2. CASE j # n
        <5>1. j \in 1..n - 1
          BY <2>1, <4>2
        <5>2. PICK p \in 1..Len(r) : d[p] = j
          BY <2>2, <2>3, <3>9, <5>1 DEF Embeds
        <5>3. p \in 1..Len(q) /\ e[p] = j
          BY <2>3, <3>1, <3>5, <5>2
        <5>4. QED
          BY <5>3
      <4>3. QED
        BY <4>1, <4>2
    <3>10. Embeds(q, s, T, n, e)
      BY <3>4, <3>7, <3>8, <3>9 DEF Embeds
    <3>11. QED
      BY <3>1, <3>10
  <2>5. CASE s[n] \notin T
    <3>1. f[n] = f[n - 1]
      BY <1>3, <1>4, <2>1, <2>5
    <3>2. Embeds(f[n], s, T, n, d)
      BY <2>1, <2>2, <2>3, <2>5, <3>1 DEF Embeds
    <3>3. QED
      BY <2>1, <3>1, <3>2
  <2>6. QED
    BY <2>4, <2>5
<1> HIDE DEF Good
<1>7. Bad = {}
  <2>1. SUFFICES ASSUME Bad # {} PROVE FALSE
    OBVIOUS
  <2>2. PICK n \in Bad : \A k \in Bad : n <= k
    <3>1. Bad \in SUBSET Nat
      OBVIOUS
    <3> HIDE DEF Bad
    <3>2. QED
      BY <2>1, <3>1, LeastNat
  <2>3. n \in 1..Len(s)
    BY <1>4, <1>5
  <2>4. n - 1 \in 0..Len(s) /\ n - 1 \notin Bad
    BY <2>2, <2>3, <1>4
  <2>5. QED
    BY <1>6, <2>3, <2>4
<1>8. Good(Len(s))
  BY <1>4, <1>7
<1>9. QED
  BY <1>1, <1>8 DEF Good
-----------------------------------------------------------------------------
LogEntry == [id : Webhook, n : Nat]

Ordered(s) == \A i, j \in 1..Len(s) : i < j => s[i].n < s[j].n

(* The entries of s after e. *)
After(s, e) == {f \in Range(s) : f.n > e.n}

LEMMA RangeFacts ==
    ASSUME NEW S, NEW s \in Seq(S)
    PROVE  /\ IsFiniteSet(Range(s))
           /\ \A e : e \in Range(s) <=> \E i \in 1..Len(s) : s[i] = e
<1>1. Len(s) \in Nat /\ DOMAIN s = 1..Len(s)
  OBVIOUS
<1>2. Range(s) = {s[i] : i \in 1..Len(s)}
  BY <1>1 DEF Range
<1>3. [i \in 1..Len(s) |-> s[i]] \in Surjection(1..Len(s), Range(s))
  BY <1>2 DEF Surjection
<1>4. IsFiniteSet(1..Len(s))
  BY <1>1, FS_Interval
<1>5. IsFiniteSet(Range(s))
  BY <1>3, <1>4, FS_Surjection
<1>6. QED
  BY <1>2, <1>5

(* compactEntries keeps the order, at most MaxEntries, and every entry that has fewer than MaxRuns
   of its automation and fewer than MaxEntries of all after it. *)
LEMMA CompactEntriesFacts ==
    ASSUME NEW s \in Seq(LogEntry), Ordered(s)
    PROVE  /\ CompactEntries(s) \in Seq(LogEntry)
           /\ Ordered(CompactEntries(s))
           /\ Len(CompactEntries(s)) <= MaxEntries
           /\ Range(CompactEntries(s)) \subseteq Range(s)
           /\ \A e \in Range(s) :
                 /\ Cardinality(After(s, e)) < MaxEntries
                 /\ Cardinality({f \in After(s, e) : f.id = e.id}) < MaxRuns
                 => e \in Range(CompactEntries(s))
<1> DEFINE T == {e \in Range(s) : Cardinality({f \in Range(s) : f.id = e.id /\ f.n > e.n}) < MaxRuns}
           r == Filter(s, T)
           a == IF Len(r) > MaxEntries THEN Len(r) - MaxEntries + 1 ELSE 1
           c == SubSeq(r, a, Len(r))
<1>1. CompactEntries(s) = c
  BY DEF CompactEntries, CompactedToTotal
<1>2. r \in Seq(LogEntry) /\ Len(s) \in Nat /\ MaxEntries \in Nat \ {0}
  BY FilterFacts, HistoryAssumption
<1>3. PICK e : Embeds(r, s, T, Len(s), e)
  BY FilterFacts
<1> HIDE DEF T, r
<1>4. Len(r) \in Nat /\ a \in 1..Len(r) + 1
  BY <1>2
<1>5. /\ c \in Seq(LogEntry) /\ Len(c) = Len(r) - a + 1
      /\ \A i \in 1..Len(c) : i + a - 1 \in 1..Len(r) /\ c[i] = r[i + a - 1]
  <2> HIDE DEF a
  <2>1. Len(c) = Len(r) - a + 1 /\ \A i \in 1..Len(r) - a + 1 : c[i] = r[a + i - 1]
    BY <1>2, <1>4
  <2>2. \A i \in a..Len(r) : r[i] \in LogEntry
    BY <1>2, <1>4
  <2>3. c \in Seq(LogEntry)
    BY <1>2, <1>4, <2>2
  <2>4. QED
    BY <1>4, <2>1, <2>3
<1>6. Len(c) <= MaxEntries
  BY <1>2, <1>4, <1>5
<1>0. \A i \in 1..Len(r) : r[i].n \in Nat
  <2>1. \A x \in LogEntry : x.n \in Nat
    BY DEF LogEntry
  <2>2. QED
    BY <1>2, <2>1
<1>7. Ordered(r)
  <2> SUFFICES ASSUME NEW i \in 1..Len(r), NEW j \in 1..Len(r), i < j
               PROVE  r[i].n < r[j].n
    BY DEF Ordered
  <2>1. e[i] < e[j] /\ e[i] \in 1..Len(s) /\ e[j] \in 1..Len(s) /\ r[i] = s[e[i]] /\ r[j] = s[e[j]]
    BY <1>3 DEF Embeds
  <2>2. QED
    BY <2>1 DEF Ordered
<1>8. Ordered(c)
  <2> SUFFICES ASSUME NEW i \in 1..Len(c), NEW j \in 1..Len(c), i < j
               PROVE  c[i].n < c[j].n
    BY DEF Ordered
  <2> HIDE DEF c, a
  <2>1. i + a - 1 \in 1..Len(r) /\ j + a - 1 \in 1..Len(r) /\ i + a - 1 < j + a - 1
    BY <1>4, <1>5
  <2>2. QED
    BY <1>5, <1>7, <2>1 DEF Ordered
<1>9. Range(c) \subseteq Range(s)
  <2> SUFFICES ASSUME NEW x \in Range(c) PROVE x \in Range(s)
    OBVIOUS
  <2> HIDE DEF c, a
  <2>1. PICK i \in 1..Len(c) : c[i] = x
    BY <1>5, RangeFacts
  <2>2. PICK p \in 1..Len(r) : r[p] = x
    BY <1>5, <2>1
  <2>3. e[p] \in 1..Len(s) /\ s[e[p]] = x
    BY <1>3, <2>2 DEF Embeds
  <2>4. QED
    BY <2>3, RangeFacts
<1>10. ASSUME NEW x \in Range(s), Cardinality(After(s, x)) < MaxEntries,
              Cardinality({f \in After(s, x) : f.id = x.id}) < MaxRuns
       PROVE  x \in Range(c)
  <2>1. x \in T
    <3>1. {f \in After(s, x) : f.id = x.id} = {f \in Range(s) : f.id = x.id /\ f.n > x.n}
      BY DEF After
    <3>2. QED
      BY <1>10, <3>1 DEF T
  <2>2. PICK k \in 1..Len(s) : s[k] = x
    BY RangeFacts
  <2>3. PICK p \in 1..Len(r) : e[p] = k
    BY <1>3, <2>1, <2>2 DEF Embeds
  <2>4. r[p] = x /\ p \in Nat
    BY <1>3, <1>4, <2>2, <2>3 DEF Embeds
  <2> DEFINE later == [q \in (p + 1)..Len(r) |-> r[q]]
  <2>5. later \in Injection((p + 1)..Len(r), After(s, x))
    <3>1. ASSUME NEW q \in (p + 1)..Len(r) PROVE r[q] \in After(s, x)
      <4>1. q \in 1..Len(r) /\ p < q
        BY <1>4, <2>4
      <4>2. r[q].n > x.n
        <5>1. r[p].n < r[q].n
          BY <1>7, <4>1 DEF Ordered
        <5>2. r[p].n \in Nat /\ r[q].n \in Nat
          BY <1>0, <1>4, <2>3, <4>1
        <5>3. QED
          BY <2>4, <5>1, <5>2
      <4>3. e[q] \in 1..Len(s) /\ s[e[q]] = r[q]
        BY <1>3, <4>1 DEF Embeds
      <4>4. QED
        BY <4>2, <4>3, RangeFacts DEF After
    <3>2. ASSUME NEW q \in (p + 1)..Len(r), NEW u \in (p + 1)..Len(r), r[q] = r[u] PROVE q = u
      <4>1. q \in 1..Len(r) /\ u \in 1..Len(r) /\ (q < u \/ u < q \/ q = u)
        BY <1>4, <2>4
      <4>2. r[q].n \in Nat
        BY <1>0, <4>1
      <4>3. QED
        BY <1>7, <3>2, <4>1, <4>2 DEF Ordered
    <3>3. QED
      BY <3>1, <3>2 DEF Injection, IsInjective
  <2>6. IsFiniteSet(After(s, x))
    <3>1. After(s, x) \in SUBSET Range(s) /\ IsFiniteSet(Range(s))
      BY RangeFacts DEF After
    <3>2. QED
      BY <3>1, FS_Subset
  <2> HIDE DEF later
  <2>7. Cardinality((p + 1)..Len(r)) <= Cardinality(After(s, x))
    BY <2>5, <2>6, FS_Injection
  <2>8. Cardinality((p + 1)..Len(r)) = IF p + 1 > Len(r) THEN 0 ELSE Len(r) - (p + 1) + 1
    <3>1. p + 1 \in Int /\ Len(r) \in Int
      BY <1>4, <2>4
    <3>2. QED
      BY <3>1, FS_Interval
  <2>9. Cardinality(After(s, x)) \in Nat
    BY <2>6, FS_CardinalityType
  <2>10. a <= p /\ p <= Len(r)
    BY <1>2, <1>4, <1>10, <2>4, <2>7, <2>8, <2>9
  <2>11. p - a + 1 \in 1..Len(c) /\ c[p - a + 1] = x
    BY <1>4, <1>5, <2>4, <2>10
  <2> HIDE DEF c
  <2>12. QED
    BY <1>5, <2>11, RangeFacts
<1>11. QED
  BY <1>1, <1>5, <1>6, <1>8, <1>9, <1>10

(* What a history must keep of its entries e.                              *)
Lasting(s, e) ==
    /\ Cardinality(After(s, e)) < MaxEntries
    /\ Cardinality({f \in After(s, e) : f.id = e.id}) < MaxRuns

LineJob == [id : Webhook, by : {"handler", "tick"}]

HistoryTypes ==
    /\ line \in Seq(LineJob)
    /\ log \in Seq(LogEntry) /\ logged \in Seq(LogEntry)
    /\ appends \in 0..MaxEntries - 1

HistoryInv ==
    /\ HistoryTypes
    /\ \A k \in 1..Len(logged) : logged[k].n = k
    /\ Ordered(log) /\ Range(log) \subseteq Range(logged)
    /\ \A e \in Range(logged) : Lasting(logged, e) => e \in Range(log)
    /\ compaction # None => compaction.content = log
    /\ compaction = None => Len(log) <= MaxEntries + appends
    /\ Len(log) <= 2 * MaxEntries

(* Of a part of the entries fewer come after e.                            *)
LEMMA LastingInPart ==
    ASSUME NEW s \in Seq(LogEntry), NEW t \in Seq(LogEntry), Range(s) \subseteq Range(t),
           NEW e, Lasting(t, e)
    PROVE  Lasting(s, e)
<1>1. IsFiniteSet(Range(t))
  BY RangeFacts
<1>2. ASSUME NEW A \in SUBSET Range(s), NEW B \in SUBSET Range(t), A \subseteq B, NEW k \in Nat,
             Cardinality(B) < k
      PROVE  Cardinality(A) < k
  <2>1. IsFiniteSet(B)
    BY <1>1, FS_Subset
  <2>2. A \in SUBSET B
    BY <1>2
  <2>3. IsFiniteSet(A) /\ Cardinality(A) <= Cardinality(B)
    BY <2>1, <2>2, FS_Subset
  <2>4. Cardinality(A) \in Nat /\ Cardinality(B) \in Nat
    BY <2>1, <2>3, FS_CardinalityType
  <2>5. QED
    BY <1>2, <2>3, <2>4
<1>3. After(s, e) \in SUBSET Range(s) /\ After(t, e) \in SUBSET Range(t)
      /\ After(s, e) \subseteq After(t, e)
  BY DEF After
<1>4. Cardinality(After(s, e)) < MaxEntries
  BY <1>2, <1>3, HistoryAssumption DEF Lasting
<1> DEFINE A == {f \in After(s, e) : f.id = e.id}
           B == {f \in After(t, e) : f.id = e.id}
<1>5. A \in SUBSET Range(s) /\ B \in SUBSET Range(t) /\ A \subseteq B
  BY <1>3
<1>6. Cardinality(B) < MaxRuns
  BY DEF Lasting
<1> HIDE DEF A, B
<1>7. Cardinality(A) < MaxRuns
  BY <1>2, <1>5, <1>6, HistoryAssumption
<1>8. QED
  BY <1>4, <1>7 DEF Lasting, A

(* A history that grows by one entry.                                      *)
LEMMA RangeAppend ==
    ASSUME NEW S, NEW s \in Seq(S), NEW x \in S
    PROVE  /\ Append(s, x) \in Seq(S)
           /\ Len(Append(s, x)) = Len(s) + 1
           /\ \A i \in 1..Len(s) : Append(s, x)[i] = s[i]
           /\ Append(s, x)[Len(s) + 1] = x
           /\ Range(Append(s, x)) = Range(s) \cup {x}
<1> DEFINE t == Append(s, x)
<1>1. /\ t \in Seq(S) /\ Len(s) \in Nat /\ Len(t) = Len(s) + 1
      /\ \A i \in 1..Len(s) : t[i] = s[i]
      /\ t[Len(s) + 1] = x
  OBVIOUS
<1> HIDE DEF t
<1>2. \A i \in 1..Len(t) : i \in 1..Len(s) \/ i = Len(s) + 1
  BY <1>1
<1>3. \A i \in 1..Len(s) : i \in 1..Len(t)
  BY <1>1
<1>4. Len(s) + 1 \in 1..Len(t)
  BY <1>1
<1>5. ASSUME NEW y \in Range(t) PROVE y \in Range(s) \cup {x}
  <2>1. PICK i \in 1..Len(t) : t[i] = y
    BY <1>1, RangeFacts
  <2>2. QED
    BY <1>1, <1>2, <2>1, RangeFacts
<1>6. ASSUME NEW y \in Range(s) PROVE y \in Range(t)
  <2>1. PICK i \in 1..Len(s) : s[i] = y
    BY RangeFacts
  <2>2. QED
    BY <1>1, <1>3, <2>1, RangeFacts
<1>7. x \in Range(t)
  BY <1>1, <1>4, RangeFacts
<1>8. QED
  BY <1>1, <1>5, <1>6, <1>7 DEF t

LEMMA HistoryInit == AutomationInit => HistoryInv
<1> SUFFICES ASSUME AutomationInit PROVE HistoryInv
  OBVIOUS
<1>1. /\ line = <<>> /\ log = <<>> /\ logged = <<>> /\ appends = 0 /\ compaction = None
      /\ Len(<<>>) = 0 /\ <<>> \in Seq(LogEntry) /\ <<>> \in Seq(LineJob)
  BY DEF AutomationInit
<1>2. Range(<<>>) = {}
  BY DEF Range
<1>3. MaxEntries \in Nat \ {0}
  BY HistoryAssumption
<1>4. Ordered(<<>>)
  BY DEF Ordered
<1>5. QED
  BY <1>1, <1>2, <1>3, <1>4 DEF HistoryInv, HistoryTypes

LEMMA WriteKeeps ==
    ASSUME HistoryInv, NEW w \in Webhook, NEW by \in {"handler", "tick"}, Write(w, by)
    PROVE  HistoryInv'
<1>1. /\ line' = Append(line, Job(w, by)) /\ UNCHANGED <<compaction, log, appends, logged>>
  BY DEF Write
<1>2. Job(w, by) \in LineJob
  BY DEF Job, LineJob
<1>3. line' \in Seq(LineJob)
  BY <1>1, <1>2 DEF HistoryInv, HistoryTypes
<1>4. QED
  BY <1>1, <1>3 DEF HistoryInv, HistoryTypes

(* The file is compacted, at the start or by an append.                    *)
LEMMA CompactionKeeps ==
    ASSUME HistoryInv, log' = CompactEntries(log), logged' = logged, compaction' = None,
           line' \in Seq(LineJob), appends' \in 0..MaxEntries - 1
    PROVE  HistoryInv'
<1>1. log \in Seq(LogEntry) /\ logged \in Seq(LogEntry) /\ Ordered(log)
      /\ Range(log) \subseteq Range(logged)
  BY DEF HistoryInv, HistoryTypes
<1>2. /\ log' \in Seq(LogEntry) /\ Ordered(log')
      /\ Len(log') <= MaxEntries /\ Range(log') \subseteq Range(log)
      /\ \A e \in Range(log) : Lasting(log, e) => e \in Range(log')
  BY <1>1, CompactEntriesFacts DEF Lasting
<1>3. \A e \in Range(logged) : Lasting(logged, e) => e \in Range(log')
  <2> SUFFICES ASSUME NEW e \in Range(logged), Lasting(logged, e) PROVE e \in Range(log')
    OBVIOUS
  <2>1. e \in Range(log)
    BY DEF HistoryInv
  <2>2. Lasting(log, e)
    BY <1>1, LastingInPart
  <2>3. QED
    BY <1>2, <2>1, <2>2
<1>4. Len(log') <= MaxEntries + appends' /\ Len(log') <= 2 * MaxEntries
  <2>1. MaxEntries \in Nat /\ appends' \in Nat /\ Len(log') \in Nat
    BY <1>2, HistoryAssumption
  <2>2. QED
    BY <1>2, <2>1
<1>5. HistoryTypes'
  BY <1>1, <1>2 DEF HistoryTypes
<1>6. \A k \in 1..Len(logged') : logged'[k].n = k
  BY DEF HistoryInv
<1>7. (\A e \in Range(logged) : Lasting(logged, e) => e \in Range(log))'
  BY <1>3
<1>8. Range(log') \subseteq Range(logged')
  BY <1>1, <1>2
<1>9. QED
  BY <1>2, <1>4, <1>5, <1>6, <1>7, <1>8 DEF HistoryInv

(* The first of the line is taken out of it.                               *)
LEMMA LineMoves ==
    ASSUME NEW s \in Seq(LineJob), Len(s) > 0
    PROVE  RemoveAt(s, 1) \in Seq(LineJob) /\ s[1] \in LineJob
<1>1. SubSeq(s, 1, 0) \in Seq(LineJob) /\ SubSeq(s, 2, Len(s)) \in Seq(LineJob)
  OBVIOUS
<1>2. RemoveAt(s, 1) = SubSeq(s, 1, 0) \o SubSeq(s, 2, Len(s))
  BY DEF RemoveAt
<1>3. QED
  BY <1>1, <1>2

LEMMA AppendKeeps ==
    ASSUME HistoryInv, NEW i \in 1..Len(line), AppendEntry(i)
    PROVE  HistoryInv'
<1>0. MaxEntries \in Nat \ {0}
  BY HistoryAssumption
<1>1. /\ line \in Seq(LineJob) /\ log \in Seq(LogEntry) /\ logged \in Seq(LogEntry)
      /\ appends \in 0..MaxEntries - 1
  BY DEF HistoryInv, HistoryTypes
<1>2. i = 1 /\ compaction = None /\ line' = RemoveAt(line, 1)
  BY DEF AppendEntry, Turn
<1>3. line' \in Seq(LineJob) /\ line[1] \in LineJob
  BY <1>1, <1>2, LineMoves
<1>4. CASE UNCHANGED <<compaction, log, appends, logged>>
  BY <1>3, <1>4 DEF HistoryInv, HistoryTypes
<1>5. CASE ~UNCHANGED <<compaction, log, appends, logged>>
  <2> DEFINE entry == [id |-> line[1].id, n |-> Len(logged) + 1]
  <2>1. /\ log' = Append(log, entry) /\ logged' = Append(logged, entry)
        /\ IF appends + 1 < MaxEntries
           THEN appends' = appends + 1 /\ UNCHANGED compaction
           ELSE appends' = 0 /\ compaction' = [jobs |-> {line[1]}, content |-> log']
    BY <1>2, <1>5 DEF AppendEntry
  <2>2. entry \in LogEntry /\ entry.n = Len(logged) + 1
    BY <1>1, <1>3 DEF LogEntry, LineJob
  <2> HIDE DEF entry
  <2>3. /\ log' \in Seq(LogEntry) /\ Len(log') = Len(log) + 1
        /\ \A k \in 1..Len(log) : log'[k] = log[k]
        /\ log'[Len(log) + 1] = entry
        /\ Range(log') = Range(log) \cup {entry}
    BY <1>1, <2>1, <2>2, RangeAppend
  <2>4. /\ logged' \in Seq(LogEntry) /\ Len(logged') = Len(logged) + 1
        /\ \A k \in 1..Len(logged) : logged'[k] = logged[k]
        /\ logged'[Len(logged) + 1] = entry
        /\ Range(logged') = Range(logged) \cup {entry}
    BY <1>1, <2>1, <2>2, RangeAppend
  <2>5. Len(log) \in Nat /\ Len(logged) \in Nat
    BY <1>1
  <2>6. \A k \in 1..Len(logged') : logged'[k].n = k
    <3>1. \A k \in 1..Len(logged') : k \in 1..Len(logged) \/ k = Len(logged) + 1
      BY <2>4, <2>5
    <3>2. \A k \in 1..Len(logged) : logged[k].n = k
      BY DEF HistoryInv
    <3>3. QED
      BY <2>2, <2>4, <3>1, <3>2
  <2>7. ASSUME NEW k \in 1..Len(log) PROVE log[k].n \in Nat /\ log[k].n < entry.n
    <3>1. log[k] \in Range(logged)
      <4>1. log[k] \in Range(log)
        BY <1>1, RangeFacts
      <4>2. QED
        BY <4>1 DEF HistoryInv
    <3>2. PICK j \in 1..Len(logged) : logged[j] = log[k]
      BY <1>1, <3>1, RangeFacts
    <3>3. log[k].n = j
      BY <3>2 DEF HistoryInv
    <3>4. QED
      BY <2>2, <2>5, <3>3
  <2>8. Ordered(log')
    <3> SUFFICES ASSUME NEW a \in 1..Len(log'), NEW b \in 1..Len(log'), a < b
                 PROVE  log'[a].n < log'[b].n
      BY DEF Ordered
    <3>1. a \in 1..Len(log)
      BY <2>3, <2>5
    <3>2. CASE b \in 1..Len(log)
      BY <2>3, <3>1, <3>2 DEF HistoryInv, Ordered
    <3>3. CASE b = Len(log) + 1
      BY <2>3, <2>7, <3>1, <3>3
    <3>4. QED
      BY <2>3, <2>5, <3>2, <3>3
  <2>9. Range(log') \subseteq Range(logged')
    BY <2>3, <2>4 DEF HistoryInv
  <2>10. ASSUME NEW e \in Range(logged'), Lasting(logged', e) PROVE e \in Range(log')
    <3>1. CASE e = entry
      BY <2>3, <3>1
    <3>2. CASE e \in Range(logged)
      <4>1. Range(logged) \subseteq Range(logged')
        BY <2>4
      <4>2. Lasting(logged, e)
        BY <1>1, <2>4, <2>10, <4>1, LastingInPart
      <4>3. QED
        BY <2>3, <3>2, <4>2 DEF HistoryInv
    <3>3. QED
      BY <2>4, <3>1, <3>2
  <2>11. Len(log) <= MaxEntries + appends /\ appends \in Nat
    BY <1>0, <1>1, <1>2 DEF HistoryInv
  <2>12. CASE appends + 1 < MaxEntries
    <3>1. appends' = appends + 1 /\ compaction' = None
      BY <1>2, <2>1, <2>12
    <3>2. /\ Len(log') <= MaxEntries + appends' /\ Len(log') <= 2 * MaxEntries
          /\ appends' \in 0..MaxEntries - 1
      BY <1>0, <2>3, <2>5, <2>11, <2>12, <3>1
    <3>3. QED
      BY <1>3, <2>3, <2>4, <2>6, <2>8, <2>9, <2>10, <3>1, <3>2 DEF HistoryInv, HistoryTypes
  <2>13. CASE ~(appends + 1 < MaxEntries)
    <3>1. appends' = 0 /\ compaction' = [jobs |-> {line[1]}, content |-> log']
      BY <2>1, <2>13
    <3>2. compaction'.content = log' /\ compaction'.jobs # {}
      BY <3>1
    <3>3. compaction' # None
      BY <3>2 DEF None
    <3>4. Len(log') <= 2 * MaxEntries /\ appends' \in 0..MaxEntries - 1
      BY <1>0, <1>1, <2>3, <2>5, <2>11, <3>1
    <3>5. QED
      BY <1>3, <2>3, <2>4, <2>6, <2>8, <2>9, <2>10, <3>2, <3>3, <3>4 DEF HistoryInv, HistoryTypes
  <2>14. QED
    BY <2>12, <2>13
<1>6. QED
  BY <1>4, <1>5

LEMMA HistoryStep ==
    ASSUME TypeOK, HistoryInv, [AutomationNext]_allVars
    PROVE  HistoryInv'
<1>1. ASSUME UNCHANGED store PROVE HistoryInv'
  BY <1>1 DEF store, HistoryInv, HistoryTypes
<1>2. ASSUME NEW w \in Webhook, Event(w) PROVE HistoryInv'
  BY <1>1, <1>2, WriteKeeps DEF Event
<1>3. ASSUME NEW w \in Webhook, Outcome(w) PROVE HistoryInv'
  BY <1>3, WriteKeeps DEF Outcome
<1>4. ASSUME NEW e \in batch, RetryDue(e) PROVE HistoryInv'
  <2>1. e.id \in Webhook
    BY DEF TypeOK, Entry
  <2>2. QED
    BY <1>1, <1>4, <2>1, WriteKeeps DEF RetryDue
<1>5. CASE RunCompaction
  <2>1. compaction # None /\ log' = CompactEntries(compaction.content) /\ compaction' = None
        /\ UNCHANGED <<line, appends, logged>>
    BY <1>5 DEF RunCompaction
  <2>2. compaction.content = log
    BY <2>1 DEF HistoryInv
  <2>3. line' \in Seq(LineJob) /\ appends' \in 0..MaxEntries - 1
    BY <2>1 DEF HistoryInv, HistoryTypes
  <2>4. QED
    BY <2>1, <2>2, <2>3, CompactionKeeps
<1>6. CASE Restart
  <2>1. line' = <<>> /\ compaction' = None /\ appends' = 0 /\ log' = CompactEntries(log)
        /\ logged' = logged
    BY <1>6 DEF Restart
  <2>2. line' \in Seq(LineJob) /\ appends' \in 0..MaxEntries - 1
    BY <2>1, HistoryAssumption
  <2>3. QED
    BY <2>1, <2>2, CompactionKeeps
<1>7. CASE UNCHANGED allVars
  BY <1>1, <1>7 DEF allVars
<1>8. ASSUME NEW w \in Webhook, Recorded(w) \/ EnqueueFailed(w) PROVE HistoryInv'
  BY <1>1, <1>8 DEF Recorded, EnqueueFailed
<1>9. QED
  BY <1>1, <1>2, <1>3, <1>4, <1>5, <1>6, <1>7, <1>8, AppendKeeps DEF AutomationNext, Works

(* Whatever appends, drains and compactions of the history cross each other, *)
(* and whatever a crash interrupts, the entries that are within the limits *)
(* stay, in their order, and the log does not grow beyond twice the limit. *)
THEOREM HistoryIsKept == AutomationSpec => []HistoryKept
<1>1. HistoryInv => HistoryKept
  <2> SUFFICES ASSUME HistoryInv PROVE HistoryKept
    OBVIOUS
  <2>1. \A e \in Range(logged) : Lasting(logged, e) => e \in Range(log)
    BY DEF HistoryInv
  <2>2. \A i, j \in 1..Len(log) : i < j => log[i].n < log[j].n
    BY DEF HistoryInv, Ordered
  <2>3. Len(log) <= 2 * MaxEntries
    BY DEF HistoryInv
  <2>4. HistoryKept = ( /\ {e \in Range(logged) : Lasting(logged, e)} \subseteq Range(log)
                        /\ \A i, j \in 1..Len(log) : i < j => log[i].n < log[j].n
                        /\ Len(log) <= 2 * MaxEntries)
    BY DEF HistoryKept, Lasting, After
  <2>5. {e \in Range(logged) : Lasting(logged, e)} \subseteq Range(log)
    BY <2>1
  <2>6. QED
    BY <2>2, <2>3, <2>4, <2>5
<1>2. TypeOK /\ HistoryInv /\ [AutomationNext]_allVars => HistoryInv'
  BY HistoryStep
<1>3. QED
  BY <1>1, <1>2, AutomationTypes, HistoryInit, PTL DEF AutomationSpec
-----------------------------------------------------------------------------
(* The limiters, for any number of times in any order that time has.       *)
Timely(times) ==
    /\ times \in Seq(Nat)
    /\ \A i, j \in 1..Len(times) : i <= j => times[i] <= times[j]

RateRecord(limit) == [count : 0..limit, start : Nat]

LEMMA RatesFacts ==
    ASSUME NEW times, Timely(times), Len(times) > 0, NEW limit \in Nat
    PROVE  /\ Rates(times, limit)[0] = [count |-> 0, start |-> times[1]]
           /\ \A i \in 1..Len(times) :
                 Rates(times, limit)[i] = Emit(Rates(times, limit)[i - 1], times[i], limit)
           /\ \A i \in 0..Len(times) : Rates(times, limit)[i] \in RateRecord(limit)
<1> DEFINE n == Len(times)
           V == RateRecord(limit)
           v == [count |-> 0, start |-> times[1]]
           Body(g) == [i \in 0..n |-> IF i = 0 THEN v ELSE Emit(g[i - 1], times[i], limit)]
           f == CHOOSE g : g = Body(g)
           step == [i \in 1..n |-> [r \in V |-> Emit(r, times[i], limit)]]
<1>1. Rates(times, limit) = f
  BY DEF Rates
<1>2. n \in Nat /\ v \in V /\ \A i \in 1..n : times[i] \in Nat
  BY DEF Timely, RateRecord
<1>3. \A i \in 1..n, r \in V : Emit(r, times[i], limit) \in V
  <2> SUFFICES ASSUME NEW i \in 1..n, NEW r \in V PROVE Emit(r, times[i], limit) \in V
    OBVIOUS
  <2>1. r.count \in 0..limit /\ r.start \in Nat /\ times[i] \in Nat
    BY <1>2 DEF RateRecord
  <2> HIDE DEF n
  <2>2. QED
    BY <2>1 DEF Emit, RateRecord
<1>4. step \in [1..n -> [V -> V]] /\ \A i \in 1..n, r \in V : step[i][r] = Emit(r, times[i], limit)
  BY <1>3
<1> HIDE DEF step, V, v, n
<1>5. PICK g \in [0..n -> V] : Iterates(g, v, step, n)
  BY <1>2, <1>4, Recursion
<1>6. g[0] = v /\ \A i \in 1..n : g[i] = Emit(g[i - 1], times[i], limit)
  <2>1. \A i \in 1..n : g[i - 1] \in V
    BY <1>2
  <2>2. QED
    BY <1>4, <1>5, <2>1 DEF Iterates
<1>7. g = Body(g)
  <2>1. \A i \in 0..n : i = 0 \/ i \in 1..n
    BY <1>2
  <2>2. \A i \in 0..n : g[i] = Body(g)[i]
    BY <1>6, <2>1
  <2>3. g = [i \in 0..n |-> g[i]] /\ DOMAIN Body(g) = 0..n
    OBVIOUS
  <2>4. QED
    BY <2>2, <2>3
<1>8. f = Body(f)
  <2> HIDE DEF Body
  <2>1. QED
    BY <1>7
<1> HIDE DEF f
<1>9. f[0] = v /\ \A i \in 1..n : f[i] = Emit(f[i - 1], times[i], limit)
  <2>1. 0 \in 0..n /\ \A i \in 1..n : i \in 0..n /\ i # 0
    BY <1>2
  <2>2. QED
    BY <1>8, <2>1
<1> DEFINE Bad == {i \in 0..n : f[i] \notin V}
<1>10. Bad = {}
  <2>1. SUFFICES ASSUME Bad # {} PROVE FALSE
    OBVIOUS
  <2>2. PICK k \in Bad : \A j \in Bad : k <= j
    <3>1. Bad \in SUBSET Nat
      OBVIOUS
    <3> HIDE DEF Bad
    <3>2. QED
      BY <2>1, <3>1, LeastNat
  <2>3. k \in 1..n
    BY <1>2, <1>9
  <2>4. k - 1 \in 0..n /\ k - 1 \notin Bad
    BY <1>2, <2>2, <2>3
  <2>5. QED
    BY <1>3, <1>9, <2>3, <2>4
<1>11. QED
  BY <1>1, <1>9, <1>10 DEF v, V, n

(* The times of S that the window of the i-th shows.                       *)
Before(times, S, i) == {j \in S : j < i /\ times[j] > times[i] - Window}

Changes(f, times) == {i \in 1..Len(times) : f[i] # f[i - 1]}

(* The event bus.  Of what was emitted by i, the current window has as     *)
(* many as it has counted, and the one before it no more than the limit.   *)
Current(times, R, i) ==
    {j \in Changes(R, times) : j <= i /\ times[j] >= R[i].start}

Previous(times, R, i) ==
    {j \in Changes(R, times) : j <= i /\ times[j] < R[i].start /\ times[j] > R[i].start - Window}

RateInv(times, R, i, limit) ==
    /\ \A j \in 1..Len(times) : j >= i => R[i].start <= times[j]
    /\ Cardinality(Current(times, R, i)) = R[i].count
    /\ Cardinality(Previous(times, R, i)) <= limit
    /\ \A j \in Changes(R, times) : j <= i => times[j] < R[i].start + Window

(* Sets of numbers of times are finite.                                    *)
LEMMA FiniteTimes ==
    ASSUME NEW n \in Nat, NEW A, A \subseteq 1..n
    PROVE  IsFiniteSet(A) /\ Cardinality(A) \in Nat
<1>1. IsFiniteSet(1..n)
  BY FS_Interval
<1>2. IsFiniteSet(A)
  BY <1>1, FS_Subset
<1>3. QED
  BY <1>2, FS_CardinalityType

LEMMA SmallerTimes ==
    ASSUME NEW n \in Nat, NEW A, NEW B, B \subseteq 1..n, A \subseteq B
    PROVE  Cardinality(A) <= Cardinality(B)
<1>1. IsFiniteSet(B) /\ A \in SUBSET B
  BY FiniteTimes
<1>2. QED
  BY <1>1, FS_Subset

(* One step of emit.                                                       *)
LEMMA RateStep ==
    ASSUME NEW times, Timely(times), NEW limit \in Nat \ {0}, NEW R,
           \A i \in 0..Len(times) : R[i] \in RateRecord(limit),
           NEW i \in 1..Len(times), R[i] = Emit(R[i - 1], times[i], limit),
           RateInv(times, R, i - 1, limit)
    PROVE  /\ RateInv(times, R, i, limit)
           /\ Cardinality(Before(times, Changes(R, times), i)) < limit => i \in Changes(R, times)
           /\ i \in Changes(R, times) =>
                 Cardinality(Before(times, Changes(R, times), i)) < 2 * limit
<1> DEFINE n == Len(times)
           E == Changes(R, times)
           r == R[i - 1]
           now == times[i]
           C == Current(times, R, i - 1)
           P == Previous(times, R, i - 1)
           B == Before(times, E, i)
<1>1. n \in Nat /\ i \in Nat /\ i >= 1 /\ i <= n
      /\ (\A j \in 1..n : times[j] \in Nat) /\ E \subseteq 1..n
  BY DEF Timely, Changes
<1>2. Window \in Nat /\ Window > 0 /\ r.count \in 0..limit /\ r.start \in Nat /\ r = [count |-> r.count, start |-> r.start]
  <2>1. i - 1 \in 0..Len(times)
    BY <1>1
  <2>2. QED
    BY <2>1, LimitAssumption DEF RateRecord
<1>3. R[i] = [count |-> IF (IF now - r.start >= Window THEN 0 ELSE r.count) >= limit
                       THEN (IF now - r.start >= Window THEN 0 ELSE r.count)
                       ELSE (IF now - r.start >= Window THEN 0 ELSE r.count) + 1,
              start |-> IF now - r.start >= Window THEN now ELSE r.start]
  BY DEF Emit
<1>4. i \in E <=> R[i] # r
  BY <1>1 DEF Changes
<1>5. /\ C \subseteq 1..n /\ P \subseteq 1..n /\ B \subseteq 1..n
      /\ Cardinality(C) \in Nat /\ Cardinality(P) \in Nat /\ Cardinality(B) \in Nat
  <2>1. C \subseteq 1..n /\ P \subseteq 1..n /\ B \subseteq 1..n
    BY <1>1 DEF Current, Previous, Before
  <2>2. QED
    BY <1>1, <2>1, FiniteTimes
<1>6. /\ r.start <= now /\ now \in Nat
      /\ \A j \in 1..n : j >= i => r.start <= times[j] /\ now <= times[j]
      /\ Cardinality(C) = r.count /\ Cardinality(P) <= limit
      /\ \A j \in E : j < i => times[j] < r.start + Window
  <2>1. \A j \in 1..n : j >= i => j >= i - 1
    BY <1>1
  <2>2. \A j \in E : j < i => j <= i - 1
    BY <1>1
  <2>3. \A j \in 1..n : j >= i => times[i] <= times[j]
    BY <1>1 DEF Timely
  <2>4. QED
    BY <1>1, <2>1, <2>2, <2>3 DEF RateInv
<1>7. \A j : /\ j \in C <=> j \in E /\ j < i /\ times[j] >= r.start
             /\ j \in P <=> j \in E /\ j < i /\ times[j] < r.start /\ times[j] > r.start - Window
             /\ j \in B <=> j \in E /\ j < i /\ times[j] > now - Window
  <2>1. \A j \in E : j <= i - 1 <=> j < i
    BY <1>1
  <2>2. QED
    BY <2>1 DEF Current, Previous, Before
<1>8. \A j : /\ j \in Current(times, R, i) <=> j \in E /\ j <= i /\ times[j] >= R[i].start
             /\ j \in Previous(times, R, i) <=>
                   j \in E /\ j <= i /\ times[j] < R[i].start /\ times[j] > R[i].start - Window
  BY DEF Current, Previous
<1>9. \A j \in E : j \in 1..n /\ times[j] \in Nat /\ (j <= i <=> j < i \/ j = i)
  BY <1>1
<1>0. times[i] = now /\ i \in 1..n
  BY <1>1
<1> HIDE DEF E, r, now, C, P, B, n
<1>10. CASE now - r.start >= Window
  <2>1. R[i] = [count |-> 1, start |-> now]
    BY <1>3, <1>10
  <2>2. i \in E
    BY <1>2, <1>4, <1>6, <1>10, <2>1
  <2>3. Current(times, R, i) = {i}
    <3>1. R[i].start = now
      BY <2>1
    <3>2. ASSUME NEW j \in E, j <= i, times[j] >= now PROVE j = i
      <4>1. j \in 1..n /\ times[j] \in Nat /\ (j < i => times[j] < r.start + Window)
        BY <1>6, <1>9
      <4>2. now \in Nat /\ r.start \in Nat /\ Window \in Nat
        BY <1>2, <1>6
      <4>3. ~(j < i)
        BY <1>10, <3>2, <4>1, <4>2
      <4>4. QED
        BY <1>1, <3>2, <4>1, <4>3
    <3>3. i <= i /\ times[i] >= now
      BY <1>0, <1>1, <1>6
    <3>4. QED
      BY <1>8, <2>2, <3>1, <3>2, <3>3
  <2>4. Cardinality({i}) = 1
    BY FS_Singleton
  <2>5. Previous(times, R, i) \subseteq C
    <3>1. R[i].start = now
      BY <2>1
    <3>2. ASSUME NEW j \in E, j <= i, times[j] < now, times[j] > now - Window
          PROVE  j < i /\ times[j] >= r.start
      <4>1. j \in 1..n /\ times[j] \in Nat /\ (j <= i <=> j < i \/ j = i)
        BY <1>9
      <4>2. j # i
        BY <1>0, <1>6, <3>2
      <4>3. QED
        BY <1>2, <1>6, <1>10, <3>2, <4>1, <4>2
    <3>3. QED
      BY <1>7, <1>8, <3>1, <3>2
  <2>6. Cardinality(Previous(times, R, i)) <= Cardinality(C)
    BY <1>1, <1>5, <2>5, SmallerTimes
  <2>7. Cardinality(Previous(times, R, i)) <= limit
    <3>1. Cardinality(Previous(times, R, i)) \in Nat
      BY <1>1, <1>5, <2>5, FiniteTimes
    <3>2. QED
      BY <1>2, <1>6, <2>6, <3>1
  <2>8. \A j \in E : j <= i => times[j] < R[i].start + Window
    <3>1. ASSUME NEW j \in E, j < i PROVE times[j] < now + Window
      <4>1. times[j] < r.start + Window /\ times[j] \in Nat
        BY <1>6, <1>9, <3>1
      <4>2. now \in Nat /\ r.start \in Nat /\ Window \in Nat /\ r.start <= now
        BY <1>2, <1>6
      <4>3. QED
        BY <4>1, <4>2
    <3>2. times[i] < now + Window
      BY <1>0, <1>2, <1>6
    <3>3. QED
      BY <1>9, <2>1, <3>1, <3>2
  <2>9. RateInv(times, R, i, limit)
    BY <1>6, <2>1, <2>3, <2>4, <2>7, <2>8 DEF RateInv, n, E
  <2>10. B \subseteq C
    <3>1. ASSUME NEW j \in E, j < i, times[j] > now - Window PROVE times[j] >= r.start
      BY <1>2, <1>6, <1>9, <1>10, <3>1
    <3>2. QED
      BY <1>7, <3>1
  <2>11. Cardinality(B) <= Cardinality(C)
    BY <1>1, <1>5, <2>10, SmallerTimes
  <2>12. Cardinality(B) < 2 * limit
    BY <1>2, <1>5, <1>6, <2>11
  <2>13. QED
    BY <2>2, <2>9, <2>12 DEF B, E
<1>11. CASE ~(now - r.start >= Window) /\ r.count >= limit
  <2>1. R[i] = r
    BY <1>2, <1>3, <1>11
  <2>2. i \notin E
    BY <1>4, <2>1
  <2>3. Current(times, R, i) = C /\ Previous(times, R, i) = P
    BY <1>7, <1>8, <1>9, <2>1, <2>2
  <2>4. \A j \in E : j <= i => times[j] < R[i].start + Window
    BY <1>6, <1>9, <2>1, <2>2
  <2>5. RateInv(times, R, i, limit)
    BY <1>6, <2>1, <2>3, <2>4 DEF RateInv, n, E
  <2>6. C \subseteq B
    <3>1. ASSUME NEW j \in E, j < i, times[j] >= r.start PROVE times[j] > now - Window
      BY <1>2, <1>6, <1>9, <1>11, <3>1
    <3>2. QED
      BY <1>7, <3>1
  <2>7. Cardinality(C) <= Cardinality(B)
    BY <1>1, <1>5, <2>6, SmallerTimes
  <2>8. ~(Cardinality(B) < limit)
    BY <1>2, <1>5, <1>6, <1>11, <2>7
  <2>9. QED
    BY <2>2, <2>5, <2>8 DEF B, E
<1>12. CASE ~(now - r.start >= Window) /\ r.count < limit
  <2>1. R[i] = [count |-> r.count + 1, start |-> r.start]
    BY <1>2, <1>3, <1>12
  <2>2. i \in E
    BY <1>2, <1>4, <2>1
  <2>3. Current(times, R, i) = C \cup {i} /\ i \notin C
    <3>1. R[i].start = r.start
      BY <2>1
    <3>2. i <= i /\ times[i] >= r.start /\ ~(i < i)
      BY <1>0, <1>1, <1>2, <1>6
    <3>3. ASSUME NEW j PROVE j \in Current(times, R, i) <=> j \in C \/ j = i
      <4>1. CASE j \in E
        BY <1>7, <1>8, <1>9, <3>1, <3>2, <4>1
      <4>2. CASE j \notin E
        BY <1>7, <1>8, <2>2, <4>2
      <4>3. QED
        BY <4>1, <4>2
    <3>4. i \notin C
      BY <1>7, <3>2
    <3>5. QED
      BY <3>3, <3>4
  <2>4. Previous(times, R, i) = P
    <3>1. R[i].start = r.start
      BY <2>1
    <3>2. ~(times[i] < r.start)
      BY <1>0, <1>2, <1>6
    <3>3. ASSUME NEW j PROVE j \in Previous(times, R, i) <=> j \in P
      <4>1. CASE j \in E
        BY <1>7, <1>8, <1>9, <3>1, <3>2, <4>1
      <4>2. CASE j \notin E
        BY <1>7, <1>8, <4>2
      <4>3. QED
        BY <4>1, <4>2
    <3>4. QED
      BY <3>3
  <2>5. Cardinality(C \cup {i}) = Cardinality(C) + 1
    <3>1. IsFiniteSet(C)
      BY <1>1, <1>5, FiniteTimes
    <3>2. QED
      BY <2>3, <3>1, FS_AddElement
  <2>6. \A j \in E : j <= i => times[j] < R[i].start + Window
    BY <1>2, <1>6, <1>9, <1>12, <2>1 DEF now
  <2>7. RateInv(times, R, i, limit)
    BY <1>6, <2>1, <2>3, <2>4, <2>5, <2>6 DEF RateInv, n, E
  <2>8. B \subseteq C \cup P
    <3>1. ASSUME NEW j \in E, j < i, times[j] > now - Window
          PROVE  times[j] >= r.start \/ (times[j] < r.start /\ times[j] > r.start - Window)
      BY <1>2, <1>6, <1>9, <3>1
    <3>2. QED
      BY <1>7, <3>1
  <2>9. Cardinality(B) <= Cardinality(C \cup P)
    <3>1. C \cup P \subseteq 1..n
      BY <1>5
    <3>2. QED
      BY <1>1, <2>8, <3>1, SmallerTimes
  <2>10. Cardinality(C \cup P) <= Cardinality(C) + Cardinality(P)
    <3>1. IsFiniteSet(C) /\ IsFiniteSet(P) /\ C \cap P \subseteq 1..n
      BY <1>1, <1>5, FiniteTimes
    <3>2. Cardinality(C \cap P) \in Nat
      BY <1>1, <3>1, FiniteTimes
    <3>3. Cardinality(C \cup P) = Cardinality(C) + Cardinality(P) - Cardinality(C \cap P)
      BY <3>1, FS_Union
    <3>4. QED
      BY <1>5, <3>2, <3>3
  <2>11. Cardinality(B) < 2 * limit
    <3>1. Cardinality(C \cup P) \in Nat
      <4>1. C \cup P \subseteq 1..n
        BY <1>5
      <4>2. QED
        BY <1>1, <4>1, FiniteTimes
    <3>2. QED
      BY <1>2, <1>5, <1>6, <1>12, <2>9, <2>10, <3>1
  <2>12. QED
    BY <2>2, <2>7, <2>11 DEF B, E
<1>13. QED
  BY <1>2, <1>10, <1>11, <1>12

LEMMA RatesLimit ==
    ASSUME NEW times, Timely(times), NEW limit \in Nat \ {0}, NEW i \in 1..Len(times)
    PROVE  LET E == Changes(Rates(times, limit), times)
           IN  /\ Cardinality(Before(times, E, i)) < limit => i \in E
               /\ i \in E => Cardinality(Before(times, E, i)) < 2 * limit
<1> DEFINE R == Rates(times, limit)
           n == Len(times)
           Bad == {k \in 0..n : ~RateInv(times, R, k, limit)}
<1>1. n \in Nat /\ n > 0 /\ (\A j \in 1..n : times[j] \in Nat) /\ 1 \in 1..n
  BY DEF Timely
<1>2. /\ R[0] = [count |-> 0, start |-> times[1]]
      /\ \A k \in 1..n : R[k] = Emit(R[k - 1], times[k], limit)
      /\ \A k \in 0..n : R[k] \in RateRecord(limit)
  BY <1>1, RatesFacts
<1> HIDE DEF R
<1>3. RateInv(times, R, 0, limit)
  <2>1. \A j \in Changes(R, times) : j \in 1..n /\ ~(j <= 0)
    BY <1>1 DEF Changes
  <2>2. Current(times, R, 0) = {} /\ Previous(times, R, 0) = {}
    BY <2>1 DEF Current, Previous
  <2>3. Cardinality({}) = 0
    BY FS_EmptySet
  <2>4. \A j \in 1..n : times[1] <= times[j]
    BY <1>1 DEF Timely
  <2>5. R[0].count = 0 /\ R[0].start = times[1]
    BY <1>2
  <2>6. QED
    <3>1. \A j \in 1..n : j >= 0 => R[0].start <= times[j]
      BY <2>4, <2>5
    <3>2. Cardinality(Current(times, R, 0)) = R[0].count
      BY <2>2, <2>3, <2>5
    <3>3. Cardinality(Previous(times, R, 0)) <= limit
      <4>1. Cardinality(Previous(times, R, 0)) = 0 /\ limit \in Nat
        BY <2>2, <2>3
      <4> HIDE DEF R
      <4>2. QED
        BY <4>1
    <3>4. \A j \in Changes(R, times) : j <= 0 => times[j] < R[0].start + Window
      BY <2>1
    <3>5. QED
      BY <3>1, <3>2, <3>3, <3>4 DEF RateInv
<1>4. ASSUME NEW k \in 1..n, RateInv(times, R, k - 1, limit)
      PROVE  /\ RateInv(times, R, k, limit)
             /\ Cardinality(Before(times, Changes(R, times), k)) < limit => k \in Changes(R, times)
             /\ k \in Changes(R, times) =>
                   Cardinality(Before(times, Changes(R, times), k)) < 2 * limit
  BY <1>2, <1>4, RateStep
<1>5. Bad = {}
  <2>1. SUFFICES ASSUME Bad # {} PROVE FALSE
    OBVIOUS
  <2>2. PICK k \in Bad : \A j \in Bad : k <= j
    <3>1. Bad \in SUBSET Nat
      OBVIOUS
    <3> HIDE DEF Bad
    <3>2. QED
      BY <2>1, <3>1, LeastNat
  <2>3. k \in 1..n
    BY <1>1, <1>3
  <2>4. k - 1 \in 0..n /\ k - 1 \notin Bad
    BY <1>1, <2>2, <2>3
  <2>5. QED
    BY <1>4, <2>3, <2>4
<1>6. i - 1 \in 0..n
  BY <1>1
<1>7. RateInv(times, R, i - 1, limit)
  BY <1>5, <1>6
<1>8. QED
  BY <1>4, <1>7 DEF R

(* The endpoint's limiter: what it has kept of the times.                  *)
LEMMA AllowKeepsType ==
    ASSUME NEW q \in Seq(Nat), NEW now \in Nat, NEW limit
    PROVE  Allow(q, now, limit) \in Seq(Nat)
<1> DEFINE T == {t \in Range(q) : t > now - Window}
<1>1. Filter(q, T) \in Seq(Nat)
  BY FilterFacts
<1> HIDE DEF T
<1>2. Append(Filter(q, T), now) \in Seq(Nat)
  BY <1>1
<1>3. QED
  BY <1>2 DEF Allow, T

LEMMA AllowancesFacts ==
    ASSUME NEW times, Timely(times), NEW limit \in Nat
    PROVE  /\ Allowances(times, limit)[0] = <<>>
           /\ \A i \in 1..Len(times) :
                 Allowances(times, limit)[i] = Allow(Allowances(times, limit)[i - 1], times[i], limit)
           /\ \A i \in 0..Len(times) : Allowances(times, limit)[i] \in Seq(Nat)
<1> DEFINE n == Len(times)
           V == Seq(Nat)
           Body(g) == [i \in 0..n |-> IF i = 0 THEN <<>> ELSE Allow(g[i - 1], times[i], limit)]
           f == CHOOSE g : g = Body(g)
           step == [i \in 1..n |-> [q \in V |-> Allow(q, times[i], limit)]]
<1>1. Allowances(times, limit) = f
  BY DEF Allowances
<1>2. n \in Nat /\ <<>> \in V /\ \A i \in 1..n : times[i] \in Nat
  BY DEF Timely
<1>3. \A i \in 1..n, q \in V : Allow(q, times[i], limit) \in V
  BY <1>2, AllowKeepsType
<1>4. step \in [1..n -> [V -> V]] /\ \A i \in 1..n, q \in V : step[i][q] = Allow(q, times[i], limit)
  BY <1>3
<1> HIDE DEF step, V, n
<1>5. PICK g \in [0..n -> V] : Iterates(g, <<>>, step, n)
  BY <1>2, <1>4, Recursion
<1>6. g[0] = <<>> /\ \A i \in 1..n : g[i] = Allow(g[i - 1], times[i], limit)
  <2>1. \A i \in 1..n : g[i - 1] \in V
    BY <1>2
  <2>2. QED
    BY <1>4, <1>5, <2>1 DEF Iterates
<1>7. g = Body(g)
  <2>1. \A i \in 0..n : i = 0 \/ i \in 1..n
    BY <1>2
  <2>2. \A i \in 0..n : g[i] = Body(g)[i]
    BY <1>6, <2>1
  <2>3. g = [i \in 0..n |-> g[i]] /\ DOMAIN Body(g) = 0..n
    OBVIOUS
  <2>4. QED
    BY <2>2, <2>3
<1>8. f = Body(f)
  <2> HIDE DEF Body
  <2>1. QED
    BY <1>7
<1> HIDE DEF f
<1>9. f[0] = <<>> /\ \A i \in 1..n : f[i] = Allow(f[i - 1], times[i], limit)
  <2>1. 0 \in 0..n /\ \A i \in 1..n : i \in 0..n /\ i # 0
    BY <1>2
  <2>2. QED
    BY <1>8, <2>1
<1> DEFINE Bad == {i \in 0..n : f[i] \notin V}
<1>10. Bad = {}
  <2>1. SUFFICES ASSUME Bad # {} PROVE FALSE
    OBVIOUS
  <2>2. PICK k \in Bad : \A j \in Bad : k <= j
    <3>1. Bad \in SUBSET Nat
      OBVIOUS
    <3> HIDE DEF Bad
    <3>2. QED
      BY <2>1, <3>1, LeastNat
  <2>3. k \in 1..n
    BY <1>2, <1>9
  <2>4. k - 1 \in 0..n /\ k - 1 \notin Bad
    BY <1>2, <2>2, <2>3
  <2>5. QED
    BY <1>3, <1>9, <2>3, <2>4
<1>11. QED
  BY <1>1, <1>9, <1>10 DEF V, n

LEMMA UpTo ==
    ASSUME NEW m \in Nat
    PROVE  IsFiniteSet(1..m) /\ Cardinality(1..m) = m
<1>1. 1 \in Int /\ m \in Int
  OBVIOUS
<1>2. Cardinality(1..m) = IF 1 > m THEN 0 ELSE m - 1 + 1
  BY <1>1, FS_Interval
<1>3. IsFiniteSet(1..m)
  BY <1>1, FS_Interval
<1>4. QED
  BY <1>2, <1>3

(* Keeps(q, times, E, i, e): the times in q are those of the events e of E *)
(* up to i, in order, and among them are all that the window of any later  *)
(* event shows.                                                            *)
Keeps(q, times, E, i, e) ==
    /\ e \in [1..Len(q) -> {j \in E : j <= i}]
    /\ \A p \in 1..Len(q) : q[p] = times[e[p]]
    /\ \A p, o \in 1..Len(q) : p < o => e[p] < e[o]
    /\ \A j \in E, k \in 1..Len(times) :
          j <= i /\ i <= k /\ times[j] > times[k] - Window => \E p \in 1..Len(q) : e[p] = j

AllowInv(K, times, i) ==
    \E e : Keeps(K[i], times, Changes(K, times), i, e)

LEMMA AllowStep ==
    ASSUME NEW times, Timely(times), NEW limit \in Nat \ {0}, NEW K,
           \A i \in 0..Len(times) : K[i] \in Seq(Nat),
           NEW i \in 1..Len(times), K[i] = Allow(K[i - 1], times[i], limit),
           AllowInv(K, times, i - 1)
    PROVE  /\ AllowInv(K, times, i)
           /\ i \in Changes(K, times)
                 <=> Cardinality(Before(times, Changes(K, times), i)) < limit
<1> DEFINE n == Len(times)
           E == Changes(K, times)
           q == K[i - 1]
           now == times[i]
           T == {t \in Range(q) : t > now - Window}
           r == Filter(q, T)
           B == Before(times, E, i)
<1>1. n \in Nat /\ i \in Nat /\ i >= 1 /\ i <= n /\ i - 1 \in 0..n
      /\ (\A j \in 1..n : times[j] \in Nat) /\ E \subseteq 1..n
  BY DEF Timely, Changes
<1>2. q \in Seq(Nat) /\ Len(q) \in Nat /\ now \in Nat /\ Window \in Nat /\ Window > 0
  BY <1>1, LimitAssumption
<1>3. PICK e : Keeps(q, times, E, i - 1, e)
  BY DEF AllowInv
<1>4. r \in Seq(Nat) /\ Len(r) \in Nat
  BY <1>2, FilterFacts
<1>5. PICK d : Embeds(r, q, T, Len(q), d)
  BY <1>2, FilterFacts
<1>6. K[i] = IF Len(r) >= limit THEN q ELSE Append(r, now)
  BY DEF Allow
<1>7. i \in E <=> K[i] # q
  BY <1>1 DEF Changes
<1>8. \A p \in 1..Len(q) : q[p] \in T <=> q[p] > now - Window
  BY <1>2, RangeFacts
<1>9. B \subseteq 1..n /\ IsFiniteSet(B) /\ Cardinality(B) \in Nat
      /\ \A j : j \in B <=> j \in E /\ j < i /\ times[j] > now - Window
  <2>1. B \subseteq 1..n
    BY <1>1 DEF Before
  <2>2. QED
    BY <1>1, <2>1, FiniteTimes DEF Before
<1>10. \A j \in E : j \in 1..n /\ times[j] \in Nat /\ (j <= i - 1 <=> j < i) /\ (j <= i <=> j < i \/ j = i)
  BY <1>1
<1>11. /\ e \in [1..Len(q) -> {j \in E : j <= i - 1}]
       /\ \A p \in 1..Len(q) : q[p] = times[e[p]]
       /\ \A p, o \in 1..Len(q) : p < o => e[p] < e[o]
       /\ \A j \in E, k \in 1..n :
            j <= i - 1 /\ i - 1 <= k /\ times[j] > times[k] - Window => \E p \in 1..Len(q) : e[p] = j
  BY <1>3 DEF Keeps
<1>12. /\ d \in [1..Len(r) -> 1..Len(q)]
       /\ \A p \in 1..Len(r) : r[p] = q[d[p]] /\ q[d[p]] \in T
       /\ \A p, o \in 1..Len(r) : p < o => d[p] < d[o]
       /\ \A j \in 1..Len(q) : q[j] \in T => \E p \in 1..Len(r) : d[p] = j
  BY <1>5 DEF Embeds
<1>0. times[i] = now /\ i \in 1..n
  BY <1>1
<1> HIDE DEF n, E, q, now, T, r, B
<1> DEFINE b == [p \in 1..Len(r) |-> e[d[p]]]
<1>13. /\ b \in [1..Len(r) -> B]
       /\ \A p \in 1..Len(r) : r[p] = times[b[p]]
       /\ \A p, o \in 1..Len(r) : p < o => b[p] < b[o]
       /\ \A j \in B : \E p \in 1..Len(r) : b[p] = j
  <2>1. ASSUME NEW p \in 1..Len(r) PROVE b[p] \in B /\ r[p] = times[b[p]]
    <3>1. d[p] \in 1..Len(q) /\ r[p] = q[d[p]] /\ q[d[p]] \in T /\ b[p] = e[d[p]]
      BY <1>12
    <3>2. e[d[p]] \in E /\ e[d[p]] <= i - 1 /\ q[d[p]] = times[e[d[p]]]
      BY <1>11, <3>1
    <3>3. times[e[d[p]]] > now - Window
      BY <1>8, <3>1, <3>2
    <3>4. QED
      BY <1>9, <1>10, <3>1, <3>2, <3>3
  <2>2. ASSUME NEW p \in 1..Len(r), NEW o \in 1..Len(r), p < o PROVE b[p] < b[o]
    <3>1. d[p] \in 1..Len(q) /\ d[o] \in 1..Len(q) /\ d[p] < d[o]
      BY <1>12, <2>2
    <3>2. QED
      BY <1>11, <3>1
  <2>3. ASSUME NEW j \in B PROVE \E p \in 1..Len(r) : b[p] = j
    <3>1. j \in E /\ j <= i - 1 /\ times[j] > now - Window /\ i - 1 <= i
      BY <1>1, <1>9, <1>10
    <3>2. PICK o \in 1..Len(q) : e[o] = j
      BY <1>0, <1>11, <3>1
    <3>3. q[o] \in T
      BY <1>8, <1>11, <3>1, <3>2
    <3>4. PICK p \in 1..Len(r) : d[p] = o
      BY <1>12, <3>3
    <3>5. QED
      BY <3>2, <3>4
  <2> HIDE DEF b
  <2>4. DOMAIN b = 1..Len(r) /\ b = [p \in 1..Len(r) |-> b[p]]
    BY DEF b
  <2>5. QED
    BY <2>1, <2>2, <2>3, <2>4
<1> HIDE DEF b
<1>14. Cardinality(B) = Len(r)
  <2>1. b \in Bijection(1..Len(r), B)
    <3>1. \A p, o \in 1..Len(r) : b[p] = b[o] => p = o
      <4> SUFFICES ASSUME NEW p \in 1..Len(r), NEW o \in 1..Len(r), b[p] = b[o], p # o PROVE FALSE
        OBVIOUS
      <4>1. p < o \/ o < p
        BY <1>4
      <4>2. b[p] \in Nat
        <5>1. \A j \in B : j \in Nat
          BY <1>9
        <5>2. b[p] \in B
          BY <1>13
        <5>3. QED
          BY <5>1, <5>2
      <4>3. QED
        BY <1>13, <4>1, <4>2
    <3>2. QED
      BY <1>13, <3>1 DEF Bijection, Injection, Surjection, IsInjective
  <2>2. IsFiniteSet(1..Len(r)) /\ Cardinality(1..Len(r)) = Len(r)
    BY <1>4, UpTo
  <2>3. Cardinality(1..Len(r)) = Cardinality(B)
    <3>1. ExistsBijection(1..Len(r), B)
      BY <2>1 DEF ExistsBijection
    <3>2. QED
      BY <2>2, <3>1, FS_Bijection
  <2>4. QED
    BY <2>2, <2>3
<1>15. CASE Len(r) >= limit
  <2>1. K[i] = q /\ i \notin E
    BY <1>6, <1>7, <1>15
  <2>2. {j \in E : j <= i} = {j \in E : j <= i - 1}
    BY <1>10, <2>1
  <2>3. \A j \in E, k \in 1..n :
            j <= i /\ i <= k /\ times[j] > times[k] - Window => \E p \in 1..Len(q) : e[p] = j
    <3> SUFFICES ASSUME NEW j \in E, NEW k \in 1..n, j <= i, i <= k, times[j] > times[k] - Window
                 PROVE  \E p \in 1..Len(q) : e[p] = j
      OBVIOUS
    <3>1. j <= i - 1 /\ i - 1 <= k
      BY <1>1, <1>10, <2>1
    <3>2. QED
      BY <1>11, <3>1
  <2>4. Keeps(q, times, E, i, e)
    BY <1>11, <2>2, <2>3 DEF Keeps, n
  <2>5. ~(Cardinality(B) < limit)
    BY <1>4, <1>14, <1>15
  <2>6. QED
    BY <2>1, <2>4, <2>5 DEF AllowInv, B, E
<1>16. CASE Len(r) < limit
  <2> DEFINE a == Append(r, now)
             f == [p \in 1..Len(r) + 1 |-> IF p = Len(r) + 1 THEN i ELSE b[p]]
  <2>1. K[i] = a
    BY <1>4, <1>6, <1>16
  <2>2. Len(a) = Len(r) + 1 /\ (\A p \in 1..Len(r) : a[p] = r[p]) /\ a[Len(r) + 1] = now
    BY <1>2, <1>4
  <2>3. a # q
    <3>1. SUFFICES ASSUME a = q PROVE FALSE
      OBVIOUS
    <3>2. \A p \in 1..Len(q) : q[p] \in T
      <4> SUFFICES ASSUME NEW p \in 1..Len(q) PROVE q[p] \in T
        OBVIOUS
      <4>1. CASE p = Len(r) + 1
        <5>1. q[p] > now - Window
          BY <1>2, <2>2, <3>1, <4>1
        <5>2. QED
          BY <1>8, <5>1
      <4>2. CASE p # Len(r) + 1
        <5>1. p \in 1..Len(r)
          BY <1>4, <2>2, <3>1, <4>2
        <5>2. q[p] = r[p] /\ r[p] \in T
          BY <1>12, <2>2, <3>1, <5>1
        <5>3. QED
          BY <5>2
      <4>3. QED
        BY <4>1, <4>2
    <3>3. d \in Surjection(1..Len(r), 1..Len(q))
      BY <1>12, <3>2 DEF Surjection
    <3>4. IsFiniteSet(1..Len(r)) /\ Cardinality(1..Len(r)) = Len(r)
          /\ Cardinality(1..Len(q)) = Len(q)
      BY <1>2, <1>4, UpTo
    <3>5. Cardinality(1..Len(q)) <= Cardinality(1..Len(r))
      BY <3>3, <3>4, FS_Surjection
    <3>6. QED
      BY <1>4, <2>2, <3>1, <3>4, <3>5
  <2>4. i \in E
    BY <1>7, <2>1, <2>3
  <2>5. \A p \in 1..Len(r) : f[p] = b[p] /\ b[p] \in E /\ b[p] < i
    <3>1. \A p \in 1..Len(r) : p # Len(r) + 1 /\ p \in 1..Len(r) + 1
      BY <1>4
    <3>2. \A p \in 1..Len(r) : f[p] = b[p]
      BY <3>1
    <3>3. \A p \in 1..Len(r) : b[p] \in B
      BY <1>13
    <3> HIDE DEF f
    <3>4. QED
      BY <1>9, <3>2, <3>3
  <2>6. f[Len(r) + 1] = i
    BY <1>4
  <2>7. \A p \in 1..Len(a) : p \in 1..Len(r) \/ p = Len(r) + 1
    BY <1>4, <2>2
  <2>8. f \in [1..Len(a) -> {j \in E : j <= i}]
    <3>1. \A p \in 1..Len(a) : f[p] \in {j \in E : j <= i}
      BY <1>10, <2>4, <2>5, <2>6, <2>7
    <3>2. f = [p \in 1..Len(a) |-> f[p]]
      BY <2>2
    <3> HIDE DEF f
    <3>3. QED
      BY <3>1, <3>2
  <2> HIDE DEF f, a
  <2>9. \A p \in 1..Len(a) : a[p] = times[f[p]]
    BY <1>0, <1>13, <2>2, <2>5, <2>6, <2>7
  <2>10. ASSUME NEW p \in 1..Len(a), NEW o \in 1..Len(a), p < o PROVE f[p] < f[o]
    <3>1. p \in 1..Len(r)
      BY <1>4, <2>2, <2>10
    <3>2. CASE o \in 1..Len(r)
      BY <1>13, <2>5, <2>10, <3>1, <3>2
    <3>3. CASE o = Len(r) + 1
      BY <2>5, <2>6, <3>1, <3>3
    <3>4. QED
      BY <2>7, <3>2, <3>3
  <2>11. ASSUME NEW j \in E, NEW k \in 1..n, j <= i, i <= k, times[j] > times[k] - Window
         PROVE  \E p \in 1..Len(a) : f[p] = j
    <3>1. CASE j = i
      <4>1. Len(r) + 1 \in 1..Len(a)
        BY <1>4, <2>2
      <4>2. QED
        BY <2>6, <3>1, <4>1
    <3>2. CASE j # i
      <4>1. j < i
        BY <1>10, <2>11, <3>2
      <4>2. now <= times[k] /\ times[k] \in Nat
        <5>1. times[i] <= times[k]
          BY <1>0, <2>11 DEF Timely, n
        <5>2. QED
          BY <1>0, <1>1, <5>1
      <4>3. times[j] > now - Window
        <5>1. times[j] \in Nat /\ now \in Nat /\ Window \in Nat
          BY <1>2, <1>10
        <5>2. QED
          BY <2>11, <4>2, <5>1
      <4>4. j \in B
        BY <1>9, <4>1, <4>3
      <4>5. PICK p \in 1..Len(r) : b[p] = j
        BY <1>13, <4>4
      <4>6. p \in 1..Len(a) /\ f[p] = j
        BY <1>4, <2>2, <2>5, <4>5
      <4>7. QED
        BY <4>6
    <3>3. QED
      BY <3>1, <3>2
  <2>12. Keeps(a, times, E, i, f)
    BY <2>8, <2>9, <2>10, <2>11 DEF Keeps, n
  <2>13. Cardinality(B) < limit
    BY <1>14, <1>16
  <2>14. QED
    BY <2>1, <2>4, <2>12, <2>13 DEF AllowInv, B, E
<1>17. QED
  BY <1>4, <1>15, <1>16

LEMMA AllowancesLimit ==
    ASSUME NEW times, Timely(times), NEW limit \in Nat \ {0}, NEW i \in 1..Len(times)
    PROVE  LET E == Changes(Allowances(times, limit), times)
           IN  i \in E <=> Cardinality(Before(times, E, i)) < limit
<1> DEFINE K == Allowances(times, limit)
           n == Len(times)
           Bad == {k \in 0..n : ~AllowInv(K, times, k)}
<1>1. n \in Nat
  BY DEF Timely
<1>2. /\ K[0] = <<>>
      /\ \A k \in 1..n : K[k] = Allow(K[k - 1], times[k], limit)
      /\ \A k \in 0..n : K[k] \in Seq(Nat)
  BY AllowancesFacts
<1> HIDE DEF K
<1>3. AllowInv(K, times, 0)
  <2> DEFINE e == [p \in 1..0 |-> 0]
  <2>1. \A j \in Changes(K, times) : ~(j <= 0)
    BY <1>1 DEF Changes
  <2>2. Len(<<>>) = 0
    OBVIOUS
  <2>3. Keeps(<<>>, times, Changes(K, times), 0, e)
    BY <2>1, <2>2 DEF Keeps
  <2> HIDE DEF e
  <2>4. QED
    BY <1>2, <2>3 DEF AllowInv
<1>4. ASSUME NEW k \in 1..n, AllowInv(K, times, k - 1)
      PROVE  /\ AllowInv(K, times, k)
             /\ k \in Changes(K, times)
                   <=> Cardinality(Before(times, Changes(K, times), k)) < limit
  BY <1>2, <1>4, AllowStep
<1>5. Bad = {}
  <2>1. SUFFICES ASSUME Bad # {} PROVE FALSE
    OBVIOUS
  <2>2. PICK k \in Bad : \A j \in Bad : k <= j
    <3>1. Bad \in SUBSET Nat
      OBVIOUS
    <3> HIDE DEF Bad
    <3>2. QED
      BY <2>1, <3>1, LeastNat
  <2>3. k \in 1..n
    BY <1>1, <1>3
  <2>4. k - 1 \in 0..n /\ k - 1 \notin Bad
    BY <1>1, <2>2, <2>3
  <2>5. QED
    BY <1>4, <2>3, <2>4
<1>6. i - 1 \in 0..n
  BY <1>1
<1>7. AllowInv(K, times, i - 1)
  BY <1>5, <1>6
<1>8. QED
  BY <1>4, <1>7 DEF K

(* For any sequence of times and any limit.                                *)
THEOREM LimitersLimit ==
    ASSUME NEW times, Timely(times), NEW limit \in Nat \ {0}
    PROVE  Limited(times, limit)
BY RatesLimit, AllowancesLimit DEF Limited, Changes, Before

(* The model's limits, which it tries on all sequences of a few times.     *)
LEMMA LimitersHoldAlways == LimitersHold
<1>1. ASSUME NEW times \in Ascending PROVE Limited(times, Limit)
  <2>1. PICK n \in 1..5 : times \in [1..n -> 0..4]
    BY DEF Ascending
  <2>2. Len(times) = n /\ times \in Seq(Nat)
    BY <2>1
  <2>3. \A i, j \in 1..Len(times) : i <= j => times[i] <= times[j]
    BY DEF Ascending
  <2>4. Timely(times)
    BY <2>2, <2>3 DEF Timely
  <2>5. QED
    BY <2>4, LimitersLimit, LimitAssumption
<1>2. QED
  BY <1>1 DEF LimitersHold

(* What is sent is bounded: per webhook by its attempts and the crashes,   *)
(* per window by the limits.                                               *)
THEOREM RequestsAreBounded == AutomationSpec => []RequestsBounded
<1>1. RepeatedByCrashes => RequestsBounded
  BY LimitersHoldAlways DEF RequestsBounded
<1>2. QED
  BY <1>1, AutomationsRepeat, PTL
=============================================================================

----------------------------- MODULE RetryQueue -----------------------------
(***************************************************************************)
(* Deferred retries of webhooks: WebhookHandler, which sends a webhook and *)
(* enqueues it when it fails, and RetryScheduler, which works off the      *)
(* queue file (automations/src/handlers/webhook-handler.ts and             *)
(* automations/src/retry-scheduler.ts).                                    *)
(*                                                                         *)
(* A tick reads the file, makes the requests that are due one after the    *)
(* other, and rewrites the file from what it read.  The handler appends to *)
(* the same file, and the process may stop at any await; what is in the    *)
(* file is all that survives.                                              *)
(*                                                                         *)
(* Time is abstract: an entry of the file becomes due at some moment.  A   *)
(* definition that no other refers to is a slip of the one after it.       *)
(*                                                                         *)
(* Left out: the contents of requests and history entries (a failure to    *)
(* write history is swallowed and changes nothing else), the order of the  *)
(* entries, the immediate retries inside one request, and a second         *)
(* scheduler on the same file (dispose() stops the timer, not a tick under *)
(* way).                                                                   *)
(***************************************************************************)
EXTENDS Naturals

CONSTANTS
    Webhook,       \* one execution of a webhook each
    MaxAttempts,   \* MAX_DEFERRED_ATTEMPTS
    MaxCrashes,    \* bound on the crashes of the process
    Env            \* what else may happen; see EnvKinds

EnvKinds ==
    {"overlap",      \* webhooks fail while a tick is under way
     "torn"}         \* the process stops between truncation and writing

ASSUME RetryAssumption ==
    MaxAttempts \in Nat \ {0} /\ MaxCrashes \in Nat /\ Env \subseteq EnvKinds

VARIABLES
    task,        \* task[w]: where the handler's execution of w is
    file,        \* the entries of the queue file
    stage,       \* what the tick is doing
    batch,       \* what the tick read and has not dropped: the new contents
    todo,        \* the webhooks in batch that are due and not yet retried
    current,     \* the webhook, if any, whose history entry is being written
    crashes,     \* history: how often the process stopped
    posts,       \* history: deferred requests made for w
    delivered,   \* history: requests for w that succeeded
    final        \* history: how often the end of w was put to history

queue == <<file, stage, batch, todo, current>>
history == <<crashes, posts, delivered, final>>
vars == <<task, queue, history>>

(* The counters of requests and of ends stop one above what is allowed.    *)
MaxPosts == MaxAttempts + MaxCrashes + 1
MaxEnds == MaxCrashes + 2

(* deferredAttempt, and whether nextRetryAt has passed.                    *)
Entry == [id : Webhook, attempt : 0..MaxAttempts - 1, ripe : BOOLEAN]

Ids(entries) == {e.id : e \in entries}

(* The code's types; an attempt count stays below the maximum.             *)
TypeOK ==
    /\ task \in [Webhook -> {"new", "sending", "failed", "enqueued", "over"}]
    /\ file \subseteq Entry
    /\ stage \in {"idle", "working", "writing"}
    /\ batch \subseteq Entry
    /\ todo \subseteq Webhook
    /\ current \subseteq Webhook
    /\ crashes \in 0..MaxCrashes
    /\ posts \in [Webhook -> 0..MaxPosts]
    /\ delivered \in [Webhook -> 0..MaxEnds]
    /\ final \in [Webhook -> 0..MaxEnds]

Init ==
    /\ task = [w \in Webhook |-> "new"]
    /\ file = {}
    /\ stage = "idle"
    /\ batch = {}
    /\ todo = {}
    /\ current = {}
    /\ crashes = 0
    /\ posts = [w \in Webhook |-> 0]
    /\ delivered = [w \in Webhook |-> 0]
    /\ final = [w \in Webhook |-> 0]

Count(f, w, bound) ==
    [f EXCEPT ![w] = IF f[w] < bound THEN f[w] + 1 ELSE f[w]]

-----------------------------------------------------------------------------
(* handleEvent                                                             *)

(* A webhook is sent, or refused because its endpoint had too many.        *)
Execute(w) ==
    /\ task[w] = "new"
    /\ \E t \in {"sending", "over"} : task' = [task EXCEPT ![w] = t]
    /\ UNCHANGED <<queue, history>>

(* The request succeeds, fails for good, or fails after its immediate      *)
(* retries in a way isTransientFailure accepts.                            *)
Executed(w) ==
    /\ task[w] = "sending"
    /\ \/ task' = [task EXCEPT ![w] = "over"] /\ delivered' = Count(delivered, w, MaxEnds)
       \/ task' = [task EXCEPT ![w] = "over"] /\ UNCHANGED delivered
       \/ task' = [task EXCEPT ![w] = "failed"] /\ UNCHANGED delivered
    /\ UNCHANGED <<queue, crashes, posts, final>>

(* enqueue appends one line to the file.                                   *)
Enqueue(w) ==
    /\ task[w] = "failed"
    /\ "overlap" \in Env \/ stage = "idle"
    /\ task' = [task EXCEPT ![w] = "enqueued"]
    /\ file' = file \cup {[id |-> w, attempt |-> 0, ripe |-> FALSE]}
    /\ UNCHANGED <<stage, batch, todo, current, history>>

(* The nextRetryAt of w passes, in the file and in what the tick holds.    *)
Ripened(entries, w) ==
    {[e EXCEPT !.ripe = (e.id = w) \/ e.ripe] : e \in entries}

Elapse(w) ==
    /\ \E e \in file \cup batch : e.id = w /\ ~e.ripe
    /\ file' = Ripened(file, w)
    /\ batch' = Ripened(batch, w)
    /\ UNCHANGED <<task, stage, todo, current, history>>

-----------------------------------------------------------------------------
(* tick                                                                    *)

ReadQueue ==
    /\ stage = "idle"
    /\ file # {}
    /\ stage' = "working"
    /\ batch' = file
    /\ todo' = Ids({e \in file : e.ripe})
    /\ UNCHANGED <<task, file, current, history>>

IsLastOffByOne(e) == e.attempt >= MaxAttempts

IsLast(e) == e.attempt + 1 >= MaxAttempts

(* An entry that was due is sent.  After a success and after the last      *)
(* failure it is dropped and history is written; otherwise it stays, for   *)
(* later.                                                                  *)
Retry(e) ==
    /\ stage = "working"
    /\ current = {}
    /\ e.id \in todo
    /\ todo' = todo \ {e.id}
    /\ posts' = Count(posts, e.id, MaxPosts)
    /\ \/ /\ delivered' = Count(delivered, e.id, MaxEnds)
          /\ batch' = batch \ {e}
          /\ current' = {e.id}
       \/ /\ IsLast(e)
          /\ batch' = batch \ {e}
          /\ current' = {e.id}
          /\ UNCHANGED delivered
       \/ /\ ~IsLast(e)
          /\ batch' = (batch \ {e})
                \cup {[e EXCEPT !.attempt = e.attempt + 1, !.ripe = FALSE]}
          /\ UNCHANGED <<current, delivered>>
    /\ UNCHANGED <<task, file, stage, crashes, final>>

RecordAndKeep(w) ==
    /\ w \in current
    /\ current' = {}
    /\ final' = Count(final, w, MaxEnds)
    /\ batch' = batch \cup {e \in file : e.id = w}
    /\ UNCHANGED <<task, file, stage, todo, crashes, posts, delivered>>

(* The history entry, written or not.                                      *)
Record(w) ==
    /\ w \in current
    /\ current' = {}
    /\ final' = Count(final, w, MaxEnds)
    /\ UNCHANGED <<task, file, stage, batch, todo, crashes, posts, delivered>>

TruncateAtOnce ==
    /\ stage = "working"
    /\ stage' = "writing"
    /\ file' = {} /\ todo' = {} /\ current' = {}
    /\ UNCHANGED <<task, batch, history>>

(* writeFile opens the file, which empties it, and then writes.            *)
Truncate ==
    /\ stage = "working"
    /\ todo = {} /\ current = {}
    /\ stage' = "writing"
    /\ file' = {}
    /\ UNCHANGED <<task, batch, todo, current, history>>

WriteNothing ==
    /\ stage = "writing"
    /\ stage' = "idle"
    /\ file' = {}
    /\ batch' = {}
    /\ UNCHANGED <<task, todo, current, history>>

WriteQueue ==
    /\ stage = "writing"
    /\ stage' = "idle"
    /\ file' = batch
    /\ batch' = {}
    /\ UNCHANGED <<task, todo, current, history>>

-----------------------------------------------------------------------------
(* The process stops and starts again: what it held in memory is gone, the *)
(* file and the requests made are not.                                     *)
Crash ==
    /\ crashes < MaxCrashes
    /\ stage = "writing" => "torn" \in Env
    /\ crashes' = crashes + 1
    /\ task' = [w \in Webhook |->
                   IF task[w] \in {"sending", "failed"} THEN "over" ELSE task[w]]
    /\ stage' = "idle"
    /\ batch' = {} /\ todo' = {} /\ current' = {}
    /\ UNCHANGED <<file, posts, delivered, final>>

Tick ==
    \/ ReadQueue
    \/ \E e \in batch : Retry(e)
    \/ \E w \in Webhook : Record(w)
    \/ Truncate
    \/ WriteQueue

Next ==
    \/ \E w \in Webhook :
          Execute(w) \/ Executed(w) \/ Enqueue(w) \/ Elapse(w)
    \/ Tick
    \/ Crash

Spec == Init /\ [][Next]_vars

(* The interval timer runs tick, and the awaits of a tick end.  An append  *)
(* is not put off for ever, and time passes.                               *)
FairSpec ==
    /\ Spec
    /\ WF_vars(Tick)
    /\ \A w \in Webhook : SF_vars(Enqueue(w)) /\ WF_vars(Elapse(w))

-----------------------------------------------------------------------------
(* Properties                                                              *)

(* "Queue entries survive app restarts": a webhook that was enqueued stays *)
(* in the file, or in what is just being written to it, until its end has  *)
(* been recorded.                                                          *)
Kept(w) == w \in Ids(file) \/ (stage = "writing" /\ w \in Ids(batch))

NeverLost ==
    \A w \in Webhook : task[w] = "enqueued" => Kept(w) \/ final[w] > 0

(* A webhook is sent MAX_DEFERRED_ATTEMPTS times at most, and once more    *)
(* for every crash, which makes the tick forget what it had done.          *)
AttemptsBounded == \A w \in Webhook : posts[w] <= MaxAttempts + crashes

(* Likewise a webhook that got through is sent again, and the end of its   *)
(* retries recorded again, only after a crash.                             *)
SettledOnce ==
    \A w \in Webhook : final[w] <= 1 + crashes /\ delivered[w] <= 1 + crashes

(* Every enqueued webhook gets through or is sent as often as allowed, and *)
(* its end is recorded.                                                    *)
Settles ==
    \A w \in Webhook : task[w] = "enqueued" ~>
        final[w] > 0 /\ (delivered[w] > 0 \/ posts[w] >= MaxAttempts)
=============================================================================

----------------------------- MODULE Automations -----------------------------
(***************************************************************************)
(* A workspace's automations: webhooks and their deferred retries          *)
(* (RetryQueue) with the history file both of them append to               *)
(* (automations/src/history-store.ts), and the limiters events and         *)
(* webhooks pass (event-bus.ts, handlers/webhook-handler.ts).              *)
(*                                                                         *)
(* Appends to the history take their turns in a chain of promises, and     *)
(* every so many of them the file is compacted, by reading and rewriting   *)
(* it.  What a limiter refuses has no effect but its history entry, so     *)
(* that times are kept out of the state, and the limiters are checked by   *)
(* themselves.                                                             *)
(*                                                                         *)
(* Left out: malformed lines, a read or a rewrite of the history that      *)
(* fails or is interrupted, conditions and matching, the delivery of       *)
(* prompts and results to the host, and dispose().                         *)
(***************************************************************************)
EXTENDS RetryQueue, Sequences, SequencesExt, Filters

CONSTANTS
    MaxRuns,       \* AUTOMATION_HISTORY_MAX_RUNS_PER_MATCHER
    MaxEntries,    \* AUTOMATION_HISTORY_MAX_ENTRIES
    Window,        \* RATE_WINDOW_MS, and the minute of EndpointRateLimiter
    Limit          \* what either limiter admits within a window

ASSUME HistoryAssumption == MaxRuns \in Nat \ {0} /\ MaxEntries \in Nat \ {0}
ASSUME LimitAssumption == Window \in Nat \ {0} /\ Limit \in Nat \ {0}

VARIABLES
    line,         \* the appends that wait in the mutex or hold it
    compaction,   \* the append that compacts, and the content it read
    log,          \* the history file: entries
    appends,      \* appendCounters
    logged        \* history: all entries that were ever appended

store == <<line, compaction, log, appends, logged>>
allVars == <<vars, store>>

None == [jobs |-> {}, content |-> <<>>]

AutomationInit ==
    /\ Init
    /\ line = <<>> /\ compaction = None
    /\ log = <<>> /\ appends = 0 /\ logged = <<>>

-----------------------------------------------------------------------------
(* compactEntries: the last runs of each automation, the last of all.      *)
CompactedToTotal(entries) ==
    SubSeq(entries, IF Len(entries) > MaxEntries THEN Len(entries) - MaxEntries + 1 ELSE 1,
           Len(entries))

CompactEntries(entries) ==
    LET Later(e) == {f \in Range(entries) : f.id = e.id /\ f.n > e.n}
        Recent(e) == Cardinality(Later(e)) < MaxRuns
    IN  CompactedToTotal(Filter(entries, {e \in Range(entries) : Recent(e)}))

(* withMutex: the first of the line has its turn.                          *)
TurnOfAny(i) == TRUE

Turn(i) == i = 1 /\ compaction = None

(* appendAutomationHistoryEntry, whose appendFile may fail.                *)
AppendEntry(i) ==
    /\ Turn(i)
    /\ line' = RemoveAt(line, i)
    /\ \/ UNCHANGED <<compaction, log, appends, logged>>
       \/ LET entry == [id |-> line[i].id, n |-> Len(logged) + 1]
          IN  /\ log' = Append(log, entry)
              /\ logged' = Append(logged, entry)
              /\ IF appends + 1 < MaxEntries
                 THEN appends' = appends + 1 /\ UNCHANGED compaction
                 ELSE appends' = 0 /\ compaction' = [jobs |-> {line[i]}, content |-> log']
    /\ UNCHANGED vars

(* runCompaction, the rewriting.                                           *)
RunCompaction ==
    /\ compaction # None
    /\ log' = CompactEntries(compaction.content)
    /\ compaction' = None
    /\ UNCHANGED <<line, appends, logged, vars>>

Job(w, by) == [id |-> w, by |-> by]

Appending(w, by) == Job(w, by) \in Range(line) \cup compaction.jobs

Write(w, by) ==
    /\ line' = Append(line, Job(w, by))
    /\ UNCHANGED <<compaction, log, appends, logged>>

-----------------------------------------------------------------------------
(* The actions of RetryQueue, with what they write to the history.         *)
Event(w) ==
    /\ Execute(w)
    /\ IF task'[w] = "over" THEN Write(w, "handler") ELSE UNCHANGED store

Outcome(w) ==
    /\ Executed(w)
    /\ Write(w, "handler")

(* A transient failure is enqueued once it is in the history.              *)
EnqueueFailed(w) ==
    /\ ~Appending(w, "handler")
    /\ Enqueue(w)
    /\ UNCHANGED store

RetryDue(e) ==
    /\ Retry(e)
    /\ IF current' # current THEN Write(e.id, "tick") ELSE UNCHANGED store

(* The tick goes on when its entry is written, or could not be.            *)
Recorded(w) ==
    /\ ~Appending(w, "tick")
    /\ Record(w)
    /\ UNCHANGED store

(* At the start the history is compacted before anything is appended.      *)
Restart ==
    /\ Crash
    /\ line' = <<>> /\ compaction' = None /\ appends' = 0
    /\ log' = CompactEntries(log)
    /\ UNCHANGED logged

Works ==
    \/ \E e \in batch : RetryDue(e)
    \/ \E w \in Webhook : Outcome(w) \/ Recorded(w)
    \/ (ReadQueue \/ Truncate \/ WriteQueue) /\ UNCHANGED store
    \/ \E i \in 1..Len(line) : AppendEntry(i)
    \/ RunCompaction

AutomationNext ==
    \/ Works
    \/ \E w \in Webhook : Event(w) \/ EnqueueFailed(w) \/ (Elapse(w) /\ UNCHANGED store)
    \/ Restart

AutomationSpec == AutomationInit /\ [][AutomationNext]_allVars

(* Requests, awaits and the interval timer come to their ends, and time    *)
(* passes.  A tick of nothing but entries that are not due is repeated, so *)
(* each kind of work is fair by itself.                                    *)
AutomationFairSpec ==
    /\ AutomationSpec
    /\ WF_allVars((Tick /\ UNCHANGED store) \/ \E e \in batch : RetryDue(e))
    /\ WF_allVars(\E w \in Webhook : Recorded(w))
    /\ WF_allVars(RunCompaction \/ \E i \in 1..Len(line) : AppendEntry(i))
    /\ \A w \in Webhook : /\ WF_allVars(Outcome(w))
                          /\ SF_allVars(EnqueueFailed(w))
                          /\ WF_allVars(Elapse(w) /\ UNCHANGED store)

-----------------------------------------------------------------------------
(* Correctness.                                                            *)

(* A crash costs at most a repeated request and a repeated record.         *)
RepeatedByCrashes == AttemptsBounded /\ SettledOnce

(* However appends and compactions take their turns and the process stops, *)
(* the history is in order, has the last runs of every automation as far   *)
(* as they are among the last entries of all, and stays bounded.           *)
HistoryKept ==
    LET Later(e) == {f \in Range(logged) : f.n > e.n}
        Recent(e) == /\ Cardinality(Later(e)) < MaxEntries
                     /\ Cardinality({f \in Later(e) : f.id = e.id}) < MaxRuns
    IN  /\ {e \in Range(logged) : Recent(e)} \subseteq Range(log)
        /\ \A i, j \in 1..Len(log) : i < j => log[i].n < log[j].n
        /\ Len(log) <= 2 * MaxEntries

(* Every failed webhook comes to its end in spite of what the history is   *)
(* doing, and nothing waits for the history for ever.                      *)
WorkEnds ==
    /\ Settles
    /\ \A w \in Webhook : (task[w] = "failed" \/ w \in current \/ Appending(w, "handler"))
                          ~> (task[w] # "failed" /\ w \notin current)

-----------------------------------------------------------------------------
(* The limiters, over sequences of times.                                  *)

(* emit of the event bus: a window of its own for every kind of event.     *)
Emit(rate, now, limit) ==
    LET fresh == now - rate.start >= Window
        count == IF fresh THEN 0 ELSE rate.count
    IN  [count |-> IF count >= limit THEN count ELSE count + 1,
         start |-> IF fresh THEN now ELSE rate.start]

(* allow of EndpointRateLimiter: the times of what it allowed.             *)
AllowLate(times, now, limit) ==
    LET recent == Filter(times, {t \in Range(times) : t >= now - Window})
    IN  IF Len(recent) >= limit THEN times ELSE Append(recent, now)

Allow(times, now, limit) ==
    LET recent == Filter(times, {t \in Range(times) : t > now - Window})
    IN  IF Len(recent) >= limit THEN times ELSE Append(recent, now)

(* What either holds after each of the events at these times.              *)
Rates(times, limit) ==
    LET rate[i \in 0..Len(times)] ==
            IF i = 0 THEN [count |-> 0, start |-> times[1]]
            ELSE Emit(rate[i - 1], times[i], limit)
    IN  rate

Allowances(times, limit) ==
    LET kept[i \in 0..Len(times)] ==
            IF i = 0 THEN <<>> ELSE Allow(kept[i - 1], times[i], limit)
    IN  kept

(* The endpoint's lets one in unless its limit came in within the last     *)
(* window; the event bus may let in twice that, but refuses no other.      *)
Limited(times, limit) ==
    LET Changes(f) == {i \in 1..Len(times) : f[i] # f[i - 1]}
        emitted == Changes(Rates(times, limit))
        allowed == Changes(Allowances(times, limit))
        Before(S, i) == Cardinality({j \in S : j < i /\ times[j] > times[i] - Window})
    IN  \A i \in 1..Len(times) :
            /\ i \in allowed <=> Before(allowed, i) < limit
            /\ Before(emitted, i) < limit => i \in emitted
            /\ i \in emitted => Before(emitted, i) < 2 * limit

Ascending == {s \in UNION {[1..n -> 0..4] : n \in 1..5} :
                 \A i, j \in 1..Len(s) : i <= j => s[i] <= s[j]}

LimitersHold ==
    (\A w \in Webhook : task[w] = "new") /\ crashes = 0 =>
        \A times \in Ascending : Limited(times, Limit)

(* What is sent is bounded: per webhook by its attempts and the crashes,   *)
(* per window by the limits.                                               *)
RequestsBounded == RepeatedByCrashes /\ LimitersHold
=============================================================================

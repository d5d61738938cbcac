------------------------------ MODULE SseStream ------------------------------
(***************************************************************************)
(* The stream of a session's timeline: WeftFetchSseTimelineStream          *)
(* (providers/src/flitro/client/timeline-stream.ts) and its server.        *)
(*                                                                         *)
(* The server numbers the items of a session from 1 and keeps them; after  *)
(* a restart it serves all of them again, under a new epoch.  A fetch with *)
(* a cursor of another epoch is served from the first item on.             *)
(*                                                                         *)
(* Left out: tokens (an expired one is an answer that is no stream) and    *)
(* delays.  What a broken connection still held is lost.                   *)
(***************************************************************************)
EXTENDS Timeline

CONSTANTS
    Fetch,         \* fetches that may be under way at once
    MaxAttempts,   \* maxReconnectAttempts
    MaxSeq,        \* bound: items
    MaxEpoch,      \* bound: epochs
    MaxBreaks      \* bound: answers that fail and streams that break

ASSUME StreamAssumption ==
    /\ MaxSeq \in Nat /\ MaxEpoch \in Nat \ {0}
    /\ MaxAttempts \in Nat /\ MaxBreaks \in Nat

VARIABLES
    epoch, length,    \* the server: the epoch it serves and the items it has
    breaks,           \* failures so far
    fetch,            \* fetch[f]: its state, its epoch and the seq it is served next
    controller,       \* the fetch abortController is for
    connected,
    disposed,
    listening,        \* there is a listener
    cursor,           \* epoch (0 is "") and seq of the reconnect cursor
    attempts,         \* reconnectAttempts
    timers,           \* reconnects that are scheduled
    gaveUp            \* the listener was told so

serving == <<epoch, length>>
stream == <<controller, connected, disposed, listening, cursor, attempts, timers, gaveUp>>
sse == <<serving, breaks, fetch, stream>>

Idle == [state |-> "idle", epoch |-> 0, next |-> 0]

SseTypeOK ==
    /\ epoch \in 1..MaxEpoch /\ length \in 0..MaxSeq /\ breaks \in 0..MaxBreaks
    /\ fetch \in [Fetch -> [state : {"idle", "opening", "aborted", "open"},
                           epoch : 0..MaxEpoch, next : 0..MaxSeq + 1]]
    /\ controller \in Fetch
    /\ {connected, disposed, listening, gaveUp} \subseteq BOOLEAN
    /\ cursor \in [epoch : 0..MaxEpoch, seq : 0..MaxSeq]
    /\ attempts \in 0..MaxAttempts /\ timers \in 0..1

(* The stream when it is made.                                             *)
SseInit ==
    /\ epoch = 1 /\ length = 0 /\ breaks = 0
    /\ fetch = [f \in Fetch |-> Idle]
    /\ controller \in Fetch
    /\ connected = FALSE /\ disposed = FALSE /\ listening = FALSE
    /\ cursor = [epoch |-> 0, seq |-> 0]
    /\ attempts = 0 /\ timers = 0 /\ gaveUp = FALSE

-----------------------------------------------------------------------------
(* The client.                                                             *)

(* startFetch up to its await.  The request carries the cursor.            *)
StartFetch ==
    IF disposed' THEN UNCHANGED <<fetch, controller>>
    ELSE \E f \in Fetch :
            /\ fetch[f].state = "idle"
            /\ fetch' = [fetch EXCEPT ![f] = [state |-> "opening", epoch |-> cursor.epoch,
                                              next |-> cursor.seq + 1]]
            /\ controller' = f

Connect ==
    /\ disposed' = FALSE
    /\ listening' = TRUE
    /\ connected' = TRUE
    /\ IF connected THEN UNCHANGED <<fetch, controller, attempts>>
       ELSE attempts' = 0 /\ StartFetch
    /\ UNCHANGED <<serving, breaks, cursor, timers, gaveUp>>

(* The reason that disconnect gives for the abort is no AbortError.        *)
Disconnect ==
    /\ disposed' = TRUE
    /\ connected' = FALSE
    /\ listening' = FALSE
    /\ fetch' = IF fetch[controller].state = "idle" THEN fetch
                ELSE [fetch EXCEPT ![controller] = [Idle EXCEPT !.state = "aborted"]]
    /\ UNCHANGED <<serving, breaks, controller, cursor, attempts, timers, gaveUp>>

(* The end of a fetch, however it ended: nothing more in a stream that is  *)
(* disposed by then, another attempt otherwise.                            *)
ScheduleReconnect ==
    IF disposed THEN UNCHANGED <<connected, attempts, timers, gaveUp>>
    ELSE /\ connected' = FALSE
         /\ IF attempts >= MaxAttempts
            THEN gaveUp' = listening /\ UNCHANGED <<attempts, timers>>
            ELSE attempts' = attempts + 1 /\ timers' = timers + 1 /\ UNCHANGED gaveUp

FetchEnds(f) ==
    /\ fetch' = [fetch EXCEPT ![f] = Idle]
    /\ ScheduleReconnect
    /\ UNCHANGED <<serving, controller, disposed, listening, cursor>>

AbortedEnds(f) ==
    /\ fetch[f].state = "aborted"
    /\ FetchEnds(f)
    /\ UNCHANGED breaks

(* An answer that is no stream, or a stream that breaks.                   *)
Breaks(f) ==
    /\ fetch[f].state \in {"opening", "open"}
    /\ breaks < MaxBreaks
    /\ breaks' = breaks + 1
    /\ FetchEnds(f)

(* disconnect does not cancel the timer.                                   *)
ReconnectTimer ==
    /\ timers > 0
    /\ timers' = timers - 1
    /\ connected' = TRUE
    /\ UNCHANGED disposed
    /\ StartFetch
    /\ UNCHANGED <<serving, breaks, listening, cursor, attempts, gaveUp>>

Opens(f) ==
    /\ fetch[f].state = "opening"
    /\ fetch' = [fetch EXCEPT ![f] =
                    [state |-> "open", epoch |-> epoch,
                     next |-> IF @.epoch \in {0, epoch} THEN @.next ELSE 1]]
    /\ attempts' = 0
    /\ UNCHANGED <<serving, breaks, controller, connected, disposed, listening, cursor, timers, gaveUp>>

(* The seqs of a new epoch begin again.                                    *)
AdvanceMonotone(e) ==
    cursor' = [epoch |-> e.epoch, seq |-> IF e.seq > cursor.seq THEN e.seq ELSE cursor.seq]

AdvanceReconnectCursor(e) ==
    cursor' = [epoch |-> e.epoch,
               seq |-> IF cursor.epoch \notin {0, e.epoch} \/ e.seq > cursor.seq
                       THEN e.seq ELSE cursor.seq]

(* A frame of f arrives.                                                   *)
Receives(f, e) ==
    /\ fetch[f].state = "open"
    /\ fetch[f].next <= length
    /\ e = Envelope(epoch, fetch[f].next)
    /\ AdvanceReconnectCursor(e)
    /\ fetch' = [fetch EXCEPT ![f].next = @ + 1]
    /\ UNCHANGED <<serving, breaks, controller, connected, disposed, listening, attempts, timers, gaveUp>>

-----------------------------------------------------------------------------
(* The server.                                                             *)

Appends ==
    /\ length < MaxSeq
    /\ length' = length + 1
    /\ UNCHANGED <<epoch, breaks, fetch, stream>>

(* A restart ends the streams, which the clients come to know one by one.  *)
Restarts ==
    /\ epoch < MaxEpoch
    /\ \A f \in Fetch : fetch[f].state # "open"
    /\ epoch' = epoch + 1
    /\ UNCHANGED <<length, breaks, fetch, stream>>
=============================================================================

----------------------------- MODULE ChatSession -----------------------------
(***************************************************************************)
(* From the server to the screen: the stream of a session (SseStream), the *)
(* intake of the runtime (ingest of providers/src/shared/                  *)
(* runtime-scaffold.ts), the listeners of push-timeline-stream.ts and the  *)
(* hook useTimelineAgentChatSession (chat/src/use-agent-chat-session.ts).  *)
(*                                                                         *)
(* The hook batches what arrives in a frame, folds a batch into a timeline *)
(* and into a session, and is rendered after it.  Its effect depends on a  *)
(* function that is made anew by each render (use-agent-chat-session.ts:   *)
(* 488 and 657), so each render disconnects the listeners and connects it  *)
(* again.                                                                  *)
(*                                                                         *)
(* Left out: the commands and the status (DeferredRuntime), errors, gaps,  *)
(* which this server leaves none of, the caps on the keys seen, and the    *)
(* unmounting of the hook.                                                 *)
(***************************************************************************)
EXTENDS SseStream

CONSTANT Env    \* what may happen besides; see EnvKinds

EnvKinds ==
    {"metas",         \* preflight() adds a report to the timeline, once
     "remetas",       \* and a second one
     "closes",        \* another subscriber disconnects the runtime's stream
     "disposes"}      \* the runtime is disposed

ASSUME EnvAssumption == Env \subseteq EnvKinds

VARIABLES
    pinned,        \* the runtime: currentEpoch; 0 is the configured one
    seenKeys,
    buffer,        \* its timeline
    replayMode,
    metas,         \* reports so far
    subscribed,    \* the hook is a listener
    missed,        \* history: what was emitted while it was none
    pending,       \* the batch of the frame
    timeline,      \* its two folds
    session,
    lastCursor,    \* lastCursorRef; epoch 0 is null
    armTimer,
    render,        \* a state has changed since the last render
    reconnecting,  \* isReconnecting
    catchup        \* a fetch after a close: the items the runtime had, if any

runtime == <<pinned, seenKeys, buffer, replayMode, metas>>
folds == <<timeline, session, armTimer, render, reconnecting>>
hook == <<subscribed, missed, pending, lastCursor, catchup, folds>>
vars == <<sse, runtime, hook>>

NoCatchup == [asked |-> FALSE, items |-> <<>>]

Server(es) == {e \in Range(es) : IsServer(e)}

(* The types; and what the runtime and the hook hold of the server is of   *)
(* one epoch each.                                                         *)
TypeOK ==
    /\ SseTypeOK
    /\ pinned \in 0..MaxEpoch /\ metas \in 0..2
    /\ seenKeys \subseteq {pinned} \X (1..MaxSeq)
    /\ {TimelineKey(e) : e \in Server(buffer)} = seenKeys
    /\ \A e, f \in Server(timeline) : e.epoch = f.epoch
    /\ lastCursor \in [epoch : 0..MaxEpoch, seq : 0..MaxSeq]
    /\ {replayMode, subscribed, armTimer, render, reconnecting} \subseteq BOOLEAN

(* The stream connects when the runtime is made, the hook when it mounts.  *)
Init ==
    /\ SseInit
    /\ pinned = 0 /\ seenKeys = {} /\ buffer = <<>> /\ replayMode = FALSE /\ metas = 0
    /\ subscribed = TRUE /\ missed = {}
    /\ pending = <<>> /\ timeline = <<>> /\ session = NoSession
    /\ lastCursor = [epoch |-> 0, seq |-> 0]
    /\ armTimer = FALSE /\ render = FALSE /\ reconnecting = FALSE
    /\ catchup = NoCatchup

-----------------------------------------------------------------------------
(* The runtime.                                                            *)

(* onEvent of the hook, if it listens.                                     *)
Emit(e) ==
    IF subscribed
    THEN /\ pending' = Append(pending,
                              <<e, IsServer(e) /\ lastCursor.epoch \notin {0, e.epoch}>>)
         /\ lastCursor' = IF IsServer(e) THEN [epoch |-> e.epoch, seq |-> e.seq] ELSE lastCursor
         /\ UNCHANGED missed
    ELSE /\ missed' = missed \cup {TimelineKey(e)}
         /\ UNCHANGED <<pending, lastCursor>>

(* ingest.  An item of another epoch begins a replay.                      *)
IngestKeepingKeys(e) ==
    /\ pinned' = e.epoch
    /\ replayMode' = (replayMode \/ e.epoch # pinned)
    /\ IF e.seq \in {k[2] : k \in seenKeys}
       THEN UNCHANGED <<seenKeys, buffer, missed, pending, lastCursor>>
       ELSE /\ seenKeys' = seenKeys \cup {TimelineKey(e)}
            /\ buffer' = Append(buffer, e)
            /\ Emit(e)

Ingest(e) ==
    LET rotates == IsServer(e) /\ e.epoch # pinned
        keys == IF rotates THEN {} ELSE seenKeys
        kept == IF rotates THEN Locals(buffer) ELSE buffer
    IN  /\ pinned' = IF rotates THEN e.epoch ELSE pinned
        /\ replayMode' = (replayMode \/ rotates)
        /\ IF TimelineKey(e) \in keys
           THEN /\ seenKeys' = keys /\ buffer' = kept
                /\ UNCHANGED <<missed, pending, lastCursor>>
           ELSE /\ seenKeys' = IF IsServer(e) THEN keys \cup {TimelineKey(e)} ELSE keys
                /\ buffer' = Append(kept, e)
                /\ Emit(e)

Receive ==
    /\ \E f \in Fetch : \E e \in {Envelope(epoch, fetch[f].next)} :
          /\ Receives(f, e)
          /\ IF listening THEN Ingest(e)
             ELSE UNCHANGED <<pinned, seenKeys, buffer, replayMode, missed, pending, lastCursor>>
    /\ UNCHANGED <<metas, subscribed, catchup, folds>>

Preflight ==
    /\ metas < (IF "remetas" \in Env THEN 2 ELSE IF "metas" \in Env THEN 1 ELSE 0)
    /\ metas' = metas + 1
    /\ Ingest(Meta(pinned, metas + 1))
    /\ UNCHANGED <<sse, subscribed, catchup, folds>>

-----------------------------------------------------------------------------
(* The hook.                                                               *)

Folded(batch) ==
    /\ timeline' = FoldBatchIntoTimeline(timeline, batch)
    /\ session' = FoldBatchIntoSessionState(session, batch)

Flush ==
    /\ pending # <<>>
    /\ pending' = <<>>
    /\ reconnecting' = FALSE
    /\ armTimer' = TRUE
    /\ render' = TRUE
    /\ UNCHANGED <<sse, runtime, subscribed, missed, lastCursor, catchup>>
    /\ Folded(pending)

ArmReplay ==
    /\ armTimer
    /\ armTimer' = FALSE
    /\ replayMode' = FALSE
    /\ UNCHANGED <<sse, pinned, seenKeys, buffer, metas, subscribed, missed, pending, lastCursor,
                   catchup, timeline, session, render, reconnecting>>

(* onClose: one fetch, from the runtime's timeline or else the server.     *)
OnClose ==
    /\ reconnecting' = TRUE
    /\ render' = (render \/ ~reconnecting)
    /\ catchup' = IF lastCursor.epoch = 0 THEN catchup
                  ELSE [asked |-> TRUE, items |-> FetchTimeline(buffer, lastCursor).items]

Close ==
    /\ "closes" \in Env
    /\ subscribed
    /\ subscribed' = FALSE
    /\ OnClose
    /\ UNCHANGED <<sse, runtime, missed, pending, lastCursor, timeline, session, armTimer>>

(* A render is committed and its effect runs: the cleanup of the last one  *)
(* flushes the batch, cancels the timer, forgets the fetch and closes the  *)
(* stream, which has the hook reconnecting; then the hook connects.        *)
CommitUnflushed ==
    /\ render
    /\ pending' = <<>>
    /\ armTimer' = FALSE
    /\ catchup' = NoCatchup
    /\ reconnecting' = (subscribed \/ reconnecting)
    /\ render' = (reconnecting' # reconnecting)
    /\ subscribed' = TRUE
    /\ UNCHANGED <<sse, runtime, missed, lastCursor, timeline, session>>

Commit ==
    /\ render
    /\ pending' = <<>>
    /\ armTimer' = FALSE
    /\ catchup' = NoCatchup
    /\ reconnecting' = (subscribed \/ (reconnecting /\ pending = <<>>))
    /\ render' = (reconnecting' # reconnecting \/ pending # <<>>)
    /\ subscribed' = TRUE
    /\ UNCHANGED <<sse, runtime, missed, lastCursor>>
    /\ Folded(pending)

(* The answer, of a server that may have restarted.                        *)
CatchUp(items) ==
    /\ catchup' = NoCatchup
    /\ IF items = <<>> THEN UNCHANGED <<pending, lastCursor, folds>>
       ELSE /\ pending' = <<>>
            /\ lastCursor' = [epoch |-> Last(items).epoch, seq |-> Last(items).seq]
            /\ armTimer' = (armTimer \/ pending # <<>>)
            /\ reconnecting' = (reconnecting /\ pending = <<>>)
            /\ render' = TRUE
            /\ Folded(pending \o CatchupBatch(items, lastCursor.epoch))
    /\ UNCHANGED <<runtime, subscribed, missed>>

CatchUpReturns ==
    /\ catchup.asked
    /\ CatchUp(IF catchup.items # <<>> THEN catchup.items
               ELSE LET after == IF lastCursor.epoch = epoch THEN lastCursor.seq ELSE 0
                    IN  [i \in 1..length - after |-> Envelope(epoch, after + i)])
    /\ UNCHANGED sse

CatchUpFails ==
    /\ catchup.asked
    /\ catchup.items = <<>>
    /\ breaks < MaxBreaks
    /\ breaks' = breaks + 1
    /\ CatchUp(<<>>)
    /\ UNCHANGED <<serving, fetch, stream>>

-----------------------------------------------------------------------------
Untouched == UNCHANGED <<runtime, hook>>

ConnectSse ==
    /\ ~listening /\ ~disposed
    /\ Connect
    /\ Untouched

(* The runtime is disposed of: its stream closes and so does the server's. *)
Dispose ==
    /\ "disposes" \in Env
    /\ listening
    /\ Disconnect
    /\ subscribed' = FALSE
    /\ UNCHANGED <<runtime, missed, pending, lastCursor, catchup, folds>>

(* What goes on by itself: connections, timers, frames and renders.        *)
Runs ==
    \/ Receive
    \/ Flush \/ ArmReplay \/ Commit \/ CatchUpReturns
    \/ ConnectSse
    \/ \E f \in Fetch : (Opens(f) \/ AbortedEnds(f)) /\ Untouched
    \/ ReconnectTimer /\ Untouched

Next ==
    \/ Runs
    \/ Preflight \/ Close \/ CatchUpFails \/ Dispose
    \/ \E f \in Fetch : Breaks(f) /\ Untouched
    \/ (Appends \/ Restarts) /\ Untouched

Spec == Init /\ [][Next]_vars

(* One of them comes in the end.  They cannot go on for ever by            *)
(* themselves, so none of them waits for ever.                             *)
FairSpec == Spec /\ WF_vars(Runs)

-----------------------------------------------------------------------------
(* Correctness.                                                            *)

(* However streams break and overlap and the server restarts, a transcript *)
(* is of one epoch, in order, nothing twice, and lacks nothing before its  *)
(* end but what came while the hook did not listen.                        *)
InOrder(es) ==
    \A i \in 1..Len(es) : IsServer(es[i]) =>
        /\ \A j \in 1..i - 1 : IsServer(es[j]) =>
              es[j].epoch = es[i].epoch /\ es[j].seq < es[i].seq
        /\ \A s \in 1..es[i].seq - 1 :
              Envelope(es[i].epoch, s) \in Range(es) \/ <<es[i].epoch, s>> \in missed

(* And the reports of the client outlive the restarts of the server.       *)
ReportsKept ==
    pending = <<>> /\ missed = {} => metas <= Cardinality({e \in Range(timeline) : IsLocal(e)})

(* A reconnect skips nothing: up to the stream's cursor the runtime has    *)
(* taken every item, and up to the hook's the hook has, or did not listen. *)
CursorIsHeld ==
    /\ listening /\ cursor.epoch # 0 => \A s \in 1..cursor.seq : <<cursor.epoch, s>> \in seenKeys
    /\ \A s \in 1..lastCursor.seq :
          \/ Envelope(lastCursor.epoch, s) \in Range(timeline) \cup {p[1] : p \in Range(pending)}
          \/ <<lastCursor.epoch, s>> \in missed

(* What the hook took is in the transcript, and both folds hold the same.  *)
NothingLost ==
    /\ InOrder(session.transcript)
    /\ Server(timeline) = Server(session.transcript)
    /\ ReportsKept
    /\ CursorIsHeld

(* Every item is shown in the end, unless it came while the hook did not   *)
(* listen or the stream was given up.                                      *)
Shows(s) == \E e \in Range(session.transcript) : e.seq = s

EventuallyShown ==
    \A s \in 1..MaxSeq :
        length >= s ~> \/ Shows(s) \/ disposed \/ gaveUp
                       \/ \E k \in missed : k[2] = s

-----------------------------------------------------------------------------
(* Batches and chunks.                                                     *)

(* "exactly equivalent to applying each event individually": a batch folds *)
(* as its events do one by one.                                            *)
FoldOne(acc, event) == FoldBatchIntoTimeline(acc, <<event>>)

BatchAgrees == FoldBatchIntoTimeline(timeline, pending) = FoldLeft(FoldOne, timeline, pending)

(* However a stream of up to five characters is cut into chunks, its       *)
(* frames are the same.                                                    *)
FramingAgrees ==
    ~listening /\ ~disposed => \A text \in SeqOf({CR, LF, "x"}, 5) : \A k \in 0..Len(text) :
        LET first == ParseSseBuffer(SubSeq(text, 1, k))
        IN  first.items \o ParseSseBuffer(first.remainder \o SubSeq(text, k + 1, Len(text))).items
            = ParseSseBuffer(text).items

(* How events are batched and a stream is cut makes no difference.         *)
CutsAgree == BatchAgrees /\ FramingAgrees
=============================================================================

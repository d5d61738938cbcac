------------------------------ MODULE Timeline ------------------------------
(***************************************************************************)
(* Timelines: sequences of envelopes (timeline/src/index.ts), how the chat *)
(* hook folds batches of them (chat/src/use-agent-chat-session.ts) and how *)
(* the stream that carries them is framed (flitro/client).                 *)
(*                                                                         *)
(* An envelope is known by the epoch and the seq its server gave it; one   *)
(* that is local to the client has the seq 0, and a name that tells it     *)
(* from others.                                                            *)
(***************************************************************************)
EXTENDS Integers, Sequences, FiniteSets, SequencesExt, Filters

Envelope(epoch, seq) == [epoch |-> epoch, seq |-> seq, name |-> 0]
Meta(epoch, name) == [epoch |-> epoch, seq |-> 0, name |-> name]

TimelineKey(e) == <<e.epoch, e.seq>>

IsServer(e) == e.seq > 0
IsLocal(e) == e.seq <= 0

(* The last envelope of every key is kept.                                 *)
Newest(es) ==
    {i \in 1..Len(es) : \A j \in i + 1..Len(es) : TimelineKey(es[j]) # TimelineKey(es[i])}

(* sortTimeline: epochs in the order in which they were first seen, which  *)
(* are random strings, then seqs.                                          *)
Before(es, i, j) ==
    IF es[i].epoch = es[j].epoch THEN es[i].seq < es[j].seq
    ELSE \E k \in 1..j - 1 : /\ es[k].epoch = es[i].epoch
                             /\ \A l \in 1..k : es[l].epoch # es[j].epoch

SortTimeline(es, kept) ==
    [k \in 1..Cardinality(kept) |->
        es[CHOOSE i \in kept : Cardinality({j \in kept : Before(es, j, i)}) = k - 1]]

MergeTimeline(existing, incoming) ==
    LET all == existing \o incoming IN SortTimeline(all, Newest(all))

(* Newer envelopes of the last epoch are appended.                         *)
IncrementalByEpoch(existing, incoming) ==
    IF incoming = <<>> THEN existing
    ELSE IF existing # <<>> /\ \A i \in 1..Len(incoming) : incoming[i].epoch = Last(existing).epoch
    THEN existing \o MergeTimeline(<<>>, incoming)
    ELSE MergeTimeline(existing, incoming)

MergeTimelineIncremental(existing, incoming) ==
    IF incoming = <<>> THEN existing
    ELSE IF /\ existing # <<>>
            /\ \A i \in 1..Len(incoming) : /\ incoming[i].epoch = Last(existing).epoch
                                           /\ incoming[i].seq > Last(existing).seq
    THEN existing \o MergeTimeline(<<>>, incoming)
    ELSE MergeTimeline(existing, incoming)

(* What a timeline has after a cursor.                                     *)
FetchTimeline(timeline, cursor) ==
    LET after == {e \in Range(timeline) : e.epoch = cursor.epoch /\ e.seq > cursor.seq}
        items == MergeTimeline(<<>>, Filter(timeline, after))
    IN  [items |-> items,
         hasGap |-> \E i \in 1..Len(items) : items[i].seq # cursor.seq + i]

(* A batch pairs envelopes with whether they begin a new epoch.            *)
CatchupBatch(items, epoch) ==
    [i \in 1..Len(items) |->
        LET prev == IF i = 1 THEN epoch ELSE items[i - 1].epoch
        IN  <<items[i], prev # items[i].epoch>>]

(* foldBatchIntoTimeline, event by event: what is folded, and what is to   *)
(* be merged with it.  What is local to the client outlives an epoch.      *)
Locals(es) == Filter(es, {e \in Range(es) : IsLocal(e)})

FoldWipingLocals(timeline, batch) ==
    LET folded[i \in 0..Len(batch)] ==
            IF i = 0 THEN [next |-> timeline, incoming |-> <<>>]
            ELSE IF batch[i][2] THEN [next |-> <<batch[i][1]>>, incoming |-> <<>>]
            ELSE [folded[i - 1] EXCEPT !.incoming = Append(@, batch[i][1])]
    IN  MergeTimelineIncremental(folded[Len(batch)].next, folded[Len(batch)].incoming)

FoldBatchIntoTimeline(timeline, batch) ==
    LET folded[i \in 0..Len(batch)] ==
            IF i = 0 THEN [next |-> timeline, incoming |-> <<>>]
            ELSE LET f == folded[i - 1]
                 IN  IF batch[i][2]
                     THEN [next |-> Append(Locals(f.next) \o Locals(f.incoming), batch[i][1]),
                           incoming |-> <<>>]
                     ELSE [f EXCEPT !.incoming = Append(@, batch[i][1])]
    IN  MergeTimelineIncremental(folded[Len(batch)].next, folded[Len(batch)].incoming)

(* foldBatchIntoSessionState: a session is the transcript it was built     *)
(* from, in the order of its events, and the keys it has seen.             *)
NoSession == [transcript |-> <<>>, seen |-> {}]

FoldEvent(session, event) ==
    LET s == IF event[2] THEN NoSession ELSE session
        e == event[1]
    IN  IF TimelineKey(e) \in s.seen THEN s
        ELSE [transcript |-> Append(s.transcript, e),
              seen |-> s.seen \cup (IF IsServer(e) THEN {TimelineKey(e)} ELSE {})]

FoldBatchIntoSessionState(session, batch) ==
    LET folded[i \in 0..Len(batch)] ==
            IF i = 0 THEN session ELSE FoldEvent(folded[i - 1], batch[i])
    IN  folded[Len(batch)]

-----------------------------------------------------------------------------
(* The framing of the stream.  A character is a line feed, a carriage      *)
(* return or a "x", which stands for a field; frames are what is between   *)
(* blank lines, without the frames that are empty.                         *)
CR == "r"
LF == "n"

Normalized(text) ==
    LET Add(acc, i) ==
            IF text[i] = LF /\ i > 1 /\ text[i - 1] = CR THEN acc
            ELSE Append(acc, IF text[i] = CR THEN LF ELSE text[i])
    IN  FoldLeft(Add, <<>>, [i \in 1..Len(text) |-> i])

(* split at pairs of line feeds, from the left.                            *)
Blocks(text) ==
    LET Add(acc, c) ==
            IF c = LF /\ acc.block # <<>> /\ Last(acc.block) = LF
            THEN [blocks |-> Append(acc.blocks, Front(acc.block)), block |-> <<>>]
            ELSE [acc EXCEPT !.block = Append(@, c)]
    IN  FoldLeft(Add, [blocks |-> <<>>, block |-> <<>>], text)

(* The fields of the frames that have any.                                 *)
Frames(blocks) ==
    LET HasField(block) == "x" \in Range(block)
        full == SelectSeq(blocks, HasField)
    IN  [i \in 1..Len(full) |-> IF Head(full[i]) = LF THEN Tail(full[i]) ELSE full[i]]

ParseWithoutHold(buffer) ==
    LET split == Blocks(Normalized(buffer))
    IN  [items |-> Frames(split.blocks), remainder |-> split.block]

(* A last carriage return may be half of a line end.                       *)
ParseSseBuffer(buffer) ==
    LET n == Len(buffer)
        hold == n > 0 /\ buffer[n] = CR /\ ~(n > 1 /\ buffer[n - 1] = CR)
        split == Blocks(Normalized(IF hold THEN Front(buffer) ELSE buffer))
    IN  [items |-> Frames(split.blocks),
         remainder |-> IF hold THEN Append(split.block, CR) ELSE split.block]
=============================================================================

---------------------------- MODULE TurnGrouping ----------------------------
(***************************************************************************)
(* How a transcript is shown: groupMessagesByTurn of ui/src/chat/          *)
(* turn-grouping.ts over messages that are sorted by their timestamps.     *)
(*                                                                         *)
(* A turn refers to messages by their positions.  Left out: what a card    *)
(* shows of an activity, nesting depths, todos and the streaming flags.    *)
(***************************************************************************)
EXTENDS Sequences, Integers, SequencesExt

(* A final answer is neither intermediate nor pending.                     *)
IsFinal(m) == m.role = "assistant" /\ ~m.intermediate /\ ~m.pending

HardBoundary == {"user", "error", "auth-request"}

(* precomputeLaterToolScan: what a scan that starts at i comes to first,   *)
(* and the turns of the final answers it passes on the way to a tool.      *)
NoStop == [stop |-> "none", finals |-> FALSE, mixed |-> FALSE, turn |-> 0]

LaterToolScan(ms) ==
    LET state[i \in 1..Len(ms) + 1] ==
            IF i > Len(ms) THEN NoStop
            ELSE LET m == ms[i]
                     next == state[i + 1]
                 IN  IF m.role \in HardBoundary THEN [NoStop EXCEPT !.stop = "boundary"]
                     ELSE IF m.role = "tool" THEN [NoStop EXCEPT !.stop = "tool"]
                     ELSE IF IsFinal(m) /\ next.stop = "tool"
                     THEN [stop |-> "tool", finals |-> TRUE,
                           mixed |-> next.mixed \/ (next.finals /\ next.turn # m.turn),
                           turn |-> IF next.finals THEN next.turn ELSE m.turn]
                     ELSE next
    IN  state

HasLaterToolUnmixed(ms, i) ==
    LET state == LaterToolScan(ms)[i + 1]
    IN  state.stop = "tool" /\ (state.finals => state.turn = ms[i].turn)

HasLaterTool(ms, i) ==
    LET state == LaterToolScan(ms)[i + 1]
    IN  /\ state.stop = "tool"
        /\ state.finals => ~state.mixed /\ state.turn = ms[i].turn

(* What the scan replaces: from i on there is a tool before a boundary,    *)
(* where the answers of other turns are boundaries too.                    *)
LaterToolForward(ms, i) ==
    \E j \in i + 1..Len(ms) :
        /\ ms[j].role = "tool"
        /\ \A k \in i + 1..j - 1 :
              /\ ms[k].role \notin HardBoundary
              /\ IsFinal(ms[k]) => ms[k].turn = ms[i].turn

-----------------------------------------------------------------------------
(* A turn of the display.  It goes by its first message's turn, or by that *)
(* message itself when it has none.                                        *)
Card(kind, key) ==
    [kind |-> kind, key |-> key, acts |-> {}, response |-> 0, complete |-> FALSE, plan |-> FALSE]

NoCard == Card("none", <<>>)

Key(ms, i) == IF ms[i].role \in {"tool", "assistant"} THEN <<"turn", ms[i].turn>> ELSE <<"message", i>>

(* flushCurrentTurn: a complete turn without an answer shows its last text *)
(* as the answer, unless it was interrupted or ended in a plan.            *)
TextOf(ms, card) == {i \in card.acts : ms[i].role = "assistant" /\ ms[i].text # {}}

Flushed(ms, turns, card, interrupted) ==
    IF card.kind = "none" THEN turns
    ELSE LET texts == TextOf(ms, card)
             promoted == IF ~interrupted /\ ~card.plan /\ card.complete
                            /\ card.response = 0 /\ texts # {}
                         THEN CHOOSE i \in texts : \A j \in texts : j <= i
                         ELSE card.response
         IN  Append(turns, [card EXCEPT !.response = promoted,
                                        !.complete = @ \/ interrupted])

(* One message of the loop.                                                *)
Alone(ms, acc, i, kind, interrupted) ==
    [turns |-> Append(Flushed(ms, acc.turns,
                              [acc.card EXCEPT !.complete = @ \/ ~interrupted], interrupted),
                      [Card(kind, <<"message", i>>) EXCEPT !.acts = {i}, !.complete = TRUE]),
     card |-> NoCard]

Placed(ms, acc, i) ==
    LET m == ms[i]
        card == IF acc.card.kind = "none" THEN Card("assistant", Key(ms, i)) ELSE acc.card
        active == [card EXCEPT !.acts = @ \cup {i}]
    IN  IF m.role \in {"auth-request", "user"} THEN Alone(ms, acc, i, m.role, FALSE)
        ELSE IF m.role \in {"error", "info"} THEN Alone(ms, acc, i, "system", m.role = "info")
        ELSE IF m.role = "compacted" THEN acc
        ELSE IF m.role = "plan"
        THEN [turns |-> Flushed(ms, acc.turns,
                                [active EXCEPT !.plan = TRUE, !.complete = TRUE], FALSE),
              card |-> NoCard]
        ELSE IF ~IsFinal(m) \/ HasLaterTool(ms, i) THEN [acc EXCEPT !.card = active]
        ELSE IF m.streaming THEN [acc EXCEPT !.card = [card EXCEPT !.response = i]]
        ELSE [turns |-> Flushed(ms, acc.turns,
                                [card EXCEPT !.response = i, !.complete = TRUE], FALSE),
              card |-> NoCard]

MergedOverAnswers(turns) ==
    LET Add(done, turn) ==
            LET last == IF done = <<>> THEN NoCard ELSE Last(done)
            IN  IF last.kind = "assistant" /\ turn.kind = "assistant" /\ last.key = turn.key
                THEN Append(Front(done), [turn EXCEPT !.acts = @ \cup last.acts])
                ELSE Append(done, turn)
    IN  FoldLeft(Add, <<>>, turns)

(* mergeAdjacentAssistantTurns: two cards of one turn are one, unless both *)
(* have an answer.                                                         *)
Merged(turns) ==
    LET Add(done, turn) ==
            LET last == IF done = <<>> THEN NoCard ELSE Last(done)
            IN  IF /\ last.kind = "assistant" /\ turn.kind = "assistant"
                   /\ last.key = turn.key
                   /\ last.response = 0 \/ turn.response = 0
                THEN Append(Front(done),
                            [last EXCEPT !.acts = @ \cup turn.acts,
                                         !.response = IF @ = 0 THEN turn.response ELSE @,
                                         !.complete = @ \/ turn.complete,
                                         !.plan = @ \/ turn.plan])
                ELSE Append(done, turn)
    IN  FoldLeft(Add, <<>>, turns)

GroupMessagesByTurn(ms) ==
    LET Place(acc, i) == Placed(ms, acc, i)
        end == FoldLeft(Place, [turns |-> <<>>, card |-> NoCard], [i \in 1..Len(ms) |-> i])
    IN  Merged(Flushed(ms, end.turns, end.card, FALSE))

(* The messages a turn shows.                                              *)
Shows(turn, i) == i \in turn.acts \/ turn.response = i
=============================================================================

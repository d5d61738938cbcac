--------------------------- MODULE EventProcessor ---------------------------
(***************************************************************************)
(* The reducer that folds an agent's events into the messages of a         *)
(* session (ui/src/processor), under an agent that takes turns, and the    *)
(* display of the messages (TurnGrouping).                                 *)
(*                                                                         *)
(* A text is the set of blocks whose deltas it holds, a block is the turn  *)
(* and the kind.  Timestamps are kept as ranks: "at" numbers the messages  *)
(* in the order they are displayed.  A definition that no other refers to  *)
(* is a slip of the one after it.                                          *)
(*                                                                         *)
(* Left out: the fields a session has besides its messages, the list of    *)
(* pending permission requests, and what the tools are called with.        *)
(***************************************************************************)
EXTENDS TurnGrouping, Filters, FiniteSets

CONSTANTS
    Tool,        \* the tool calls an agent may make
    Parent,      \* the tool call whose subagent makes all the others
    User,        \* the messages a user may queue
    Echo,        \* messages with one text, less than 5 seconds apart
    MaxTurn,     \* bound: turns
    MaxMessage,  \* bound: messages before the transcript takes no more
    Env          \* what agents and users may do; see EnvKinds

EnvKinds ==
    {"tasks",      \* tools go on in the background
     "shells",     \* shells do, which have no task
     "reorders",   \* results come before tool_start, queued after processing
     "streams",    \* tools show output while they run
     "fails",      \* turns end with an error
     "cuts",       \* and may end so within a block
     "stops",      \* users and redirections interrupt a turn
     "queues",     \* users send while a turn runs
     "late",       \* reasoning is completed after the answer has begun
     "whole",      \* a block that is not the first comes without deltas
     "asides"}     \* status and info lines, compaction, plans, authentication

ASSUME ProcessorAssumption ==
    /\ Env \subseteq EnvKinds /\ Parent \in Tool
    /\ User \cap (1..MaxTurn) = {} /\ Echo \subseteq User \cup (1..MaxTurn)
    /\ MaxTurn \in Nat \ {0} /\ MaxMessage \in Nat

VARIABLES
    messages,    \* session.messages
    streaming,   \* the text of the streaming state; {} is null
    turn,        \* the agent: its current or last turn
    live,        \* the turn runs
    ended,       \* how the last turn ended
    block,       \* the blocks it has begun, in order
    done,        \* the blocks it has completed
    sent,        \* sent[t]: the events of t that were sent
    queue        \* queue[u]: what became of the message u

ui == <<messages, streaming>>
agent == <<turn, live, ended, block, done, sent, queue>>
vars == <<ui, agent>>

Kind == <<"think", "say", "answer">>
Block == (1..MaxTurn) \X {"think", "say", "answer"}
Assistants ==
    [role : {"assistant"}, at : Nat, turn : 1..MaxTurn, text : SUBSET Block,
     streaming : BOOLEAN, pending : BOOLEAN, intermediate : BOOLEAN]
Calls ==
    [role : {"tool"}, at : Nat, turn : 1..MaxTurn, use : Tool, shown : BOOLEAN,
     status : {"executing", "backgrounded", "ended"}, background : {"no", "task", "shell"}]
Bubbles == [role : {"user"}, at : Nat, id : User \cup (1..MaxTurn), queued : BOOLEAN]
Lines == [role : {"status", "compacting", "compacted", "info", "error", "plan"}, at : Nat]
Logins == [role : {"auth-request"}, at : Nat, status : {"pending", "over"}]
Message == Assistants \cup Calls \cup Bubbles \cup Lines \cup Logins

(* The types; and the ranks are those of a display order.                  *)
TypeOK ==
    /\ \A i \in 1..Len(messages) : messages[i] \in Message
    /\ {messages[i].at : i \in 1..Len(messages)} = 1..Len(messages)
    /\ streaming \in SUBSET Block /\ done \in SUBSET Block
    /\ turn \in 0..MaxTurn /\ live \in BOOLEAN
    /\ ended \in {"no", "complete", "error", "interrupted", "paused"}
    /\ block \in Seq({"think", "say", "answer"})
    /\ sent \in [Tool -> SUBSET {"start", "result", "background", "over", "closed"}]
    /\ queue \in [User -> {"unsent", "queued", "waiting", "processing", "dropped"}]

Init ==
    /\ messages = <<>> /\ streaming = {}
    /\ turn = 0 /\ live = FALSE /\ ended = "no" /\ block = <<>> /\ done = {}
    /\ sent = [t \in Tool |-> {}]
    /\ queue = [u \in User |-> "unsent"]

-----------------------------------------------------------------------------
(* Messages.                                                               *)

(* Timestamps that a handler sets to now are beyond all others.            *)
Now == Len(messages) + 2

Ranked(ms) ==
    [i \in 1..Len(ms) |->
        [ms[i] EXCEPT !.at = Cardinality({j \in 1..Len(ms) : ms[j].at <= ms[i].at})]]

Shown(ms) == messages' = Ranked(ms)

Line(role) == [role |-> role, at |-> Now]

FindStreamingMessage(ms, t) ==
    LET ofTurn(m) == m.role = "assistant" /\ m.turn = t /\ m.streaming
        any(m) == m.role = "assistant" /\ m.streaming
        i == SelectInSeq(ms, ofTurn)
    IN  IF i # 0 THEN i ELSE SelectLastInSeq(ms, any)

FindAssistantMessage(ms, t) ==
    LET ofTurn(m) == m.role = "assistant" /\ m.turn = t
        any(m) == m.role = "assistant" /\ m.streaming
        i == SelectInSeq(ms, ofTurn)
    IN  IF i # 0 THEN i ELSE SelectLastInSeq(ms, any)

FindToolMessage(ms, t) ==
    LET uses(m) == m.role = "tool" /\ m.use = t IN SelectInSeq(ms, uses)

-----------------------------------------------------------------------------
(* Text.                                                                   *)

Streamed(t, text, intermediate) ==
    [role |-> "assistant", at |-> Now, turn |-> t, text |-> text,
     streaming |-> TRUE, pending |-> TRUE, intermediate |-> intermediate]

TextDeltaUnclosed(t, delta, intermediate) ==
    LET i == FindStreamingMessage(messages, t)
    IN  /\ Shown(IF i = 0 THEN Append(messages, Streamed(t, delta, intermediate))
                 ELSE [messages EXCEPT ![i].text = @ \cup delta])
        /\ streaming' = streaming \cup delta

(* Reasoning is closed by the first delta of an answer.                    *)
TextDelta(t, delta, intermediate) ==
    LET i == FindStreamingMessage(messages, t)
    IN  IF i = 0
        THEN /\ Shown(Append(messages, Streamed(t, delta, intermediate)))
             /\ streaming' = streaming \cup delta
        ELSE IF messages[i].intermediate /\ ~intermediate
        THEN /\ Shown(Append([messages EXCEPT ![i].streaming = FALSE],
                             Streamed(t, delta, FALSE)))
             /\ streaming' = delta
        ELSE /\ Shown([messages EXCEPT ![i].text = @ \cup delta])
             /\ streaming' = streaming \cup delta

CompletedAnyMessage(ms, t, intermediate) ==
    LET streamed == FindStreamingMessage(ms, t)
    IN  IF streamed # 0 THEN streamed ELSE FindAssistantMessage(ms, t)

(* The message that a completion is for: 0 if it makes a new one.          *)
CompletedMessage(ms, t, intermediate) ==
    LET streamed == FindStreamingMessage(ms, t)
        fits == streamed # 0 /\ ~(intermediate /\ ~ms[streamed].intermediate)
        i == IF fits THEN streamed ELSE FindAssistantMessage(ms, t)
    IN  IF i # 0 /\ ms[i].intermediate /\ ~ms[i].streaming /\ ~ms[i].pending THEN 0 ELSE i

(* A completion that repeats what was streamed, and reasoning, keep their  *)
(* place; any other moves to the time it was completed.                    *)
TextComplete(t, text, intermediate) ==
    LET i == CompletedMessage(messages, t, intermediate)
        content == IF text # {} THEN text
                   ELSE IF streaming # {} THEN streaming
                   ELSE IF i # 0 THEN messages[i].text ELSE {}
        keeps == intermediate \/ (text # {} /\ text \in {messages[i].text, streaming})
        message == [role |-> "assistant", turn |-> t, text |-> content,
                    at |-> IF i # 0 /\ keeps THEN messages[i].at ELSE Now,
                    streaming |-> FALSE, pending |-> FALSE, intermediate |-> intermediate]
    IN  /\ Shown(IF i # 0 THEN [messages EXCEPT ![i] = message] ELSE Append(messages, message))
        /\ streaming' = {}

-----------------------------------------------------------------------------
(* Tools.                                                                  *)

ToolMessage(t, status, shown) ==
    [role |-> "tool", at |-> Now, turn |-> turn, use |-> t, shown |-> shown,
     status |-> status, background |-> "no"]

(* The second tool_start of a call changes no status.                      *)
ToolStart(t) ==
    LET i == FindToolMessage(messages, t)
    IN  Shown(IF i # 0 THEN messages ELSE Append(messages, ToolMessage(t, "executing", FALSE)))

ToolDelta(t) ==
    LET i == FindToolMessage(messages, t)
    IN  Shown(IF i # 0 THEN [messages EXCEPT ![i].shown = TRUE, ![i].at = Now]
              ELSE Append(messages, ToolMessage(t, "executing", TRUE)))

(* A tool in the background stays there.  With a task, the calls of its    *)
(* subagent that have not ended are over.                                  *)
Orphaned(ms, t, i) ==
    t = Parent /\ ms[i].role = "tool" /\ ms[i].use # Parent /\ ms[i].status # "ended"

ToolResult(t) ==
    LET i == FindToolMessage(messages, t)
        resulted == [messages EXCEPT
                        ![i].shown = TRUE,
                        ![i].status = IF messages[i].background # "no"
                                      THEN "backgrounded" ELSE "ended"]
    IN  IF i = 0 THEN Shown(Append(messages, ToolMessage(t, "ended", TRUE)))
        ELSE Shown([j \in 1..Len(messages) |->
                       IF Orphaned(resulted, t, j)
                       THEN [resulted[j] EXCEPT !.status = "ended", !.shown = TRUE]
                       ELSE resulted[j]])

Backgrounded(t, background) ==
    LET i == FindToolMessage(messages, t)
    IN  Shown(IF i = 0 THEN messages
              ELSE [messages EXCEPT ![i].status = "backgrounded",
                                    ![i].background = background])

(* A task is found by the id that its start in the background left.        *)
TaskCompleted(t) ==
    LET i == FindToolMessage(messages, t)
    IN  Shown(IF i # 0 /\ messages[i].background = "task"
              THEN [messages EXCEPT ![i].status = "ended", ![i].shown = TRUE]
              ELSE messages)

-----------------------------------------------------------------------------
(* The session.                                                            *)

Each(ms, update(_)) == [i \in 1..Len(ms) |-> update(ms[i])]

Running(m) == m.role = "tool" /\ m.status # "ended"

CompleteNoOutput ==
    LET settle(m) ==
            IF Running(m) /\ ~m.shown
            THEN [m EXCEPT !.status = "ended", !.shown = TRUE]
            ELSE IF m.role = "user" THEN [m EXCEPT !.queued = FALSE]
            ELSE m
    IN  Each(messages, settle)

(* handleComplete: only tasks go on, and no bubble stays queued.           *)
CompleteAll ==
    LET settle(m) ==
            IF Running(m) /\ m.background # "task"
            THEN [m EXCEPT !.status = "ended", !.shown = TRUE]
            ELSE IF m.role = "user" THEN [m EXCEPT !.queued = FALSE]
            ELSE m
    IN  Each(messages, settle)

Complete == Shown(CompleteAll) /\ streaming' = {}

(* handleError, handleTypedError: tools that have shown nothing fail.      *)
Failed(m) ==
    IF Running(m) /\ ~m.shown THEN [m EXCEPT !.status = "ended", !.shown = TRUE] ELSE m

HandleError ==
    /\ Shown(Append(Each(messages, Failed), Line("error")))
    /\ streaming' = {}

(* A user's stop leaves a notice and drops the bubbles that are queued; a  *)
(* redirection does neither.                                               *)
Interrupted(byUser) ==
    LET stays(m) ==
            /\ m.role \notin {"status", "compacting"}
            /\ ~(byUser /\ m.role = "user" /\ m.queued)
        settle(m) ==
            IF m.role = "assistant" /\ m.pending
            THEN [m EXCEPT !.pending = FALSE, !.streaming = FALSE]
            ELSE Failed(m)
        left == Each(Filter(messages, {m \in Range(messages) : stays(m)}), settle)
    IN  /\ Shown(IF byUser THEN Append(left, Line("info")) ELSE left)
        /\ streaming' = {}

(* A bubble is that of a message with its id (a turn's number is that of   *)
(* the message that opens it), or with its text and nearly its time.       *)
Stands(bubble, id) == bubble = id \/ {bubble, id} \subseteq Echo

UserMessageUnguarded(id, status) ==
    LET is(m) == m.role = "user" /\ Stands(m.id, id)
        i == SelectInSeq(messages, is)
    IN  Shown(IF i = 0
              THEN Append(messages, [role |-> "user", at |-> Now, id |-> id,
                                     queued |-> status = "queued"])
              ELSE [messages EXCEPT ![i].queued = status = "queued"])

(* A bubble that has left the queue does not return to it.                 *)
UserMessage(id, status) ==
    LET is(m) == m.role = "user" /\ Stands(m.id, id)
        i == SelectInSeq(messages, is)
    IN  Shown(IF i = 0
              THEN Append(messages, [role |-> "user", at |-> Now, id |-> id,
                                     queued |-> status = "queued"])
              ELSE IF status = "queued" /\ ~messages[i].queued THEN messages
              ELSE [messages EXCEPT ![i].queued = status = "queued"])

(* handleInfo at the end of a compaction.                                  *)
Compacted(m) == IF m.role = "compacting" THEN [m EXCEPT !.role = "compacted"] ELSE m

AuthCompletedAny(m) == IF m.role \in {"auth-request", "tool"} THEN [m EXCEPT !.status = "over"] ELSE m

AuthCompleted(m) == IF m.role = "auth-request" THEN [m EXCEPT !.status = "over"] ELSE m

-----------------------------------------------------------------------------
(* The agent and its users.                                                *)

Begun == Range(block)
Open == {k \in Begun : <<turn, k>> \notin done}

Turns == <<turn, live, ended, block>>

Room == Len(messages) < MaxMessage

StartTurn ==
    /\ ~live
    /\ turn < MaxTurn
    /\ turn' = turn + 1
    /\ live' = TRUE
    /\ ended' = "no"
    /\ block' = <<>>

(* A message that is queued waits from the next completion on.             *)
Waits(u) == queue[u] \in {"queued", "waiting"}

Send ==
    /\ \A u \in User : ~Waits(u)
    /\ StartTurn
    /\ UserMessage(turn + 1, "accepted")
    /\ UNCHANGED <<streaming, done, sent, queue>>

QueueMessage(u) ==
    /\ "queues" \in Env
    /\ \/ live /\ queue[u] = "unsent" /\ queue' = [queue EXCEPT ![u] = "queued"]
       \/ "reorders" \in Env /\ queue[u] = "processing" /\ UNCHANGED queue
    /\ UserMessage(u, "queued")
    /\ UNCHANGED <<streaming, Turns, done, sent>>

ProcessQueued(u) ==
    /\ Waits(u)
    /\ StartTurn
    /\ UserMessage(u, "processing")
    /\ queue' = [queue EXCEPT ![u] = "processing"]
    /\ UNCHANGED <<streaming, done, sent>>

(* Blocks come in order; each is begun with a delta.                       *)
Begins(k) ==
    /\ live
    /\ Room
    /\ k \notin Begun /\ "answer" \notin Begun
    /\ k = "think" => block = <<>>
    /\ k = "say" => \A t \in Tool : sent[t] = {}
    /\ Open \subseteq IF "late" \in Env THEN {"think"} ELSE {}
    /\ block' = Append(block, k)
    /\ UNCHANGED <<turn, live, ended, sent, queue>>

BeginBlock(k) ==
    /\ Begins(k)
    /\ TextDelta(turn, {<<turn, k>>}, k = "think")
    /\ UNCHANGED done

WholeBlock(k) ==
    /\ Begins(k)
    /\ "whole" \in Env \/ block = <<>>
    /\ TextComplete(turn, {<<turn, k>>}, k = "think")
    /\ done' = done \cup {<<turn, k>>}

EndBlock(k) ==
    /\ live
    /\ k \in Open
    /\ "think" \in Open => k = "think"
    /\ \E text \in {{<<turn, k>>}} \cup (IF Open = {k} THEN {{}} ELSE {}) :
          TextComplete(turn, text, k = "think")
    /\ done' = done \cup {<<turn, k>>}
    /\ UNCHANGED <<Turns, sent, queue>>

(* A call sends its events in order.                                       *)
Sends(t, event) ==
    /\ event \notin sent[t]
    /\ sent' = [sent EXCEPT ![t] = @ \cup {event}]
    /\ UNCHANGED <<streaming, Turns, done, queue>>

Working == live /\ Open = {} /\ "answer" \notin Begun

Has(t, event) == event \in sent[t]

ToolStarts(t) ==
    /\ Working
    /\ ~Has(t, "closed")
    /\ t # Parent => Has(Parent, "start") /\ ~Has(Parent, "result") /\ ~Has(Parent, "closed")
    /\ Room
    /\ Sends(t, "start")
    /\ ToolStart(t)

ToolStartsAgain(t) ==
    /\ Working
    /\ Has(t, "start") /\ ~Has(t, "closed")
    /\ Has(t, "result") => "reorders" \in Env
    /\ ToolStart(t)
    /\ UNCHANGED <<streaming, agent>>

ToolStreams(t) ==
    /\ "streams" \in Env
    /\ Working
    /\ Has(t, "start") /\ ~Has(t, "result") /\ ~Has(t, "closed")
    /\ ToolDelta(t)
    /\ UNCHANGED <<streaming, agent>>

ToolReturns(t) ==
    /\ Working
    /\ ~Has(t, "closed")
    /\ Has(t, "start") \/ ("reorders" \in Env /\ t # Parent /\ Has(Parent, "start"))
    /\ Room
    /\ Sends(t, "result")
    /\ ToolResult(t)

GoesBackground(t) ==
    /\ Working
    /\ Has(t, "start") /\ ~Has(t, "closed")
    /\ Sends(t, "background")
    /\ \E background \in {"task", "shell"} :
          /\ background = "task" => "tasks" \in Env
          /\ background = "shell" => "shells" \in Env /\ t # Parent
          /\ Backgrounded(t, background)

TaskEnds(t) ==
    /\ Has(t, "background")
    /\ Has(t, "result") \/ Has(t, "closed")
    /\ Sends(t, "over")
    /\ TaskCompleted(t)

(* The end of a turn.                                                      *)
EndTurn(how) ==
    /\ live
    /\ live' = FALSE
    /\ ended' = how
    /\ sent' = [t \in Tool |-> IF sent[t] = {} THEN {} ELSE sent[t] \cup {"closed"}]
    /\ UNCHANGED <<turn, block, done>>

TurnCompletes ==
    /\ Open = {}
    /\ EndTurn("complete")
    /\ Complete
    /\ queue' = [u \in User |-> IF queue[u] = "queued" THEN "waiting" ELSE queue[u]]

TurnFails ==
    /\ "fails" \in Env
    /\ Open = {} \/ "cuts" \in Env
    /\ EndTurn("error")
    /\ HandleError
    /\ UNCHANGED queue

Stop(byUser) ==
    /\ "stops" \in Env
    /\ EndTurn("interrupted")
    /\ Interrupted(byUser)
    /\ queue' = [u \in User |-> IF byUser /\ Waits(u) THEN "dropped" ELSE queue[u]]

(* The lines a transcript has besides; one at a time.                      *)
Aside(role) ==
    /\ "asides" \in Env
    /\ Working
    /\ Room
    /\ \A i \in 1..Len(messages) : messages[i].role \in {"user", "assistant", "tool"}
    /\ Shown(Append(messages, Line(role)))
    /\ UNCHANGED <<streaming, agent>>

CompactionEnds ==
    /\ Working
    /\ \E i \in 1..Len(messages) : messages[i].role = "compacting"
    /\ Shown(Each(messages, Compacted))
    /\ UNCHANGED <<streaming, agent>>

(* The agent pauses until a message resumes it.                            *)
AuthRequest ==
    /\ "asides" \in Env
    /\ Working
    /\ \A i \in 1..Len(messages) : messages[i].role \in {"user", "assistant", "tool"}
    /\ EndTurn("paused")
    /\ Shown(Append(messages, [role |-> "auth-request", at |-> Now, status |-> "pending"]))
    /\ streaming' = {}
    /\ UNCHANGED queue

AuthCompletes ==
    /\ \E i \in 1..Len(messages) :
          messages[i].role = "auth-request" /\ messages[i].status = "pending"
    /\ Shown(Each(messages, AuthCompleted))
    /\ UNCHANGED <<streaming, agent>>

Next ==
    \/ Send
    \/ \E u \in User : QueueMessage(u) \/ ProcessQueued(u)
    \/ \E k \in Range(Kind) : BeginBlock(k) \/ WholeBlock(k) \/ EndBlock(k)
    \/ \E t \in Tool : ToolStarts(t) \/ ToolStartsAgain(t) \/ ToolStreams(t) \/ ToolReturns(t)
                       \/ GoesBackground(t) \/ TaskEnds(t)
    \/ TurnCompletes \/ TurnFails
    \/ \E byUser \in BOOLEAN : Stop(byUser)
    \/ \E role \in {"status", "compacting", "info", "plan"} : Aside(role)
    \/ CompactionEnds \/ AuthRequest \/ AuthCompletes

Spec == Init /\ [][Next]_vars

-----------------------------------------------------------------------------
(* Correctness.                                                            *)

Position == 1..Len(messages)

(* No message shows text of another turn, or reasoning as an answer: as    *)
(* long as every block is closed before its turn ends, what a lookup by    *)
(* turn falls back on, the last message that streams, is the right one.    *)
OwnText ==
    \A i \in Position : messages[i].role = "assistant" =>
        \E k \in Range(Kind) :
            /\ messages[i].text \subseteq {<<messages[i].turn, k>>}
            /\ ~messages[i].streaming /\ ~messages[i].pending =>
                  (messages[i].intermediate <=> k = "think") \/ ended = "interrupted"
                  \/ messages[i].turn < turn

(* A block that was completed is shown once, however it was streamed, and  *)
(* is not pending.                                                         *)
TextKept ==
    \A b \in done :
        \E i \in Position :
            /\ \A j \in Position :
                  messages[j].role = "assistant" /\ b \in messages[j].text <=> j = i
            /\ ~messages[i].pending

(* A call has one message, and a user's message that waits or has been     *)
(* taken up has one bubble, whatever the order of their events; a bubble   *)
(* is shared only by messages with one text, less than 5 seconds apart.    *)
OnePerCall ==
    /\ \A i, j \in Position : i # j /\ messages[i].role = messages[j].role =>
          /\ messages[i].role = "tool" => messages[i].use # messages[j].use
          /\ messages[i].role = "user" => ~Stands(messages[i].id, messages[j].id)
    /\ \A u \in User : queue[u] \in {"queued", "waiting", "processing"} =>
          \E i \in Position : messages[i].role = "user" /\ Stands(messages[i].id, u)

OneMessageEach == TextKept /\ OnePerCall

(* Each text and call has a message of its own, each user message one that *)
(* it shares with none but its repetitions.                                *)
OwnMessages == OwnText /\ OneMessageEach

(* A call that has returned, or whose task has ended, is shown as ended    *)
(* from then on, unless it goes on in the background.                      *)
EndedIsShown ==
    \A i \in Position : messages[i].role = "tool" =>
        LET t == messages[i].use
        IN  /\ Has(t, "over") /\ messages[i].background = "task" =>
                  messages[i].status = "ended"
            /\ Has(t, "result") /\ ~Has(t, "background") => messages[i].status = "ended"

(* Between turns nothing is shown as running but what does run: no call,   *)
(* but tasks in the background and, after an error or a stop, calls that   *)
(* have shown output; no text is streaming; and no bubble is queued after  *)
(* a turn has completed.                                                   *)
SettledAtEnd ==
    ~live /\ ended \in {"complete", "error", "interrupted"} =>
        \A i \in Position :
            LET m == messages[i]
            IN  /\ m.role = "tool" /\ m.status # "ended" =>
                      m.background = "task" \/ (m.shown /\ ended # "complete")
                /\ m.role = "assistant" => ~m.streaming
                /\ m.role = "user" /\ ended = "complete" => ~m.queued

(* What is queued is shown as queued until a turn has completed, though it *)
(* may wait for longer, and a message that is being processed is not.  A   *)
(* bubble shared by repetitions leaves the queue with the first of them.   *)
QueuedIsShown ==
    \A i \in Position : messages[i].role = "user" =>
        LET what == {queue[u] : u \in {v \in User : Stands(messages[i].id, v)}}
        IN  /\ "processing" \in what => ~messages[i].queued
            /\ messages[i].id \in User /\ "queued" \in what /\ what \subseteq {"unsent", "queued"}
                  => messages[i].queued

(* What runs, waits or has ended is shown so.                              *)
StatusIsShown == EndedIsShown /\ SettledAtEnd /\ QueuedIsShown

-----------------------------------------------------------------------------
(* The display.                                                            *)

Display ==
    LET earlier(m, o) == m.at < o.at IN SortSeq(messages, earlier)

(* The reverse pass over a transcript finds what the forward scan that it  *)
(* replaces finds: for every transcript of up to five messages.            *)
Sample ==
    {[role |-> role] : role \in {"user", "status"}}
    \cup [role : {"tool"}, turn : {1}]
    \cup [role : {"assistant"}, turn : 1..2, intermediate : BOOLEAN, pending : {FALSE}]

ScanAgrees ==
    turn = 0 =>
        \A ms \in SeqOf(Sample, 5) : \A i \in 1..Len(ms) : IsFinal(ms[i]) =>
            HasLaterTool(ms, i) = LaterToolForward(ms, i)

(* Every message but the end of a compaction is shown in one turn.         *)
ShownOnce ==
    LET turns == GroupMessagesByTurn(Display)
    IN  \A i \in Position : Display[i].role # "compacted" =>
            Cardinality({c \in 1..Len(turns) : Shows(turns[c], i)}) = 1

(* When a turn has completed, the answer it ended with is the response of  *)
(* a card.                                                                 *)
AnswerShown ==
    ended = "complete" /\ <<turn, "answer">> \in done =>
        LET turns == GroupMessagesByTurn(Display)
        IN  \E c \in 1..Len(turns) :
               /\ turns[c].response # 0
               /\ <<turn, "answer">> \in Display[turns[c].response].text

(* The display leaves nothing out, and its quicker scan changes nothing.   *)
AllShown == ShownOnce /\ AnswerShown /\ ScanAgrees
=============================================================================

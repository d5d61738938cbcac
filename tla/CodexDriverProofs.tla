--------------------------- MODULE CodexDriverProofs ---------------------------
(* Proofs about CodexDriver, for every set of messages.                    *)
EXTENDS CodexDriver, SequenceTheorems, TLAPS

OfTurn == {"ask", "call", "result", "completed", "failed"}
Running == {"running", "asking", "working", "worked"}
Settled == {"resolved", "rejected"}

(* A turn is asked for once, before the process knows of it.               *)
AskedOnce ==
    /\ \A m \in Message : srv[m] # "none" => pc[m] \notin {"new", "resume", "start"}
    /\ \A i \in 1..Len(outbox) : outbox[i].type = "turn" =>
          /\ pc[outbox[i].turn] \notin {"new", "resume", "start"}
          /\ srv[outbox[i].turn] = "none"
          /\ \A j \in 1..Len(outbox) : outbox[j] = outbox[i] => j = i

(* An approval is asked for, judged, put to the host and answered in turn. *)
PromptInv ==
    /\ \A i \in 1..Len(outbox) :
          outbox[i].type \in {"answer", "cancel"} => prompt[outbox[i].turn] = "over"
    /\ \A i \in 1..Len(inbox) : inbox[i].type = "ask" =>
          /\ prompt[inbox[i].turn] = "none"
          /\ srv[inbox[i].turn] \in {"asking", "over"}
          /\ \A j \in 1..Len(inbox) : inbox[j] = inbox[i] => j = i
    /\ \A m \in Message :
          /\ prompt[m] # "over" => answers[m] = 0
          /\ answers[m] <= 1

AnswerInv == TypeOK /\ AskedOnce /\ PromptInv

-----------------------------------------------------------------------------
(* Unless the process outlives a request or its own exit, aborts come      *)
(* while requests are awaited, or lines before continuations.              *)
Orderly == Env \cap {"early", "orphan", "flush", "chunked"} = {}

(* One send is in flight, and when it waits its turn is the active one.    *)
OneInFlight ==
    /\ \A m, n \in Message : InFlight(m) /\ InFlight(n) => m = n
    /\ \A m \in Message :
          /\ m \in stopped => pc[m] \in Settled
          /\ pc[m] \in {"resume", "start"} => ~initialized
          /\ pc[m] \in {"turn", "waiting"} => initialized
          /\ pc[m] = "waiting" => activeTurnId = m /\ m \in turnAliases
    /\ activeTurnId # NoTurn => initialized
    /\ initialized => threadId

(* turn/start was written and not yet read; a line responds to it.         *)
AskedFor(m) == \E i \in 1..Len(outbox) : outbox[i].type = "turn" /\ outbox[i].turn = m

ToTurn(line) == line.type \in {"ok", "error"} /\ line.to = "turn"

(* The response to turn/start is on its way, or has come; and it comes     *)
(* before all else that the process says of the turn.                      *)
ResponseInv ==
    /\ ~alive => inbox = <<>> /\ outbox = <<>>
    /\ disposed => ~alive
    /\ \A m \in Message : AskedFor(m) =>
          /\ pc[m] = "turn" /\ req[m] = "open"
          /\ \A i \in 1..Len(inbox) : ToTurn(inbox[i]) => inbox[i].turn # m
    /\ \A i \in 1..Len(inbox) : ToTurn(inbox[i]) =>
          /\ pc[inbox[i].turn] = "turn" /\ req[inbox[i].turn] = "open"
          /\ inbox[i].type = "ok" <=> srv[inbox[i].turn] # "none"
          /\ \A j \in 1..Len(inbox) : inbox[j].turn = inbox[i].turn /\ j # i =>
                ~ToTurn(inbox[j]) /\ (inbox[j].type \in OfTurn => i < j)
    /\ \A m \in Message : alive /\ pc[m] = "turn" /\ srv[m] # "none" =>
          \/ req[m] = "answered"
          \/ /\ req[m] = "open"
             /\ \E i \in 1..Len(inbox) : ToTurn(inbox[i]) /\ inbox[i].turn = m

(* The end of a turn is the last that the process says of it; and of a     *)
(* turn whose send has settled it says no more, unless it was aborted.     *)
EndInv ==
    /\ \A i \in 1..Len(inbox) : inbox[i].type \in OfTurn =>
          /\ srv[inbox[i].turn] # "none"
          /\ pc[inbox[i].turn] \in Settled => inbox[i].turn \in aborted
          /\ inbox[i].type \in {"completed", "failed"} =>
                /\ srv[inbox[i].turn] = "over"
                /\ \A j \in 1..Len(inbox) :
                      inbox[j].type \in OfTurn /\ inbox[j].turn = inbox[i].turn => j <= i
    /\ \A m \in Message : alive /\ pc[m] \in Settled /\ srv[m] \in Running => m \in aborted

(* A terminal item is appended when the send settles, not before; and all  *)
(* that is shown of a turn is shown while its send waits.                  *)
ShownInv ==
    \A m \in Message :
       /\ item[m] # "open" => pc[m] \in Settled
       /\ names[m] \subseteq {"host"}

OrderInv == AnswerInv /\ OneInFlight /\ ResponseInv /\ EndInv /\ ShownInv

-----------------------------------------------------------------------------
(* Sequences: one line fewer, one line more.                               *)

Shifted(s, t) ==
    /\ Len(s) \in Nat /\ Len(t) \in Nat
    /\ Len(s) = Len(t) + 1
    /\ \A i \in 1..Len(t) : i + 1 \in 1..Len(s) /\ t[i] = s[i + 1]

Added(s, t, x) ==
    /\ Len(s) \in Nat /\ Len(t) \in Nat
    /\ Len(t) = Len(s) + 1
    /\ t[Len(t)] = x
    /\ \A i \in 1..Len(s) : i \in 1..Len(t) /\ t[i] = s[i]

LEMMA TailShifts ==
    ASSUME NEW S, NEW s \in Seq(S), s # <<>>
    PROVE  /\ Tail(s) \in Seq(S)
           /\ Shifted(s, Tail(s))
           /\ Head(s) = s[1] /\ 1 \in 1..Len(s) /\ Head(s) \in S
BY HeadTailProperties DEF Shifted

LEMMA AppendAdds ==
    ASSUME NEW S, NEW s \in Seq(S), NEW x \in S
    PROVE  /\ Append(s, x) \in Seq(S) /\ Added(s, Append(s, x), x)
           /\ s \o <<x>> \in Seq(S) /\ Added(s, s \o <<x>>, x)
<1>1. Append(s, x) \in Seq(S) /\ Added(s, Append(s, x), x)
  BY AppendProperties DEF Added
<1>2. s \o <<x>> = Append(s, x)
  BY AppendIsConcat
<1>3. QED
  BY <1>1, <1>2

-----------------------------------------------------------------------------
(* The types.                                                              *)

OutLine == [type : Request \cup {"interrupt", "answer", "cancel"}, turn : Message]
Response == [type : {"ok", "error"}, to : Request, turn : Message]
Notice == [type : OfTurn, turn : Message]
InLine == Response \cup Notice

LEMMA Lines ==
    ASSUME TypeOK
    PROVE  /\ outbox \in Seq(OutLine)
           /\ inbox \in Seq(InLine)
           /\ \A i \in 1..Len(outbox) : outbox[i] \in OutLine
           /\ \A i \in 1..Len(inbox) : inbox[i] \in InLine
<1>1. outbox \in Seq(OutLine) /\ inbox \in Seq(InLine)
  BY DEF TypeOK, OutLine, InLine, Response, Notice, OfTurn
<1>2. QED
  BY <1>1, ElementOfSeq

LEMMA LineTypes ==
    ASSUME NEW line \in InLine
    PROVE  /\ line.turn \in Message
           /\ line.type \in {"ok", "error"} \cup OfTurn
           /\ line.type \in {"ok", "error"} => line.to \in Request
BY DEF InLine, Response, Notice, OfTurn

(* A line is written.                                                      *)
LEMMA Writing ==
    ASSUME TypeOK, NEW m \in Message,
           NEW type \in Request \cup {"interrupt", "answer", "cancel"}, Write(type, m)
    PROVE  /\ outbox' \in Seq(OutLine)
           /\ alive => Added(outbox, outbox', [type |-> type, turn |-> m])
           /\ ~alive => outbox' = outbox
<1>1. [type |-> type, turn |-> m] \in OutLine
  BY DEF OutLine
<1>2. QED
  BY <1>1, Lines, AppendAdds DEF Write

(* A send is rejected by the failure of a request.                         *)
LEMMA Rejecting ==
    ASSUME TypeOK, NEW m \in Message, Reject(m)
    PROVE  /\ pc' \in [Message -> Request \cup {"new", "waiting", "resolved", "rejected"}]
           /\ req' \in [Message -> {"none", "open", "answered", "failed"}]
           /\ \A n \in Message : pc'[n] = IF n = m THEN "rejected" ELSE pc[n]
           /\ \A n \in Message : req'[n] = IF n = m THEN "none" ELSE req[n]
           /\ \A n \in Message : req'[n] = "none" <=> pc'[n] \notin Request
<1>1. "rejected" \notin Request
  BY DEF Request
<1>2. QED
  BY <1>1 DEF Reject, TypeOK

(* An item carries the id that the host gave its turn, or the other.       *)
LEMMA Naming ==
    ASSUME TypeOK, NEW m \in Message, Named(m)
    PROVE  /\ names' \in [Message -> SUBSET {"host", "provider"}]
           /\ \A n \in Message : n # m => names'[n] = names[n]
           /\ m \in turnAliases => names'[m] = names[m] \cup {"host"}
<1> DEFINE name == IF m \in turnAliases THEN "host" ELSE "provider"
<1>1. names \in [Message -> SUBSET {"host", "provider"}]
  BY DEF TypeOK
<1>2. names' = [names EXCEPT ![m] = names[m] \cup {name}]
  BY DEF Named
<1>3. names[m] \cup {name} \in SUBSET {"host", "provider"}
  <2>1. names[m] \in SUBSET {"host", "provider"} /\ name \in {"host", "provider"}
    BY <1>1
  <2> HIDE DEF name
  <2>2. QED
    BY <2>1
<1>4. m \in turnAliases => name = "host"
  OBVIOUS
<1> HIDE DEF name
<1>5. QED
  BY <1>1, <1>2, <1>3, <1>4, Zenon

LEMMA Asking ==
    ASSUME TypeOK, NEW m \in Message, NEW method \in Request, Ask(m, method)
    PROVE  /\ pc' \in [Message -> Request \cup {"new", "waiting", "resolved", "rejected"}]
           /\ req' \in [Message -> {"none", "open", "answered", "failed"}]
           /\ \A n \in Message : pc'[n] = IF n = m THEN method ELSE pc[n]
           /\ \A n \in Message : req'[n] = IF n = m THEN "open" ELSE req[n]
           /\ outbox' \in Seq(OutLine)
           /\ alive => Added(outbox, outbox', [type |-> method, turn |-> m])
           /\ ~alive => outbox' = outbox
<1>1. /\ pc' = [pc EXCEPT ![m] = method]
      /\ req' = [req EXCEPT ![m] = "open"]
      /\ Write(method, m)
  BY DEF Ask
<1>2. /\ outbox' \in Seq(OutLine)
      /\ alive => Added(outbox, outbox', [type |-> method, turn |-> m])
      /\ ~alive => outbox' = outbox
  BY <1>1, Writing
<1>3. QED
  BY <1>1, <1>2 DEF TypeOK

LEMMA TypeInit == Init => TypeOK
<1> SUFFICES ASSUME Init PROVE TypeOK
  OBVIOUS
<1>1. \A S : <<>> \in Seq(S)
  BY EmptySeq
<1>2. {threadId, initialized, disposed, alive} \subseteq BOOLEAN
  BY CodexAssumption DEF Init
<1>3. QED
  BY <1>1, <1>2 DEF Init, TypeOK, Request

LEMMA TypeAsk ==
    ASSUME TypeOK, NEW m \in Message, NEW method \in Request, Ask(m, method),
           {threadId', initialized'} \subseteq BOOLEAN,
           UNCHANGED <<activeTurnId, filter, prompt, disposed, inbox, alive, srv, history>>
    PROVE  TypeOK'
<1>1. outbox' \in Seq([type : Request \cup {"interrupt", "answer", "cancel"}, turn : Message])
  BY Asking DEF OutLine
<1>2. \A n \in Message : req'[n] = "none" <=> pc'[n] \notin Request
  <2>1. \A n \in Message : req[n] = "none" <=> pc[n] \notin Request
    BY DEF TypeOK
  <2>2. \A n \in Message : /\ pc'[n] = IF n = m THEN method ELSE pc[n]
                          /\ req'[n] = IF n = m THEN "open" ELSE req[n]
    BY Asking
  <2>3. QED
    BY <2>1, <2>2
<1>3. /\ pc' \in [Message -> Request \cup {"new", "waiting", "resolved", "rejected"}]
      /\ req' \in [Message -> {"none", "open", "answered", "failed"}]
  BY Asking
<1>4. QED
  BY <1>1, <1>2, <1>3 DEF TypeOK, filter, history, shown

LEMMA Methods == Request = {"resume", "start", "turn"}
BY DEF Request

(* A send and its continuations.                                           *)
LEMMA TypeSend ==
    ASSUME TypeOK, NEW m \in Message, SendCall(m) \/ Continue(m) \/ Timeout(m)
    PROVE  TypeOK'
<1>0. /\ {threadId, initialized} \subseteq BOOLEAN
      /\ {TRUE, initialized} \subseteq BOOLEAN /\ {FALSE, initialized} \subseteq BOOLEAN
      /\ {TRUE, TRUE} \subseteq BOOLEAN
  BY DEF TypeOK
<1>1. CASE SendCall(m)
  <2>1. PICK method \in Request : Ask(m, method)
    BY <1>1 DEF SendCall, Request
  <2>2. UNCHANGED <<threadId, initialized, activeTurnId, filter, prompt, disposed, inbox, alive, srv, history>>
    BY <1>1 DEF SendCall
  <2>3. QED
    BY <1>0, <2>1, <2>2, TypeAsk
<1>2. CASE ResumeReturns(m)
  <2>1. PICK method \in Request : Ask(m, method)
    BY <1>2 DEF ResumeReturns, Request
  <2>2. /\ {threadId', initialized'} \subseteq BOOLEAN
        /\ UNCHANGED <<activeTurnId, filter, prompt, disposed, inbox, alive, srv, history>>
    BY <1>0, <1>2 DEF ResumeReturns
  <2>3. QED
    BY <2>1, <2>2, TypeAsk
<1>3. CASE StartReturns(m)
  <2>1. CASE req[m] = "answered"
    <3>1. Ask(m, "turn") /\ "turn" \in Request
      BY <1>3, <2>1 DEF StartReturns, Request
    <3>2. /\ {threadId', initialized'} \subseteq BOOLEAN
          /\ UNCHANGED <<activeTurnId, filter, prompt, disposed, inbox, alive, srv, history>>
      BY <1>0, <1>3, <2>1 DEF StartReturns
    <3>3. QED
      BY <3>1, <3>2, TypeAsk
  <2>2. CASE req[m] = "failed"
    BY <1>3, <2>2, Rejecting DEF StartReturns, TypeOK, filter, history, shown
  <2>3. QED
    BY <1>3, <2>1, <2>2 DEF StartReturns
<1>4. CASE TurnReturns(m)
  <2>1. CASE req[m] = "answered"
    <3>1. /\ pc' = [pc EXCEPT ![m] = "waiting"]
          /\ req' = [req EXCEPT ![m] = "none"]
          /\ activeTurnId' = m /\ turnAliases' = turnAliases \cup {m}
          /\ UNCHANGED <<threadId, initialized, aborted, prompt, disposed, wire, srv, history>>
      BY <1>4, <2>1 DEF TurnReturns
    <3>2. QED
      BY <3>1, Methods DEF TypeOK, wire, history, shown
  <2>2. CASE req[m] = "failed"
    BY <1>4, <2>2, Rejecting DEF TurnReturns, TypeOK, wire, history, shown
  <2>3. QED
    BY <1>4, <2>1, <2>2 DEF TurnReturns
<1>5. CASE Timeout(m)
  BY <1>5 DEF Timeout, TypeOK, filter, wire, history, shown
<1>6. QED
  BY <1>1, <1>2, <1>3, <1>4, <1>5 DEF Continue

(* Approvals.                                                              *)
LEMMA TypePrompt ==
    ASSUME TypeOK, NEW m \in Message, Judge(m) \/ Respond(m)
    PROVE  TypeOK'
<1>1. /\ \/ outbox' = outbox
         \/ \E type \in {"answer", "cancel"} : Write(type, m)
      /\ prompt' \in [Message -> {"none", "judging", "open", "over"}]
      /\ answers' = answers \/ Answered(m)
      /\ UNCHANGED <<driver, filter, disposed, inbox, alive, srv, shown, stopped>>
  BY DEF Judge, Respond, TypeOK
<1>2. outbox' \in Seq([type : Request \cup {"interrupt", "answer", "cancel"}, turn : Message])
  BY <1>1, Writing DEF TypeOK, OutLine
<1>3. answers' \in [Message -> 0..2]
  BY <1>1 DEF Answered, TypeOK
<1>4. QED
  BY <1>1, <1>2, <1>3 DEF TypeOK, driver, filter, shown

(* The line that the client reads.                                         *)
LEMMA Reads ==
    ASSUME TypeOK, Read
    PROVE  /\ inbox # <<>>
           /\ inbox' \in Seq(InLine) /\ Shifted(inbox, inbox')
           /\ 1 \in 1..Len(inbox) /\ inbox[1] \in InLine
           /\ \/ ReadResponse(inbox[1]) \/ ReadAsk(inbox[1])
              \/ ReadTool(inbox[1]) \/ ReadEnd(inbox[1])
           /\ UNCHANGED <<disposed, outbox, alive, srv, stopped, answers>>
BY Lines, TailShifts DEF Read

LEMMA TypeRead ==
    ASSUME TypeOK, Read
    PROVE  TypeOK'
<1> DEFINE line == inbox[1]
<1>1. /\ line.turn \in Message
      /\ inbox' \in Seq([type : {"ok", "error"}, to : Request, turn : Message] \cup
                       [type : {"ask", "call", "result", "completed", "failed"}, turn : Message])
      /\ UNCHANGED <<disposed, outbox, alive, srv, stopped, answers>>
  BY Reads, LineTypes DEF InLine, Response, Notice, OfTurn
<1>2. ReadResponse(line) \/ ReadAsk(line) \/ ReadTool(line) \/ ReadEnd(line)
  BY Reads
<1> HIDE DEF line
<1>3. CASE ReadResponse(line)
  BY <1>1, <1>3 DEF ReadResponse, TypeOK, filter, shown
<1>4. CASE ReadAsk(line)
  BY <1>1, <1>4 DEF ReadAsk, TypeOK, driver, filter, shown
<1>5. CASE ReadTool(line)
  <2>1. names' \in [Message -> SUBSET {"host", "provider"}]
    BY <1>1, <1>5, Naming DEF ReadTool, TypeOK
  <2>2. tool' \in [Message -> {"none", "running", "over"}]
    <3>1. tool \in [Message -> {"none", "running", "over"}]
      BY DEF TypeOK
    <3>2. tool' = tool \/ tool' = [tool EXCEPT ![line.turn] =
                                     IF line.type = "call" THEN "running" ELSE "over"]
      BY <1>5 DEF ReadTool
    <3>3. QED
      BY <1>1, <3>1, <3>2
  <2>3. QED
    BY <1>1, <1>5, <2>1, <2>2 DEF ReadTool, TypeOK, driver, filter
<1>6. CASE ReadEnd(line)
  <2>1. names' \in [Message -> SUBSET {"host", "provider"}]
    BY <1>1, <1>6, Naming DEF ReadEnd, FinalizeTurn, TypeOK
  <2>2. /\ item' \in [Message -> {"open", "completed", "failed"}]
        /\ aborted' \cup turnAliases' \cup stopped' \subseteq Message
    BY <1>1, <1>6 DEF ReadEnd, FinalizeTurn, TypeOK
  <2>3. /\ pc' \in [Message -> Request \cup {"new", "waiting", "resolved", "rejected"}]
        /\ \A m \in Message : req[m] = "none" <=> pc'[m] \notin Request
    <3>1. \/ pc' = pc
          \/ /\ pc[line.turn] = "waiting"
             /\ \E s \in {"resolved", "rejected"} : pc' = [pc EXCEPT ![line.turn] = s]
      BY <1>6 DEF ReadEnd, FinalizeTurn
    <3>2. QED
      <4>1. CASE pc' = pc
        BY <4>1 DEF TypeOK
      <4>2. ASSUME pc[line.turn] = "waiting", NEW s \in {"resolved", "rejected"},
                   pc' = [pc EXCEPT ![line.turn] = s]
            PROVE  /\ pc' \in [Message -> Request \cup {"new", "waiting", "resolved", "rejected"}]
                   /\ \A m \in Message : req[m] = "none" <=> pc'[m] \notin Request
        <5>1. \A m \in Message : pc'[m] = IF m = line.turn THEN s ELSE pc[m]
          BY <4>2 DEF TypeOK
        <5>2. "waiting" \notin Request /\ s \notin Request
          BY Methods
        <5>3. \A m \in Message : req[m] = "none" <=> pc[m] \notin Request
          BY DEF TypeOK
        <5>4. pc' \in [Message -> Request \cup {"new", "waiting", "resolved", "rejected"}]
          BY <4>2 DEF TypeOK
        <5>5. QED
          BY <4>2, <5>1, <5>2, <5>3, <5>4
      <4>3. QED
        BY <3>1, <4>1, <4>2
  <2>4. UNCHANGED <<threadId, initialized, req, activeTurnId, prompt, tool>>
    BY <1>6 DEF ReadEnd
  <2>5. QED
    BY <1>1, <2>1, <2>2, <2>3, <2>4 DEF TypeOK
<1>7. QED
  BY <1>2, <1>3, <1>4, <1>5, <1>6

(* Aborts, and the end of the driver or the process.                       *)
LEMMA TypeEnds ==
    ASSUME TypeOK, Abort \/ Dispose \/ Close
    PROVE  TypeOK'
<1>0. \A S : <<>> \in Seq(S)
  BY EmptySeq
<1>1. CASE Abort
  <2>1. outbox' \in Seq([type : Request \cup {"interrupt", "answer", "cancel"}, turn : Message])
    BY <1>1, Writing DEF Abort, TypeOK, OutLine
  <2>2. aborted' \cup turnAliases' \cup stopped' \subseteq Message
    BY <1>1 DEF Abort, filter, TypeOK
  <2>3. /\ pc' \in [Message -> Request \cup {"new", "waiting", "resolved", "rejected"}]
        /\ \A m \in Message : req'[m] = "none" <=> pc'[m] \notin Request
    BY <1>1, Methods DEF Abort, Waiting, TypeOK
  <2>4. /\ activeTurnId' \in Message \cup {NoTurn}
        /\ UNCHANGED <<threadId, initialized, req, prompt, disposed, inbox, alive, srv, shown, answers>>
    BY <1>1 DEF Abort
  <2>5. QED
    BY <2>1, <2>2, <2>3, <2>4 DEF TypeOK, shown
<1>2. CASE Dispose
  BY <1>0, <1>2 DEF Dispose, Forgotten, Refused, TypeOK, filter, history, shown
<1>3. CASE Close
  <2>1. inbox' = inbox \/ inbox' = <<>>
    BY <1>3 DEF Close
  <2>2. /\ pc' \in [Message -> Request \cup {"new", "waiting", "resolved", "rejected"}]
        /\ req' \in [Message -> {"none", "open", "answered", "failed"}]
        /\ \A m \in Message : req'[m] = "none" <=> pc'[m] \notin Request
    BY <1>3, Methods DEF Close, Waiting, Refused, TypeOK
  <2>3. /\ item' \in [Message -> {"open", "completed", "failed"}]
        /\ names' \in [Message -> SUBSET {"host", "provider"}]
    <3>1. CASE activeTurnId \in Waiting
      <4>1. /\ activeTurnId \in Message
            /\ item' = [item EXCEPT ![activeTurnId] = "failed"]
            /\ Named(activeTurnId)
        BY <1>3, <3>1 DEF Close, Waiting
      <4>2. QED
        BY <4>1, Naming DEF TypeOK
    <3>2. CASE activeTurnId \notin Waiting
      BY <1>3, <3>2 DEF Close, TypeOK
    <3>3. QED
      BY <3>1, <3>2
  <2>4. /\ prompt' \in [Message -> {"none", "judging", "open", "over"}]
        /\ activeTurnId' \in Message \cup {NoTurn}
        /\ outbox' = <<>> /\ alive' = FALSE
        /\ UNCHANGED <<threadId, initialized, filter, disposed, srv, tool, stopped, answers>>
    BY <1>3 DEF Close, Forgotten, TypeOK
  <2>5. QED
    <3>1. /\ inbox' \in Seq([type : {"ok", "error"}, to : Request, turn : Message] \cup
                       [type : {"ask", "call", "result", "completed", "failed"}, turn : Message])
          /\ outbox' \in Seq([type : Request \cup {"interrupt", "answer", "cancel"}, turn : Message])
      <4>1. inbox' \in Seq(InLine) /\ outbox' \in Seq(OutLine)
        BY <1>0, <2>1, <2>4, Lines
      <4>2. QED
        BY <4>1 DEF OutLine, InLine, Response, Notice, OfTurn
    <3>2. QED
      BY <2>2, <2>3, <2>4, <3>1 DEF TypeOK, filter
<1>4. QED
  BY <1>1, <1>2, <1>3

(* What the process writes, and what becomes of its turn.                  *)
LEMMA Served ==
    ASSUME TypeOK, ServerTakes
    PROVE  /\ alive /\ outbox # <<>> /\ 1 \in 1..Len(outbox) /\ outbox[1] \in OutLine
           /\ outbox' \in Seq(OutLine) /\ Shifted(outbox, outbox')
           /\ Serve(outbox[1].turn, outbox[1].type)
           /\ UNCHANGED <<driver, filter, prompt, disposed, alive, history>>
BY Lines, TailShifts DEF ServerTakes

LEMMA Saying ==
    ASSUME TypeOK, NEW x \in InLine, Says(<<x>>)
    PROVE  inbox' \in Seq(InLine) /\ Added(inbox, inbox', x)
BY Lines, AppendAdds DEF Says

LEMMA Serving ==
    ASSUME TypeOK, NEW m \in Message,
           NEW type \in Request \cup {"interrupt", "answer", "cancel"}, Serve(m, type)
    PROVE  \/ /\ type \in Request
              /\ Says(<<[type |-> "ok", to |-> type, turn |-> m]>>)
              /\ [type |-> "ok", to |-> type, turn |-> m] \in InLine
              /\ srv' = IF type = "turn" THEN [srv EXCEPT ![m] = "running"] ELSE srv
           \/ /\ type \in Request
              /\ Says(<<[type |-> "error", to |-> type, turn |-> m]>>)
              /\ [type |-> "error", to |-> type, turn |-> m] \in InLine
              /\ srv' = srv
           \/ /\ type \in {"interrupt", "cancel"}
              /\ srv[m] \in Running
              /\ srv' = [srv EXCEPT ![m] = "over"]
              /\ Says(<<Line("completed", m)>>)
              /\ Line("completed", m) \in InLine
           \/ /\ type \in {"interrupt", "cancel", "answer"}
              /\ inbox' = inbox
              /\ srv' = srv \/ (type = "answer" /\ srv[m] = "asking" /\ srv' = [srv EXCEPT ![m] = "running"])
BY Methods DEF Serve, Running, Line, InLine, Response, Notice, OfTurn

LEMMA ServerActs ==
    ASSUME TypeOK, NEW m \in Message, ServerAsks(m) \/ ServerCalls(m) \/ ServerEnds(m)
    PROVE  /\ alive
           /\ UNCHANGED <<driver, filter, prompt, disposed, outbox, alive, history>>
           /\ \E type \in OfTurn, s \in Running \cup {"over"} :
                 /\ Says(<<Line(type, m)>>) /\ Line(type, m) \in InLine
                 /\ srv[m] \in Running \ {"asking"}
                 /\ srv' = [srv EXCEPT ![m] = s]
                 /\ type \in {"completed", "failed"} <=> s = "over"
                 /\ type = "ask" => s = "asking" /\ srv[m] = "running" /\ prompt[m] = "none"
<1> USE DEF OfTurn, Running
<1>1. \A type \in OfTurn : Line(type, m) \in InLine
  BY DEF Line, InLine, Response, Notice
<1>2. CASE ServerAsks(m)
  BY <1>1, <1>2 DEF ServerAsks
<1>3. CASE ServerCalls(m)
  BY <1>1, <1>3 DEF ServerCalls
<1>4. CASE ServerEnds(m)
  BY <1>1, <1>4 DEF ServerEnds
<1>5. QED
  BY <1>2, <1>3, <1>4

LEMMA TypeServer ==
    ASSUME TypeOK, ServerTakes \/ \E m \in Message : ServerAsks(m) \/ ServerCalls(m) \/ ServerEnds(m)
    PROVE  TypeOK'
<1>1. UNCHANGED <<driver, filter, prompt, disposed, alive, history>>
  BY Served, ServerActs
<1>2. /\ inbox' \in Seq(InLine)
      /\ srv' \in [Message -> {"none", "running", "asking", "working", "worked", "over"}]
  <2>1. CASE ServerTakes
    <3>1. /\ outbox[1].turn \in Message
          /\ outbox[1].type \in Request \cup {"interrupt", "answer", "cancel"}
          /\ Serve(outbox[1].turn, outbox[1].type)
      BY <2>1, Served DEF OutLine
    <3>2. QED
      <4> DEFINE m == outbox[1].turn
                 type == outbox[1].type
      <4>1. m \in Message /\ type \in Request \cup {"interrupt", "answer", "cancel"} /\ Serve(m, type)
        BY <3>1
      <4> HIDE DEF m, type
      <4>2. \/ inbox' = inbox
            \/ \E x \in InLine : Says(<<x>>)
        BY <4>1, Serving
      <4>3. inbox' \in Seq(InLine)
        BY <4>2, Saying, Lines
      <4>4. srv' = srv \/ \E s \in {"running", "over"} : srv' = [srv EXCEPT ![m] = s]
        BY <4>1, Serving
      <4>5. QED
        BY <4>1, <4>3, <4>4 DEF TypeOK
  <2>2. ASSUME NEW m \in Message, ServerAsks(m) \/ ServerCalls(m) \/ ServerEnds(m)
        PROVE  /\ inbox' \in Seq(InLine)
               /\ srv' \in [Message -> {"none", "running", "asking", "working", "worked", "over"}]
    <3>1. \E x \in InLine : Says(<<x>>)
      BY <2>2, ServerActs
    <3>2. \E s \in Running \cup {"over"} : srv' = [srv EXCEPT ![m] = s]
      BY <2>2, ServerActs
    <3>3. QED
      BY <3>1, <3>2, Saying DEF Running, TypeOK
  <2>3. QED
    BY <2>1, <2>2
<1>3. outbox' \in Seq(OutLine)
  BY Served, ServerActs, Lines
<1>4. QED
  BY <1>1, <1>2, <1>3
     DEF TypeOK, driver, filter, history, shown, OutLine, InLine, Response, Notice, OfTurn

LEMMA TypeStep == TypeOK /\ [Next]_vars => TypeOK'
<1> SUFFICES ASSUME TypeOK, [Next]_vars PROVE TypeOK'
  OBVIOUS
<1>1. CASE UNCHANGED vars
  BY <1>1 DEF vars, driver, filter, wire, history, shown, TypeOK
<1>2. CASE Next
  BY <1>2, TypeSend, TypePrompt, TypeRead, TypeEnds, TypeServer DEF Next
<1>3. QED
  BY <1>1, <1>2

(* Whatever the process does, the types hold, and the client has an entry  *)
(* for a request exactly while a send awaits it: none is left behind, and  *)
(* none is missing (pending of app-server-client.ts).                      *)
THEOREM CodexTypes == Spec => []TypeOK
BY TypeInit, TypeStep, PTL DEF Spec

-----------------------------------------------------------------------------
(* Approvals are answered once.                                            *)

LEMMA AnswerInit == Init => AnswerInv
<1> SUFFICES ASSUME Init PROVE AnswerInv
  OBVIOUS
<1>1. Len(inbox) = 0 /\ Len(outbox) = 0
  BY DEF Init
<1>2. AskedOnce /\ PromptInv
  BY <1>1 DEF Init, AskedOnce, PromptInv
<1>3. QED
  BY <1>2, TypeInit DEF AnswerInv

(* A send makes a request, or goes on to wait, or is rejected.             *)
LEMMA SendActs ==
    ASSUME TypeOK, NEW m \in Message, SendCall(m) \/ Continue(m) \/ Timeout(m)
    PROVE  /\ UNCHANGED <<aborted, prompt, disposed, inbox, alive, srv, history>>
           /\ \/ /\ pc[m] \in {"new", "resume", "start"}
                 /\ \E method \in Request : Ask(m, method)
              \/ /\ outbox' = outbox
                 /\ \E s \in {pc[m], "waiting", "rejected"} :
                       \A n \in Message : pc'[n] = IF n = m THEN s ELSE pc[n]
<1>1. UNCHANGED <<aborted, prompt, disposed, inbox, alive, srv, history>>
  BY DEF SendCall, Continue, ResumeReturns, StartReturns, TurnReturns, Timeout, filter, wire
<1>2. CASE SendCall(m)
  BY <1>1, <1>2 DEF SendCall, Request
<1>3. CASE ResumeReturns(m)
  BY <1>1, <1>3 DEF ResumeReturns, Request
<1>4. CASE StartReturns(m)
  BY <1>1, <1>4, Rejecting DEF StartReturns, Request
<1>5. CASE TurnReturns(m)
  <2>1. CASE req[m] = "answered"
    BY <1>1, <1>5, <2>1 DEF TurnReturns, TypeOK, wire
  <2>2. CASE req[m] = "failed"
    BY <1>1, <1>5, <2>2, Rejecting DEF TurnReturns, wire
  <2>3. QED
    BY <1>5, <2>1, <2>2 DEF TurnReturns
<1>6. CASE Timeout(m)
  BY <1>1, <1>6 DEF Timeout, wire
<1>7. QED
  BY <1>2, <1>3, <1>4, <1>5, <1>6 DEF Continue

LEMMA AnswerSend ==
    ASSUME AnswerInv, NEW m \in Message, SendCall(m) \/ Continue(m) \/ Timeout(m)
    PROVE  AskedOnce' /\ PromptInv'
<1> USE DEF AnswerInv
<1>1. UNCHANGED <<inbox, srv, prompt, answers>>
  BY SendActs DEF history
<1>2. ASSUME pc[m] \in {"new", "resume", "start"}, NEW method \in Request, Ask(m, method)
      PROVE  AskedOnce' /\ PromptInv'
  <2>1. CASE alive
    <3>1. /\ Added(outbox, outbox', [type |-> method, turn |-> m])
          /\ \A n \in Message : pc'[n] = IF n = m THEN method ELSE pc[n]
      BY <1>2, <2>1, Asking
    <3>2. \A i \in 1..Len(outbox') :
             \/ i = Len(outbox') /\ outbox'[i] = [type |-> method, turn |-> m]
             \/ i \in 1..Len(outbox) /\ outbox'[i] = outbox[i]
      BY <3>1 DEF Added
    <3>3. srv[m] = "none" /\ \A i \in 1..Len(outbox) : outbox[i].type = "turn" => outbox[i].turn # m
      BY <1>2 DEF AskedOnce
    <3>4. \A i \in 1..Len(outbox) : outbox[i].turn \in Message
      BY Lines DEF OutLine
    <3>5. AskedOnce'
      BY <1>1, <1>2, <3>1, <3>2, <3>3, <3>4, Methods DEF AskedOnce
    <3>6. PromptInv'
      BY <1>1, <3>2, Methods DEF PromptInv
    <3>7. QED
      BY <3>5, <3>6
  <2>2. CASE ~alive
    <3>1. /\ outbox' = outbox
          /\ \A n \in Message : pc'[n] = IF n = m THEN method ELSE pc[n]
      BY <1>2, <2>2, Asking
    <3>2. srv[m] = "none" /\ \A i \in 1..Len(outbox) : outbox[i].type = "turn" => outbox[i].turn # m
      BY <1>2 DEF AskedOnce
    <3>3. \A i \in 1..Len(outbox) : outbox[i].turn \in Message
      BY Lines DEF OutLine
    <3>4. QED
      BY <1>1, <3>1, <3>2, <3>3 DEF AskedOnce, PromptInv
  <2>3. QED
    BY <2>1, <2>2
<1>3. ASSUME outbox' = outbox, NEW s \in {pc[m], "waiting", "rejected"},
             \A n \in Message : pc'[n] = IF n = m THEN s ELSE pc[n]
      PROVE  AskedOnce' /\ PromptInv'
  BY <1>1, <1>3, Lines DEF AskedOnce, PromptInv, OutLine
<1>4. QED
  BY <1>2, <1>3, SendActs

(* The policy's verdict and the host's answer.                             *)
LEMMA PromptActs ==
    ASSUME TypeOK, NEW m \in Message, Judge(m) \/ Respond(m)
    PROVE  /\ UNCHANGED <<driver, filter, disposed, inbox, alive, srv, shown, stopped>>
           /\ prompt[m] \in {"judging", "open"}
           /\ \A n \in Message : n # m => prompt'[n] = prompt[n] /\ answers'[n] = answers[n]
           /\ \/ outbox' = outbox /\ prompt'[m] = "open" /\ answers' = answers
              \/ /\ \E type \in {"answer", "cancel"} : Write(type, m)
                 /\ prompt'[m] = "over"
                 /\ answers'[m] = IF answers[m] < 2 THEN answers[m] + 1 ELSE answers[m]
BY DEF Judge, Respond, Answered, TypeOK

LEMMA AnswerPrompt ==
    ASSUME AnswerInv, NEW m \in Message, Judge(m) \/ Respond(m)
    PROVE  AskedOnce' /\ PromptInv'
<1> USE DEF AnswerInv
<1>1. UNCHANGED <<pc, inbox, srv>>
  BY PromptActs DEF driver
<1>2. \A i \in 1..Len(outbox) : outbox[i].turn \in Message
  BY Lines DEF OutLine
<1>3. \A i \in 1..Len(inbox) : inbox[i].turn \in Message
  BY Lines, LineTypes
<1>4. answers[m] = 0 /\ prompt[m] \in {"judging", "open"}
  BY PromptActs DEF PromptInv
<1>5. CASE outbox' = outbox /\ prompt'[m] = "open" /\ answers' = answers
  BY <1>1, <1>2, <1>3, <1>4, <1>5, PromptActs DEF AskedOnce, PromptInv
<1>6. ASSUME NEW type \in {"answer", "cancel"}, Write(type, m), prompt'[m] = "over",
             answers'[m] = IF answers[m] < 2 THEN answers[m] + 1 ELSE answers[m]
      PROVE  AskedOnce' /\ PromptInv'
  <2>1. \A i \in 1..Len(outbox') :
           \/ outbox'[i] = [type |-> type, turn |-> m]
           \/ i \in 1..Len(outbox) /\ outbox'[i] = outbox[i]
    <3>1. outbox' = outbox \/ Added(outbox, outbox', [type |-> type, turn |-> m])
      BY <1>6, Writing
    <3>2. QED
      BY <3>1 DEF Added
  <2>2. AskedOnce'
    BY <1>1, <1>6, <2>1 DEF AskedOnce
  <2>3. PromptInv'
    <3>1. \A i \in 1..Len(outbox') :
             outbox'[i].type \in {"answer", "cancel"} => prompt'[outbox'[i].turn] = "over"
      BY <1>2, <1>6, <2>1, PromptActs DEF PromptInv
    <3>2. \A n \in Message : (prompt'[n] # "over" => answers'[n] = 0) /\ answers'[n] <= 1
      BY <1>4, <1>6, PromptActs DEF PromptInv
    <3>3. QED
      BY <1>1, <1>3, <1>4, <3>1, <3>2, PromptActs DEF PromptInv
  <2>4. QED
    BY <2>2, <2>3
<1>7. QED
  BY <1>5, <1>6, PromptActs

(* The client reads, aborts or ends.                                       *)
LEMMA AnswerRead ==
    ASSUME AnswerInv, Read
    PROVE  AskedOnce' /\ PromptInv'
<1> USE DEF AnswerInv
<1> DEFINE line == inbox[1]
<1>1. UNCHANGED <<outbox, srv, answers>>
  BY Reads
<1>2. line.turn \in Message /\ 1 \in 1..Len(inbox)
  BY Reads, LineTypes
<1>3. \A i \in 1..Len(inbox') : i + 1 \in 1..Len(inbox) /\ inbox'[i] = inbox[i + 1]
  BY Reads DEF Shifted
<1>4. \A i \in 1..Len(inbox') : Len(inbox') \in Nat /\ i + 1 # 1
  BY Reads DEF Shifted
<1>5. \A m \in Message : pc'[m] \in {"new", "resume", "start"} => pc[m] = pc'[m]
  BY <1>2, Reads, Methods DEF ReadResponse, ReadAsk, ReadTool, ReadEnd, FinalizeTurn, driver, TypeOK
<1>6. \A i \in 1..Len(outbox) : outbox[i].turn \in Message
  BY Lines DEF OutLine
<1>7. AskedOnce'
  <2>1. \A m \in Message : pc[m] \notin {"new", "resume", "start"}
                          => pc'[m] \notin {"new", "resume", "start"}
    BY <1>5
  <2>2. QED
    BY <1>1, <1>6, <2>1 DEF AskedOnce
<1>8. \A i, j \in 1..Len(inbox') : i + 1 = j + 1 => i = j
  BY <1>4
<1>9. CASE ReadAsk(line)
  <2>1. /\ line.type = "ask"
        /\ prompt' = [prompt EXCEPT ![line.turn] = "judging"]
    BY <1>9 DEF ReadAsk
  <2>2. prompt[line.turn] = "none" /\ \A j \in 1..Len(inbox) : inbox[j] = line => j = 1
    BY <1>2, <2>1 DEF PromptInv
  <2>3. \A i \in 1..Len(inbox') : inbox'[i].type = "ask" => inbox'[i].turn # line.turn
    <3>1. SUFFICES ASSUME NEW i \in 1..Len(inbox), inbox[i].type = "ask", inbox[i].turn = line.turn
                   PROVE  inbox[i] = line
      BY <1>3, <1>4, <2>2
    <3>2. \A k \in 1..Len(inbox) : inbox[k].type = "ask" => inbox[k] \in Notice
      BY Lines DEF InLine, Response, OfTurn
    <3>3. inbox[i] \in Notice /\ line \in Notice
      BY <1>2, <2>1, <3>1, <3>2
    <3>4. QED
      BY <2>1, <3>1, <3>3 DEF Notice
  <2> HIDE DEF line
  <2>4. \A m \in Message : prompt'[m] = IF m = line.turn THEN "judging" ELSE prompt[m]
    BY <2>1 DEF TypeOK
  <2>5. \A i \in 1..Len(inbox') : inbox'[i].turn \in Message
    BY <1>3, Lines, LineTypes
  <2>6. PromptInv'
    <3>1. ASSUME NEW i \in 1..Len(inbox'), inbox'[i].type = "ask"
          PROVE  /\ prompt'[inbox'[i].turn] = "none"
                 /\ srv[inbox'[i].turn] \in {"asking", "over"}
                 /\ \A j \in 1..Len(inbox') : inbox'[j] = inbox'[i] => j = i
      <4>1. prompt'[inbox'[i].turn] = prompt[inbox'[i].turn]
        BY <2>3, <2>4, <2>5, <3>1
      <4>2. i + 1 \in 1..Len(inbox) /\ inbox'[i] = inbox[i + 1]
        BY <1>3
      <4>3. /\ prompt[inbox[i + 1].turn] = "none"
            /\ srv[inbox[i + 1].turn] \in {"asking", "over"}
            /\ \A j \in 1..Len(inbox) : inbox[j] = inbox[i + 1] => j = i + 1
        BY <3>1, <4>2 DEF PromptInv
      <4>4. ASSUME NEW j \in 1..Len(inbox'), inbox'[j] = inbox'[i] PROVE j = i
        <5>1. j + 1 \in 1..Len(inbox) /\ inbox[j + 1] = inbox[i + 1]
          BY <1>3, <4>2, <4>4
        <5>2. QED
          BY <1>8, <4>3, <5>1
      <4>5. QED
        BY <4>1, <4>2, <4>3, <4>4
    <3>2. ASSUME NEW i \in 1..Len(outbox), outbox[i].type \in {"answer", "cancel"}
          PROVE  prompt'[outbox[i].turn] = "over"
      BY <1>6, <2>2, <2>4, <3>2 DEF PromptInv
    <3>3. \A m \in Message : (prompt'[m] # "over" => answers[m] = 0) /\ answers[m] <= 1
      BY <1>2, <2>2, <2>4 DEF PromptInv
    <3>4. QED
      BY <1>1, <3>1, <3>2, <3>3 DEF PromptInv
  <2>7. QED
    BY <1>7, <2>6
<1>10. CASE prompt' = prompt
  BY <1>1, <1>3, <1>7, <1>8, <1>10 DEF PromptInv
<1>11. QED
  BY <1>9, <1>10, Reads DEF ReadResponse, ReadTool, ReadEnd

LEMMA AnswerEnds ==
    ASSUME AnswerInv, Abort \/ Dispose \/ Close
    PROVE  AskedOnce' /\ PromptInv'
<1> USE DEF AnswerInv
<1>1. /\ UNCHANGED <<srv, answers>>
      /\ inbox' \in {inbox, <<>>}
      /\ \A m \in Message : prompt'[m] = prompt[m] \/ (prompt[m] = "open" /\ prompt'[m] = "over")
      /\ \A m \in Message : pc'[m] \in {"new", "resume", "start"} => pc[m] = pc'[m]
      /\ \/ outbox' \in {outbox, <<>>}
         \/ \E m \in Message : Write("interrupt", m)
  BY DEF Abort, Dispose, Close, Forgotten, Waiting, TypeOK, history, filter
<1>2. \A i \in 1..Len(outbox) : outbox[i].turn \in Message
  BY Lines DEF OutLine
<1>3. \A i \in 1..Len(inbox) : inbox[i].turn \in Message
  BY Lines, LineTypes
<1>4. \A i \in 1..Len(outbox') :
         \/ outbox'[i].type = "interrupt"
         \/ i \in 1..Len(outbox) /\ outbox'[i] = outbox[i]
  <2>1. CASE outbox' \in {outbox, <<>>}
    BY <2>1
  <2>2. ASSUME NEW m \in Message, Write("interrupt", m)
        PROVE  \A i \in 1..Len(outbox') :
                  \/ outbox'[i].type = "interrupt"
                  \/ i \in 1..Len(outbox) /\ outbox'[i] = outbox[i]
    <3>1. \/ outbox' = outbox
          \/ Added(outbox, outbox', [type |-> "interrupt", turn |-> m])
      BY <2>2, Writing
    <3>2. QED
      BY <3>1 DEF Added
  <2>3. QED
    BY <1>1, <2>1, <2>2
<1>5. \A i \in 1..Len(inbox') : i \in 1..Len(inbox) /\ inbox'[i] = inbox[i]
  BY <1>1
<1>6. AskedOnce'
  BY <1>1, <1>2, <1>4 DEF AskedOnce, TypeOK
<1>7. PromptInv'
  BY <1>1, <1>2, <1>3, <1>4, <1>5 DEF PromptInv
<1>8. QED
  BY <1>6, <1>7

(* The process serves a line or goes on with a turn.                       *)
LEMMA AnswerServer ==
    ASSUME AnswerInv, ServerTakes \/ \E m \in Message : ServerAsks(m) \/ ServerCalls(m) \/ ServerEnds(m)
    PROVE  AskedOnce' /\ PromptInv'
<1> USE DEF AnswerInv
<1>0. UNCHANGED <<pc, prompt, answers>>
  BY Served, ServerActs DEF driver, history
<1>1. CASE ServerTakes
  <2> DEFINE m == outbox[1].turn
             type == outbox[1].type
  <2>1. /\ m \in Message /\ type \in Request \cup {"interrupt", "answer", "cancel"}
        /\ Serve(m, type)
        /\ 1 \in 1..Len(outbox)
        /\ Shifted(outbox, outbox')
    BY <1>1, Served DEF OutLine
  <2>2. \A i \in 1..Len(outbox') : i + 1 \in 1..Len(outbox) /\ outbox'[i] = outbox[i + 1] /\ i + 1 # 1
    BY <2>1 DEF Shifted
  <2>3. type = "turn" => \A i \in 1..Len(outbox') : outbox'[i].type = "turn" => outbox'[i].turn # m
    <3>1. SUFFICES ASSUME type = "turn", NEW i \in 1..Len(outbox), i # 1,
                          outbox[i].type = "turn", outbox[i].turn = m
                   PROVE  FALSE
      BY <2>2
    <3>2. outbox[i] = outbox[1]
      BY <2>1, <3>1, Lines DEF OutLine
    <3>3. QED
      BY <2>1, <3>1, <3>2 DEF AskedOnce
  <2>4. type \in {"answer", "cancel"} => prompt[m] = "over"
    BY <2>1 DEF PromptInv
  <2>5. type = "turn" => pc[m] \notin {"new", "resume", "start"} /\ srv[m] = "none"
    BY <2>1 DEF AskedOnce
  <2> HIDE DEF m, type
  <2>6. \/ UNCHANGED srv
        \/ \E s \in {"running", "over"} :
              /\ srv' = [srv EXCEPT ![m] = s]
              /\ srv[m] = "none" => type = "turn"
              /\ s = "running" => type = "turn" \/ prompt[m] = "over"
    BY <2>1, <2>4, Serving DEF Running
  <2>7. \/ inbox' = inbox
        \/ \E x \in InLine : x.type # "ask" /\ Says(<<x>>)
    BY <2>1, Serving DEF Line
  <2>8. \A i \in 1..Len(inbox') :
           \/ inbox'[i].type # "ask"
           \/ i \in 1..Len(inbox) /\ inbox'[i] = inbox[i]
    <3>1. ASSUME NEW x \in InLine, x.type # "ask", Says(<<x>>)
          PROVE  \A i \in 1..Len(inbox') :
                    \/ inbox'[i].type # "ask"
                    \/ i \in 1..Len(inbox) /\ inbox'[i] = inbox[i]
      <4>1. Added(inbox, inbox', x)
        BY <3>1, Saying
      <4>2. QED
        BY <3>1, <4>1 DEF Added
    <3>2. QED
      BY <2>7, <3>1
  <2>9. AskedOnce'
    <3>1. \A i \in 1..Len(outbox') : outbox'[i].turn \in Message
      BY <2>2, Lines DEF OutLine
    <3>2. \A n \in Message : srv'[n] = srv[n] \/ (n = m /\ (srv[m] = "none" => type = "turn"))
      BY <2>6 DEF TypeOK
    <3>3. \A i, j \in 1..Len(outbox') : i + 1 = j + 1 => i = j
      BY <2>1 DEF Shifted
    <3>4. \A n \in Message : srv'[n] # "none" => pc[n] \notin {"new", "resume", "start"}
      BY <2>5, <3>2 DEF AskedOnce
    <3>5. ASSUME NEW i \in 1..Len(outbox'), outbox'[i].type = "turn" PROVE srv'[outbox'[i].turn] = "none"
      BY <2>2, <2>3, <3>1, <3>2, <3>5 DEF AskedOnce
    <3>6. QED
      <4>1. ASSUME NEW i \in 1..Len(outbox'), outbox'[i].type = "turn",
                   NEW j \in 1..Len(outbox'), outbox'[j] = outbox'[i]
            PROVE  j = i
        <5>1. /\ i + 1 \in 1..Len(outbox) /\ outbox[i + 1].type = "turn"
              /\ j + 1 \in 1..Len(outbox) /\ outbox[j + 1] = outbox[i + 1]
          BY <2>2, <4>1
        <5>2. j + 1 = i + 1
          BY <5>1 DEF AskedOnce
        <5>3. QED
          BY <3>3, <5>2
      <4>2. ASSUME NEW i \in 1..Len(outbox'), outbox'[i].type = "turn"
            PROVE  pc[outbox'[i].turn] \notin {"new", "resume", "start"}
        BY <2>2, <4>2 DEF AskedOnce
      <4>3. QED
        BY <1>0, <3>4, <3>5, <4>1, <4>2 DEF AskedOnce
  <2>10. PromptInv'
    <3>1. \A n \in Message : \/ srv'[n] = srv[n] \/ srv'[n] = "over"
                           \/ srv[n] = "none" \/ prompt[n] = "over"
      BY <2>5, <2>6 DEF TypeOK
    <3>2. \A i \in 1..Len(inbox') : inbox'[i].turn \in Message
      <4>1. inbox' \in Seq(InLine)
        BY <2>7, Saying, Lines
      <4>2. QED
        BY <4>1, ElementOfSeq, LineTypes
    <3>3. ASSUME NEW i \in 1..Len(outbox'), outbox'[i].type \in {"answer", "cancel"}
          PROVE  prompt'[outbox'[i].turn] = "over"
      BY <1>0, <2>2, <3>3 DEF PromptInv
    <3>4. ASSUME NEW i \in 1..Len(inbox'), inbox'[i].type = "ask"
          PROVE  /\ prompt'[inbox'[i].turn] = "none"
                 /\ srv'[inbox'[i].turn] \in {"asking", "over"}
                 /\ \A j \in 1..Len(inbox') : inbox'[j] = inbox'[i] => j = i
      <4>1. i \in 1..Len(inbox) /\ inbox'[i] = inbox[i]
        BY <2>8, <3>4
      <4>2. /\ prompt[inbox[i].turn] = "none"
            /\ srv[inbox[i].turn] \in {"asking", "over"}
            /\ \A j \in 1..Len(inbox) : inbox[j] = inbox[i] => j = i
        BY <3>4, <4>1 DEF PromptInv
      <4>3. inbox[i].turn \in Message
        BY <3>2, <4>1
      <4>4. srv'[inbox[i].turn] \in {"asking", "over"}
        BY <3>1, <4>2, <4>3
      <4>5. \A j \in 1..Len(inbox') : inbox'[j] = inbox'[i] => j = i
        BY <2>8, <3>4, <4>1, <4>2
      <4>6. QED
        BY <1>0, <4>1, <4>2, <4>4, <4>5
    <3>5. \A n \in Message : (prompt'[n] # "over" => answers'[n] = 0) /\ answers'[n] <= 1
      BY <1>0 DEF PromptInv
    <3>6. QED
      BY <3>3, <3>4, <3>5 DEF PromptInv
  <2>11. QED
    BY <2>9, <2>10
<1>2. ASSUME NEW m \in Message, ServerAsks(m) \/ ServerCalls(m) \/ ServerEnds(m)
      PROVE  AskedOnce' /\ PromptInv'
  <2>1. outbox' = outbox
    BY <1>2, ServerActs
  <2>2. PICK type \in OfTurn, s \in Running \cup {"over"} :
           /\ Says(<<Line(type, m)>>) /\ Line(type, m) \in InLine
           /\ srv[m] \in Running \ {"asking"}
           /\ srv' = [srv EXCEPT ![m] = s]
           /\ type \in {"completed", "failed"} <=> s = "over"
           /\ type = "ask" => s = "asking" /\ srv[m] = "running" /\ prompt[m] = "none"
    BY <1>2, ServerActs
  <2>3. Added(inbox, inbox', Line(type, m))
    BY <2>2, Saying
  <2>4. \A i \in 1..Len(inbox') :
           \/ i = Len(inbox') /\ inbox'[i] = Line(type, m)
           \/ i \in 1..Len(inbox) /\ inbox'[i] = inbox[i]
    BY <2>3 DEF Added
  <2>5. \A n \in Message : srv'[n] = IF n = m THEN s ELSE srv[n]
    BY <2>2 DEF TypeOK
  <2>6. Line(type, m).type = type /\ Line(type, m).turn = m
    BY DEF Line
  <2>7. \A i \in 1..Len(inbox) : inbox[i].turn \in Message
    BY Lines, LineTypes
  <2>8. \A i \in 1..Len(inbox) : inbox[i].type = "ask" => inbox[i].turn # m \/ srv[m] = "over"
    BY <2>2 DEF PromptInv, Running
  <2>9. srv[m] \notin {"none", "over"}
    BY <2>2 DEF Running
  <2>10. AskedOnce'
    BY <1>0, <2>1, <2>5, <2>9, Lines DEF AskedOnce, OutLine
  <2>11. PromptInv'
    <3>1. ASSUME NEW i \in 1..Len(inbox'), inbox'[i].type = "ask"
          PROVE  /\ prompt[inbox'[i].turn] = "none"
                 /\ srv'[inbox'[i].turn] \in {"asking", "over"}
                 /\ \A j \in 1..Len(inbox') : inbox'[j] = inbox'[i] => j = i
      BY <2>2, <2>4, <2>5, <2>6, <2>7, <2>8, <2>9, <3>1 DEF PromptInv
    <3>2. QED
      BY <1>0, <2>1, <3>1 DEF PromptInv
  <2>12. QED
    BY <2>10, <2>11
<1>3. QED
  BY <1>1, <1>2

LEMMA AnswerStep == AnswerInv /\ [Next]_vars => AnswerInv'
<1> SUFFICES ASSUME AnswerInv, [Next]_vars PROVE AnswerInv'
  OBVIOUS
<1>1. TypeOK'
  BY TypeStep DEF AnswerInv
<1>2. AskedOnce' /\ PromptInv'
  <2>1. CASE UNCHANGED vars
    BY <2>1 DEF vars, driver, wire, history, AnswerInv, AskedOnce, PromptInv
  <2>2. CASE Next
    BY <2>2, AnswerSend, AnswerPrompt, AnswerRead, AnswerEnds, AnswerServer DEF Next
  <2>3. QED
    BY <2>1, <2>2
<1>3. QED
  BY <1>1, <1>2 DEF AnswerInv

(* Whatever is late, lost or dies: an approval that the process asks for   *)
(* is answered at most once, by the policy or by the host                  *)
(* (handleServerRequest and respondToPermission of app-server-driver.ts).  *)
THEOREM Answers == Spec => []AnsweredOnce
<1>1. AnswerInv => AnsweredOnce
  BY DEF AnswerInv, PromptInv, AnsweredOnce
<1>2. QED
  BY <1>1, AnswerInit, AnswerStep, PTL DEF Spec

-----------------------------------------------------------------------------
(* What the process says of a turn, and when.                              *)

LEMMA OrderInit == Init => OrderInv
<1> SUFFICES ASSUME Init PROVE OrderInv
  OBVIOUS
<1>1. Len(inbox) = 0 /\ Len(outbox) = 0
  BY DEF Init
<1>2. ResponseInv /\ EndInv
  BY <1>1 DEF Init, ResponseInv, EndInv, AskedFor, Settled
<1>3. OneInFlight /\ ShownInv
  BY Methods DEF Init, OneInFlight, InFlight, ShownInv
<1>4. QED
  BY <1>2, <1>3, AnswerInit DEF OrderInv

(* turn/start comes into the outbox once, and goes out of it once.         *)
LEMMA AskedBefore ==
    ASSUME OrderInv, NEW m \in Message
    PROVE  /\ AskedFor(m) => alive /\ pc[m] = "turn" /\ req[m] = "open" /\ srv[m] = "none"
           /\ pc[m] \in {"new", "resume", "start"} => srv[m] = "none" /\ ~AskedFor(m)
<1>1. AskedFor(m) => outbox # <<>> /\ srv[m] = "none"
  BY DEF OrderInv, AnswerInv, AskedOnce, AskedFor
<1>2. QED
  BY <1>1 DEF OrderInv, AnswerInv, AskedOnce, ResponseInv

LEMMA AskedTaken ==
    ASSUME OrderInv, ServerTakes
    PROVE  /\ \A n \in Message : AskedFor(n)' => AskedFor(n) /\ (n = outbox[1].turn => outbox[1].type # "turn")
           /\ outbox[1].type = "turn" => AskedFor(outbox[1].turn)
<1>1. /\ 1 \in 1..Len(outbox) /\ outbox[1] \in OutLine
      /\ Shifted(outbox, outbox')
  BY Served DEF OrderInv, AnswerInv
<1>2. ASSUME NEW n \in Message, AskedFor(n)'
      PROVE  AskedFor(n) /\ (n = outbox[1].turn => outbox[1].type # "turn")
  <2>1. PICK i \in 1..Len(outbox') : outbox'[i].type = "turn" /\ outbox'[i].turn = n
    BY <1>2 DEF AskedFor
  <2>2. /\ i + 1 \in 1..Len(outbox) /\ i + 1 # 1
        /\ outbox[i + 1].type = "turn" /\ outbox[i + 1].turn = n
    BY <1>1, <2>1 DEF Shifted
  <2>3. ASSUME n = outbox[1].turn, outbox[1].type = "turn" PROVE FALSE
    <3>1. outbox[i + 1] = outbox[1]
      BY <1>1, <2>2, <2>3, Lines DEF OrderInv, AnswerInv, OutLine
    <3>2. QED
      BY <1>1, <2>2, <2>3, <3>1 DEF OrderInv, AnswerInv, AskedOnce
  <2>4. QED
    BY <2>2, <2>3 DEF AskedFor
<1>3. QED
  BY <1>1, <1>2 DEF AskedFor

(* The wire: nothing of it changes but what is asked for.                  *)
LEMMA OrderKept ==
    ASSUME OrderInv, UNCHANGED <<pc, req, inbox, alive, disposed, srv, aborted, item, names>>,
           \A n \in Message : AskedFor(n)' => AskedFor(n),
           ~alive => outbox' = outbox
    PROVE  ResponseInv' /\ EndInv' /\ ShownInv'
<1>1. \A i \in 1..Len(inbox) : inbox[i].turn \in Message
  BY Lines, LineTypes DEF OrderInv, AnswerInv
<1>2. EndInv' /\ ShownInv'
  BY DEF OrderInv, EndInv, ShownInv
<1>3. ResponseInv'
  BY <1>1 DEF OrderInv, ResponseInv, ToTurn
<1>4. QED
  BY <1>2, <1>3

(* A request is made.                                                      *)
LEMMA OrderAsk ==
    ASSUME OrderInv, NEW m \in Message, pc[m] \in {"new", "resume", "start"},
           NEW method \in Request, Ask(m, method),
           UNCHANGED <<aborted, prompt, disposed, inbox, alive, srv, history>>
    PROVE  ResponseInv' /\ EndInv' /\ ShownInv'
<1>1. TypeOK
  BY DEF OrderInv, AnswerInv
<1>2. srv[m] = "none" /\ ~AskedFor(m)
  BY AskedBefore
<1>3. /\ \A n \in Message : pc'[n] = IF n = m THEN method ELSE pc[n]
      /\ \A n \in Message : req'[n] = IF n = m THEN "open" ELSE req[n]
      /\ alive => Added(outbox, outbox', [type |-> method, turn |-> m])
      /\ ~alive => outbox' = outbox
  BY <1>1, Asking
<1>4. \A n \in Message : AskedFor(n)' => AskedFor(n) \/ (n = m /\ method = "turn")
  BY <1>3 DEF AskedFor, Added
<1>5. \A i \in 1..Len(inbox) : inbox[i].turn \in Message
  BY <1>1, Lines, LineTypes
<1>6. \A i \in 1..Len(inbox) : ToTurn(inbox[i]) => inbox[i].turn # m
  BY DEF OrderInv, ResponseInv
<1>7. \A i \in 1..Len(inbox) : inbox[i].type \in OfTurn => inbox[i].turn # m
  BY <1>2 DEF OrderInv, EndInv
<1>8. method \notin Settled /\ method # "new"
  BY Methods DEF Settled
<1>9. ResponseInv'
  <2>1. \A n \in Message : AskedFor(n)' => pc'[n] = "turn" /\ req'[n] = "open"
    BY <1>2, <1>3, <1>4 DEF OrderInv, ResponseInv
  <2>2. \A n \in Message : AskedFor(n)' => \A i \in 1..Len(inbox) : ToTurn(inbox[i]) => inbox[i].turn # n
    BY <1>4, <1>6 DEF OrderInv, ResponseInv
  <2>3. \A i \in 1..Len(inbox) : ToTurn(inbox[i]) =>
           pc'[inbox[i].turn] = "turn" /\ req'[inbox[i].turn] = "open"
    BY <1>3, <1>5, <1>6 DEF OrderInv, ResponseInv
  <2>4. \A n \in Message : alive /\ pc'[n] = "turn" /\ srv[n] # "none" =>
          \/ req'[n] = "answered"
          \/ req'[n] = "open" /\ \E i \in 1..Len(inbox) : ToTurn(inbox[i]) /\ inbox[i].turn = n
    <3>1. SUFFICES ASSUME NEW n \in Message, alive, pc'[n] = "turn", srv[n] # "none"
                   PROVE  \/ req'[n] = "answered"
                          \/ /\ req'[n] = "open"
                             /\ \E i \in 1..Len(inbox) : ToTurn(inbox[i]) /\ inbox[i].turn = n
      OBVIOUS
    <3>2. n # m /\ pc[n] = "turn" /\ req'[n] = req[n]
      BY <1>2, <1>3, <3>1
    <3>3. QED
      BY <3>1, <3>2 DEF OrderInv, ResponseInv
  <2>5. QED
    BY <1>3, <2>1, <2>2, <2>3, <2>4 DEF OrderInv, ResponseInv, ToTurn
<1>10. EndInv'
  BY <1>3, <1>5, <1>7, <1>8 DEF OrderInv, EndInv
<1>11. ShownInv'
  <2>1. pc[m] \notin Settled
    BY DEF Settled
  <2>2. UNCHANGED <<item, names>>
    BY DEF history, shown
  <2>3. QED
    BY <1>3, <2>1, <2>2 DEF OrderInv, ShownInv
<1>12. QED
  BY <1>9, <1>10, <1>11

(* A send is rejected, or its turn is known: no request is open.           *)
LEMMA OrderOn ==
    ASSUME OrderInv, NEW m \in Message, NEW s \in {"waiting", "rejected"},
           pc[m] \in {"start", "turn"}, req[m] \in {"answered", "failed"},
           s = "rejected" => req[m] = "failed",
           \A n \in Message : pc'[n] = IF n = m THEN s ELSE pc[n],
           \A n \in Message : req'[n] = IF n = m THEN "none" ELSE req[n],
           UNCHANGED <<aborted, prompt, disposed, wire, srv, history>>
    PROVE  ResponseInv' /\ EndInv' /\ ShownInv'
<1>1. TypeOK /\ UNCHANGED <<inbox, outbox, alive, item, names>>
  BY DEF OrderInv, AnswerInv, wire, history, shown
<1>2. ~AskedFor(m) /\ \A n \in Message : AskedFor(n)' => AskedFor(n)
  BY <1>1, AskedBefore DEF AskedFor
<1>3. \A i \in 1..Len(inbox) : inbox[i].turn \in Message
  BY <1>1, Lines, LineTypes
<1>4. \A i \in 1..Len(inbox) : ToTurn(inbox[i]) => inbox[i].turn # m
  BY DEF OrderInv, ResponseInv
<1>5. s = "rejected" => ~alive \/ srv[m] = "none"
  BY AskedBefore DEF OrderInv, ResponseInv
<1>6. ~alive => inbox = <<>>
  BY DEF OrderInv, ResponseInv
<1>7. ResponseInv'
  <2>1. QED
    BY <1>1, <1>2, <1>3, <1>4 DEF OrderInv, ResponseInv, ToTurn
<1>8. EndInv'
  <2>1. ASSUME NEW i \in 1..Len(inbox), inbox[i].type \in OfTurn, pc'[inbox[i].turn] \in Settled
        PROVE  inbox[i].turn \in aborted
    BY <1>3, <1>5, <1>6, <2>1 DEF OrderInv, EndInv, Settled
  <2>2. ASSUME NEW n \in Message, alive, pc'[n] \in Settled, srv[n] \in Running PROVE n \in aborted
    BY <1>5, <2>2 DEF OrderInv, EndInv, Settled, Running
  <2>3. QED
    BY <1>1, <2>1, <2>2 DEF OrderInv, EndInv
<1>9. ShownInv'
  <2>1. pc[m] \notin Settled
    BY DEF Settled
  <2>2. QED
    BY <1>1, <2>1 DEF OrderInv, ShownInv
<1>10. QED
  BY <1>7, <1>8, <1>9

(* A send and its continuations.                                           *)
LEMMA OrderSend ==
    ASSUME Orderly, OrderInv, NEW m \in Message, SendCall(m) \/ Continue(m) \/ Timeout(m)
    PROVE  OneInFlight' /\ ResponseInv' /\ EndInv' /\ ShownInv'
<1>0. TypeOK /\ OneInFlight
  BY DEF OrderInv, AnswerInv
<1>1. UNCHANGED <<aborted, prompt, disposed, inbox, alive, srv, history>>
  BY <1>0, SendActs
<1>2. stopped' = stopped
  BY <1>1 DEF history
<1>3. CASE SendCall(m)
  <2>1. /\ pc[m] = "new"
        /\ UNCHANGED <<threadId, initialized, activeTurnId, turnAliases>>
        /\ Ask(m, IF initialized THEN "turn" ELSE IF threadId THEN "resume" ELSE "start")
    BY <1>3 DEF SendCall, filter
  <2>2. PICK method \in Request :
          /\ Ask(m, method)
          /\ method = IF initialized THEN "turn" ELSE IF threadId THEN "resume" ELSE "start"
    BY <2>1 DEF Request
  <2>3. \A n \in Message : ~InFlight(n)
    BY <1>0, <1>3, Methods DEF SendCall, OneInFlight, InFlight, Settled
  <2>4. \A n \in Message : pc'[n] = IF n = m THEN method ELSE pc[n]
    BY <1>0, <2>2, Asking
  <2>5. OneInFlight'
    BY <1>0, <1>2, <2>1, <2>2, <2>3, <2>4, Methods DEF OneInFlight, InFlight, Settled
  <2>6. QED
    BY <1>1, <2>1, <2>2, <2>5, OrderAsk
<1>4. CASE ResumeReturns(m) \/ (StartReturns(m) /\ req[m] = "answered")
  <2>1. PICK method \in Request :
          /\ Ask(m, method)
          /\ \/ method = "turn" /\ initialized' = TRUE /\ threadId' = TRUE
             \/ method = "start" /\ initialized' = initialized
    BY <1>4 DEF ResumeReturns, StartReturns, Request
  <2>2. pc[m] \in {"resume", "start"} /\ UNCHANGED <<activeTurnId, turnAliases>>
    BY <1>4 DEF ResumeReturns, StartReturns, filter
  <2>3. \A n \in Message : InFlight(n) => n = m
    BY <1>0, <2>2, Methods DEF OneInFlight, InFlight
  <2>4. \A n \in Message : pc'[n] = IF n = m THEN method ELSE pc[n]
    BY <1>0, <2>1, Asking
  <2>5. \A n \in Message : n # m => pc'[n] \notin {"resume", "start", "turn", "waiting"}
    BY <2>3, <2>4, Methods DEF InFlight
  <2>6. m \notin stopped /\ ~initialized
    BY <1>0, <2>2 DEF OneInFlight, Settled
  <2>7. OneInFlight'
    BY <1>0, <1>2, <2>1, <2>2, <2>3, <2>4, <2>5, <2>6, Methods DEF OneInFlight, InFlight, Settled
  <2>8. QED
    BY <1>1, <2>1, <2>2, <2>7, OrderAsk
<1>5. ASSUME NEW s \in {"waiting", "rejected"},
             pc[m] \in {"start", "turn"}, req[m] \in {"answered", "failed"},
             s = "rejected" => req[m] = "failed" /\ UNCHANGED <<activeTurnId, turnAliases>>,
             s = "waiting" => pc[m] = "turn" /\ activeTurnId' = m /\ turnAliases' = turnAliases \cup {m},
             UNCHANGED <<threadId, initialized, wire>>,
             \A n \in Message : pc'[n] = IF n = m THEN s ELSE pc[n],
             \A n \in Message : req'[n] = IF n = m THEN "none" ELSE req[n]
      PROVE  OneInFlight' /\ ResponseInv' /\ EndInv' /\ ShownInv'
  <2>1. \A n \in Message : InFlight(n) => n = m
    BY <1>0, <1>5, Methods DEF OneInFlight, InFlight
  <2>2. \A n \in Message : n # m => pc'[n] \notin {"resume", "start", "turn", "waiting"}
    BY <1>5, <2>1, Methods DEF InFlight
  <2>3. OneInFlight'
    BY <1>0, <1>2, <1>5, <2>1, <2>2, Methods DEF OneInFlight, InFlight, Settled
  <2>4. QED
    BY <1>1, <1>5, <2>3, OrderOn
<1>6. CASE StartReturns(m) /\ req[m] = "failed"
  <2>1. /\ pc[m] = "start" /\ Reject(m)
        /\ UNCHANGED <<threadId, initialized, wire, activeTurnId, turnAliases>>
    BY <1>6 DEF StartReturns, wire, filter
  <2>2. QED
    BY <1>0, <1>5, <1>6, <2>1, Rejecting
<1>7. CASE TurnReturns(m)
  <2>1. pc[m] = "turn" /\ UNCHANGED <<threadId, initialized, wire>>
    BY <1>7 DEF TurnReturns
  <2>2. CASE req[m] = "answered"
    <3>1. /\ pc' = [pc EXCEPT ![m] = "waiting"]
          /\ req' = [req EXCEPT ![m] = "none"]
          /\ activeTurnId' = m /\ turnAliases' = turnAliases \cup {m}
      BY <1>7, <2>2 DEF TurnReturns
    <3>2. /\ \A n \in Message : pc'[n] = IF n = m THEN "waiting" ELSE pc[n]
          /\ \A n \in Message : req'[n] = IF n = m THEN "none" ELSE req[n]
      BY <1>0, <3>1 DEF TypeOK
    <3>3. QED
      BY <1>5, <2>1, <2>2, <3>1, <3>2
  <2>3. CASE req[m] = "failed"
    <3>1. Reject(m) /\ UNCHANGED <<activeTurnId, turnAliases>>
      BY <1>7, <2>3 DEF TurnReturns
    <3>2. QED
      BY <1>0, <1>5, <2>1, <2>3, <3>1, Rejecting
  <2>4. QED
    BY <1>7, <2>2, <2>3 DEF TurnReturns
<1>8. CASE Timeout(m)
  <2>1. /\ req[m] = "open" /\ (pc[m] = "turn" => ~alive)
        /\ \A n \in Message : req'[n] = IF n = m THEN "failed" ELSE req[n]
        /\ UNCHANGED <<threadId, initialized, pc, activeTurnId, turnAliases, wire>>
    BY <1>0, <1>8 DEF Timeout, Orderly, TypeOK, filter
  <2>2. UNCHANGED <<inbox, outbox, item, names>>
    BY <1>1, <2>1 DEF wire, history, shown
  <2>3. OneInFlight'
    BY <1>0, <1>2, <2>1 DEF OneInFlight, InFlight
  <2>4. \A n \in Message : AskedFor(n)' => AskedFor(n)
    BY <2>2 DEF AskedFor
  <2>5. \A i \in 1..Len(inbox) : inbox[i].turn \in Message
    BY <1>0, Lines, LineTypes
  <2>6. alive => \A i \in 1..Len(inbox) : ToTurn(inbox[i]) => inbox[i].turn # m
    BY <2>1 DEF OrderInv, ResponseInv
  <2>7. \A n \in Message : AskedFor(n) => alive /\ n # m
    BY <2>1, AskedBefore
  <2>8. ResponseInv'
    <3>1. CASE alive
      BY <1>1, <2>1, <2>2, <2>4, <2>5, <2>6, <2>7, <3>1 DEF OrderInv, ResponseInv, ToTurn
    <3>2. CASE ~alive
      BY <1>1, <2>1, <2>2, <2>4, <2>7, <3>2 DEF OrderInv, ResponseInv
    <3>3. QED
      BY <3>1, <3>2
  <2>9. EndInv' /\ ShownInv'
    BY <1>1, <2>1, <2>2 DEF OrderInv, EndInv, ShownInv
  <2>10. QED
    BY <2>3, <2>8, <2>9
<1>9. QED
  BY <1>3, <1>4, <1>6, <1>7, <1>8 DEF Continue, StartReturns

(* Approvals are answered.                                                 *)
LEMMA OrderPrompt ==
    ASSUME OrderInv, NEW m \in Message, Judge(m) \/ Respond(m)
    PROVE  OneInFlight' /\ ResponseInv' /\ EndInv' /\ ShownInv'
<1>1. TypeOK
  BY DEF OrderInv, AnswerInv
<1>2. UNCHANGED <<driver, filter, disposed, inbox, alive, srv, shown, stopped>>
  BY <1>1, PromptActs
<1>3. OneInFlight'
  BY <1>2 DEF OrderInv, OneInFlight, InFlight, driver, filter
<1>4. /\ \A n \in Message : AskedFor(n)' => AskedFor(n)
      /\ ~alive => outbox' = outbox
  <2>1. CASE outbox' = outbox
    BY <2>1 DEF AskedFor
  <2>2. ASSUME NEW type \in {"answer", "cancel"}, Write(type, m)
        PROVE  /\ \A n \in Message : AskedFor(n)' => AskedFor(n)
               /\ ~alive => outbox' = outbox
    <3>1. /\ alive => Added(outbox, outbox', [type |-> type, turn |-> m])
          /\ ~alive => outbox' = outbox
      BY <1>1, <2>2, Writing
    <3>2. QED
      BY <3>1 DEF AskedFor, Added
  <2>3. QED
    BY <1>1, <2>1, <2>2, PromptActs
<1>5. QED
  BY <1>2, <1>3, <1>4, OrderKept DEF driver, filter, shown

(* The client reads what the process says of a turn while its send waits,  *)
(* or after it was aborted.                                                *)
LEMMA ReadWaits ==
    ASSUME Orderly, OrderInv, Read, inbox[1].type \in OfTurn
    PROVE  pc[inbox[1].turn] = "waiting" \/ inbox[1].turn \in aborted
<1> DEFINE m == inbox[1].turn
<1>1. m \in Message /\ 1 \in 1..Len(inbox) /\ inbox # <<>>
  BY Reads, LineTypes DEF OrderInv, AnswerInv
<1>2. srv[m] # "none" /\ (pc[m] \in Settled => m \in aborted)
  BY <1>1 DEF OrderInv, EndInv
<1>3. alive /\ req[m] # "answered"
  BY <1>1 DEF OrderInv, ResponseInv, Read, NextTask, Orderly
<1>4. pc[m] \notin {"new", "resume", "start"}
  BY <1>1, <1>2 DEF OrderInv, AnswerInv, AskedOnce
<1>5. pc[m] # "turn"
  <2>1. SUFFICES ASSUME pc[m] = "turn" PROVE FALSE
    OBVIOUS
  <2>2. PICK i \in 1..Len(inbox) : ToTurn(inbox[i]) /\ inbox[i].turn = m
    BY <1>1, <1>2, <1>3, <2>1 DEF OrderInv, ResponseInv
  <2>3. i # 1
    BY <2>2 DEF ToTurn, OfTurn
  <2>4. i < 1
    BY <1>1, <2>2, <2>3 DEF OrderInv, ResponseInv
  <2>5. QED
    BY <2>4
<1>6. QED
  BY <1>1, <1>2, <1>4, <1>5, Methods DEF OrderInv, AnswerInv, TypeOK, Settled

(* A response settles the request it is for.                               *)
LEMMA OrderResponse ==
    ASSUME OrderInv, Read, ReadResponse(inbox[1])
    PROVE  ResponseInv'
<1> DEFINE line == inbox[1]
           m == line.turn
<1>1. TypeOK
  BY DEF OrderInv, AnswerInv
<1>2. /\ m \in Message /\ 1 \in 1..Len(inbox) /\ inbox # <<>>
      /\ Shifted(inbox, inbox')
      /\ UNCHANGED <<disposed, outbox, alive, srv>>
  BY <1>1, Reads, LineTypes
<1>3. /\ line.type \in {"ok", "error"} /\ pc' = pc
      /\ \A n \in Message : \/ req'[n] = req[n]
                          \/ /\ n = m /\ pc[m] = line.to /\ req[m] = "open"
                             /\ req'[m] = IF line.type = "ok" THEN "answered" ELSE "failed"
      /\ pc[m] = line.to /\ req[m] = "open" => req'[m] = IF line.type = "ok" THEN "answered" ELSE "failed"
  BY <1>1, <1>2 DEF ReadResponse, TypeOK
<1> HIDE DEF m
<1>4. \A i \in 1..Len(inbox') : i + 1 \in 1..Len(inbox) /\ inbox'[i] = inbox[i + 1] /\ i + 1 # 1
  BY <1>2 DEF Shifted
<1>5. \A i \in 1..Len(inbox) : i = 1 \/ \E k \in 1..Len(inbox') : k + 1 = i
  <2>1. SUFFICES ASSUME NEW i \in 1..Len(inbox), i # 1 PROVE i - 1 \in 1..Len(inbox') /\ (i - 1) + 1 = i
    OBVIOUS
  <2>2. QED
    BY <1>2, <2>1 DEF Shifted
<1>6. \A i \in 1..Len(inbox) : inbox[i].turn \in Message
  BY <1>1, Lines, LineTypes
<1>7. alive
  BY <1>2 DEF OrderInv, ResponseInv
<1>8. \A n \in Message : AskedFor(n)' <=> AskedFor(n)
  BY <1>2 DEF AskedFor
<1>9. ToTurn(line) => ~AskedFor(m) /\ \A j \in 1..Len(inbox) : ToTurn(inbox[j]) /\ inbox[j].turn = m => j = 1
  BY <1>2 DEF OrderInv, ResponseInv, m
<1>10. \A n \in Message : req'[n] # req[n] /\ pc[n] = "turn" => n = m /\ ToTurn(line)
  BY <1>3 DEF ToTurn
<1>11. ASSUME NEW n \in Message, AskedFor(n)'
       PROVE  /\ pc'[n] = "turn" /\ req'[n] = "open"
              /\ \A i \in 1..Len(inbox') : ToTurn(inbox'[i]) => inbox'[i].turn # n
  BY <1>3, <1>4, <1>8, <1>9, <1>10, <1>11 DEF OrderInv, ResponseInv
<1>12. ASSUME NEW i \in 1..Len(inbox'), ToTurn(inbox'[i])
       PROVE  /\ pc'[inbox'[i].turn] = "turn" /\ req'[inbox'[i].turn] = "open"
              /\ inbox'[i].type = "ok" <=> srv'[inbox'[i].turn] # "none"
              /\ \A j \in 1..Len(inbox') : inbox'[j].turn = inbox'[i].turn /\ j # i =>
                    ~ToTurn(inbox'[j]) /\ (inbox'[j].type \in OfTurn => i < j)
  <2>1. /\ i + 1 \in 1..Len(inbox) /\ ToTurn(inbox[i + 1]) /\ inbox'[i] = inbox[i + 1]
        /\ inbox'[i].turn \in Message
    BY <1>4, <1>6, <1>12
  <2>2. /\ pc[inbox'[i].turn] = "turn" /\ req[inbox'[i].turn] = "open"
        /\ inbox'[i].type = "ok" <=> srv[inbox'[i].turn] # "none"
    BY <2>1 DEF OrderInv, ResponseInv
  <2>3. req'[inbox'[i].turn] = "open"
    BY <1>4, <1>9, <1>10, <2>1, <2>2
  <2>4. \A j \in 1..Len(inbox') : inbox'[j].turn = inbox'[i].turn /\ j # i =>
                    ~ToTurn(inbox'[j]) /\ (inbox'[j].type \in OfTurn => i < j)
    <3>1. ASSUME NEW j \in 1..Len(inbox'), inbox'[j].turn = inbox'[i].turn, j # i
          PROVE  ~ToTurn(inbox'[j]) /\ (inbox'[j].type \in OfTurn => i < j)
      <4>1. /\ j + 1 \in 1..Len(inbox) /\ inbox'[j] = inbox[j + 1] /\ j + 1 # i + 1
            /\ i + 1 < j + 1 => i < j
        BY <1>2, <1>4, <3>1 DEF Shifted
      <4>2. QED
        BY <2>1, <3>1, <4>1 DEF OrderInv, ResponseInv
    <3>2. QED
      BY <3>1
  <2>5. QED
    BY <1>2, <1>3, <1>8, <2>1, <2>2, <2>3, <2>4
<1>13. ASSUME NEW n \in Message, pc'[n] = "turn", srv[n] # "none"
       PROVE  \/ req'[n] = "answered"
              \/ /\ req'[n] = "open"
                 /\ \E i \in 1..Len(inbox') : ToTurn(inbox'[i]) /\ inbox'[i].turn = n
  <2>1. CASE n = m /\ ToTurn(line)
    <3>1. line.type = "ok" /\ req[n] = "open" /\ pc[n] = line.to
      BY <1>2, <1>13, <2>1 DEF OrderInv, ResponseInv, ToTurn, m
    <3>2. QED
      BY <1>3, <2>1, <3>1
  <2>2. CASE ~(n = m /\ ToTurn(line))
    <3>1. req'[n] = req[n] /\ pc[n] = "turn"
      BY <1>3, <1>10, <1>13, <2>2
    <3>2. CASE req[n] = "answered"
      BY <3>1, <3>2
    <3>3. ASSUME NEW i \in 1..Len(inbox), req[n] = "open", ToTurn(inbox[i]), inbox[i].turn = n
          PROVE  \E k \in 1..Len(inbox') : ToTurn(inbox'[k]) /\ inbox'[k].turn = n
      <4>1. i # 1
        BY <2>2, <3>3 DEF m
      <4>2. QED
        BY <1>4, <1>5, <3>3, <4>1
    <3>4. QED
      BY <1>7, <1>13, <3>1, <3>2, <3>3 DEF OrderInv, ResponseInv
  <2>3. QED
    BY <2>1, <2>2
<1>14. QED
  BY <1>2, <1>7, <1>11, <1>12, <1>13 DEF OrderInv, ResponseInv

(* What is said of a turn leaves the requests alone.                       *)
LEMMA OrderNotice ==
    ASSUME OrderInv, Read, inbox[1].type \in OfTurn, req' = req,
           \A n \in Message : pc'[n] = pc[n] \/ (pc[n] = "waiting" /\ pc'[n] \in Settled)
    PROVE  ResponseInv'
<1>1. TypeOK
  BY DEF OrderInv, AnswerInv
<1>2. /\ 1 \in 1..Len(inbox) /\ inbox # <<>> /\ Shifted(inbox, inbox')
      /\ UNCHANGED <<disposed, outbox, alive, srv>>
  BY <1>1, Reads
<1>3. \A i \in 1..Len(inbox') : i + 1 \in 1..Len(inbox) /\ inbox'[i] = inbox[i + 1]
  BY <1>2 DEF Shifted
<1>4. \A i \in 1..Len(inbox) : i = 1 \/ \E k \in 1..Len(inbox') : k + 1 = i
  <2>1. SUFFICES ASSUME NEW i \in 1..Len(inbox), i # 1 PROVE i - 1 \in 1..Len(inbox') /\ (i - 1) + 1 = i
    OBVIOUS
  <2>2. QED
    BY <1>2, <2>1 DEF Shifted
<1>5. \A i \in 1..Len(inbox) : inbox[i].turn \in Message
  BY <1>1, Lines, LineTypes
<1>6. alive /\ ~ToTurn(inbox[1])
  BY <1>2 DEF OrderInv, ResponseInv, ToTurn, OfTurn
<1>7. \A n \in Message : AskedFor(n)' <=> AskedFor(n)
  BY <1>2 DEF AskedFor
<1>8. \A n \in Message : pc[n] = "turn" <=> pc'[n] = "turn"
  BY DEF Settled
<1>9. ASSUME NEW n \in Message, AskedFor(n)'
      PROVE  /\ pc'[n] = "turn" /\ req'[n] = "open"
             /\ \A i \in 1..Len(inbox') : ToTurn(inbox'[i]) => inbox'[i].turn # n
  BY <1>3, <1>7, <1>8, <1>9 DEF OrderInv, ResponseInv
<1>10. ASSUME NEW i \in 1..Len(inbox'), ToTurn(inbox'[i])
       PROVE  /\ pc'[inbox'[i].turn] = "turn" /\ req'[inbox'[i].turn] = "open"
              /\ inbox'[i].type = "ok" <=> srv'[inbox'[i].turn] # "none"
              /\ \A j \in 1..Len(inbox') : inbox'[j].turn = inbox'[i].turn /\ j # i =>
                    ~ToTurn(inbox'[j]) /\ (inbox'[j].type \in OfTurn => i < j)
  <2>1. /\ i + 1 \in 1..Len(inbox) /\ ToTurn(inbox[i + 1]) /\ inbox'[i] = inbox[i + 1]
        /\ inbox'[i].turn \in Message
    BY <1>3, <1>5, <1>10
  <2>2. /\ pc[inbox'[i].turn] = "turn" /\ req[inbox'[i].turn] = "open"
        /\ inbox'[i].type = "ok" <=> srv[inbox'[i].turn] # "none"
    BY <2>1 DEF OrderInv, ResponseInv
  <2>3. ASSUME NEW j \in 1..Len(inbox'), inbox'[j].turn = inbox'[i].turn, j # i
        PROVE  ~ToTurn(inbox'[j]) /\ (inbox'[j].type \in OfTurn => i < j)
    <3>1. /\ j + 1 \in 1..Len(inbox) /\ inbox'[j] = inbox[j + 1] /\ j + 1 # i + 1
          /\ i + 1 < j + 1 => i < j
      BY <1>2, <1>3, <2>3 DEF Shifted
    <3>2. QED
      BY <2>1, <2>3, <3>1 DEF OrderInv, ResponseInv
  <2>4. QED
    BY <1>2, <1>7, <1>8, <2>1, <2>2, <2>3
<1>11. ASSUME NEW n \in Message, pc'[n] = "turn", srv[n] # "none"
       PROVE  \/ req'[n] = "answered"
              \/ /\ req'[n] = "open"
                 /\ \E i \in 1..Len(inbox') : ToTurn(inbox'[i]) /\ inbox'[i].turn = n
  <2>1. ASSUME NEW i \in 1..Len(inbox), ToTurn(inbox[i]), inbox[i].turn = n
        PROVE  \E k \in 1..Len(inbox') : ToTurn(inbox'[k]) /\ inbox'[k].turn = n
    BY <1>3, <1>4, <1>6, <2>1
  <2>2. QED
    BY <1>6, <1>8, <1>11, <2>1 DEF OrderInv, ResponseInv
<1>12. QED
  BY <1>2, <1>6, <1>9, <1>10, <1>11 DEF OrderInv, ResponseInv

LEMMA OrderRead ==
    ASSUME Orderly, OrderInv, Read
    PROVE  OneInFlight' /\ ResponseInv' /\ EndInv' /\ ShownInv'
<1> DEFINE line == inbox[1]
           m == line.turn
<1>1. TypeOK
  BY DEF OrderInv, AnswerInv
<1>2. /\ m \in Message /\ 1 \in 1..Len(inbox) /\ line \in InLine
      /\ Shifted(inbox, inbox')
      /\ UNCHANGED <<disposed, outbox, alive, srv, stopped>>
  BY <1>1, Reads, LineTypes
<1>3. ReadResponse(line) \/ ReadAsk(line) \/ ReadTool(line) \/ ReadEnd(line)
  BY <1>1, Reads
<1>4. \A i \in 1..Len(inbox') : i + 1 \in 1..Len(inbox) /\ inbox'[i] = inbox[i + 1] /\ i + 1 # 1
  BY <1>2 DEF Shifted
<1>5. \A i, j \in 1..Len(inbox') : j + 1 <= i + 1 => j <= i
  BY <1>2 DEF Shifted
<1>6. \A i \in 1..Len(inbox) : inbox[i].turn \in Message
  BY <1>1, Lines, LineTypes
<1>7. ASSUME UNCHANGED <<pc, aborted>>
      PROVE  EndInv'
  <2>1. ASSUME NEW i \in 1..Len(inbox'), inbox'[i].type \in OfTurn
        PROVE  /\ srv'[inbox'[i].turn] # "none"
               /\ pc'[inbox'[i].turn] \in Settled => inbox'[i].turn \in aborted'
               /\ inbox'[i].type \in {"completed", "failed"} =>
                    /\ srv'[inbox'[i].turn] = "over"
                    /\ \A j \in 1..Len(inbox') :
                          inbox'[j].type \in OfTurn /\ inbox'[j].turn = inbox'[i].turn => j <= i
    <3>1. i + 1 \in 1..Len(inbox) /\ inbox'[i] = inbox[i + 1]
      BY <1>4
    <3>2. /\ srv[inbox[i + 1].turn] # "none"
          /\ pc[inbox[i + 1].turn] \in Settled => inbox[i + 1].turn \in aborted
          /\ inbox[i + 1].type \in {"completed", "failed"} =>
               /\ srv[inbox[i + 1].turn] = "over"
               /\ \A j \in 1..Len(inbox) :
                     inbox[j].type \in OfTurn /\ inbox[j].turn = inbox[i + 1].turn => j <= i + 1
      BY <2>1, <3>1 DEF OrderInv, EndInv
    <3>3. ASSUME inbox[i + 1].type \in {"completed", "failed"}, NEW j \in 1..Len(inbox'),
                 inbox'[j].type \in OfTurn, inbox'[j].turn = inbox'[i].turn
          PROVE  j <= i
      <4>1. j + 1 \in 1..Len(inbox) /\ inbox'[j] = inbox[j + 1]
        BY <1>4
      <4>2. QED
        BY <1>5, <3>1, <3>2, <3>3, <4>1
    <3>4. QED
      BY <1>2, <1>7, <3>1, <3>2, <3>3
  <2>2. QED
    BY <1>2, <1>7, <2>1 DEF OrderInv, EndInv
<1>8. line.type \in OfTurn => pc[m] = "waiting" \/ m \in aborted
  BY ReadWaits
<1> HIDE DEF m, line
<1>9. CASE ReadResponse(line)
  <2>1. UNCHANGED <<threadId, initialized, pc, activeTurnId, aborted, turnAliases, item, names>>
    BY <1>9 DEF ReadResponse, filter, shown
  <2>2. OneInFlight'
    BY <1>2, <2>1 DEF OrderInv, OneInFlight, InFlight
  <2>3. ResponseInv'
    BY <1>9, OrderResponse DEF line
  <2>4. QED
    BY <1>7, <2>1, <2>2, <2>3 DEF OrderInv, ShownInv
<1>10. CASE ReadAsk(line) \/ ReadTool(line)
  <2>1. line.type \in OfTurn /\ UNCHANGED <<driver, filter, item>>
    BY <1>10 DEF ReadAsk, ReadTool, shown, OfTurn
  <2>2. OneInFlight'
    BY <1>2, <2>1 DEF OrderInv, OneInFlight, InFlight, driver, filter
  <2>3. ResponseInv'
    BY <2>1, OrderNotice DEF driver, line
  <2>4. names' = names \/ (m \in turnAliases /\ Named(m))
    BY <1>8, <1>10, <2>1, <1>2 DEF OrderInv, OneInFlight, ReadAsk, ReadTool, shown, m
  <2>5. ShownInv'
    BY <1>1, <1>2, <2>1, <2>4, Naming DEF driver, OrderInv, ShownInv
  <2>6. QED
    BY <1>7, <2>1, <2>2, <2>3, <2>5 DEF driver, filter
<1>11. CASE ReadEnd(line)
  <2>1. /\ line.type \in {"completed", "failed"} /\ line.type \in OfTurn
        /\ UNCHANGED <<threadId, initialized, req, activeTurnId>>
    BY <1>11 DEF ReadEnd, OfTurn
  <2>2. \A i \in 1..Len(inbox') : inbox'[i].type \in OfTurn => inbox'[i].turn # m
    <3>1. SUFFICES ASSUME NEW i \in 1..Len(inbox), inbox[i].type \in OfTurn, inbox[i].turn = m, i # 1
                   PROVE  FALSE
      BY <1>4
    <3>2. i <= 1
      BY <1>2, <2>1, <3>1 DEF OrderInv, EndInv, line, m
    <3>3. QED
      BY <1>2, <3>1, <3>2 DEF Shifted
  <2>3. srv[m] \notin Running
    BY <1>2, <2>1 DEF OrderInv, EndInv, line, m, Running
  <2>4. CASE m \in aborted
    <3>1. aborted' = aborted \ {m} /\ UNCHANGED <<pc, item, names, turnAliases>>
      BY <1>11, <2>4 DEF ReadEnd, m
    <3>2. OneInFlight' /\ ShownInv'
      BY <1>2, <2>1, <3>1 DEF OrderInv, OneInFlight, InFlight, ShownInv
    <3>3. ResponseInv'
      BY <2>1, <3>1, OrderNotice DEF line
    <3>4. EndInv'
      <4>1. ASSUME NEW i \in 1..Len(inbox'), inbox'[i].type \in OfTurn
            PROVE  /\ srv'[inbox'[i].turn] # "none"
                   /\ pc'[inbox'[i].turn] \in Settled => inbox'[i].turn \in aborted'
                   /\ inbox'[i].type \in {"completed", "failed"} =>
                        /\ srv'[inbox'[i].turn] = "over"
                        /\ \A j \in 1..Len(inbox') :
                              inbox'[j].type \in OfTurn /\ inbox'[j].turn = inbox'[i].turn => j <= i
        <5>1. i + 1 \in 1..Len(inbox) /\ inbox'[i] = inbox[i + 1] /\ inbox'[i].turn # m
          BY <1>4, <2>2, <4>1
        <5>2. /\ srv[inbox[i + 1].turn] # "none"
              /\ pc[inbox[i + 1].turn] \in Settled => inbox[i + 1].turn \in aborted
              /\ inbox[i + 1].type \in {"completed", "failed"} =>
                   /\ srv[inbox[i + 1].turn] = "over"
                   /\ \A j \in 1..Len(inbox) :
                         inbox[j].type \in OfTurn /\ inbox[j].turn = inbox[i + 1].turn => j <= i + 1
          BY <4>1, <5>1 DEF OrderInv, EndInv
        <5>3. ASSUME inbox[i + 1].type \in {"completed", "failed"}, NEW j \in 1..Len(inbox'),
                     inbox'[j].type \in OfTurn, inbox'[j].turn = inbox'[i].turn
              PROVE  j <= i
          <6>1. j + 1 \in 1..Len(inbox) /\ inbox'[j] = inbox[j + 1]
            BY <1>4
          <6>2. QED
            BY <1>5, <5>1, <5>2, <5>3, <6>1
        <5>4. QED
          BY <1>2, <3>1, <5>1, <5>2, <5>3
      <4>2. \A n \in Message : alive' /\ pc'[n] \in Settled /\ srv'[n] \in Running => n \in aborted'
        BY <1>2, <2>3, <3>1 DEF OrderInv, EndInv
      <4>3. QED
        BY <4>1, <4>2 DEF EndInv
    <3>5. QED
      BY <3>2, <3>3, <3>4
  <2>5. CASE m \notin aborted
    <3>1. pc[m] = "waiting" /\ m \in turnAliases
      BY <1>2, <1>8, <2>1, <2>5 DEF OrderInv, OneInFlight
    <3>2. /\ aborted' = aborted
          /\ item' = [item EXCEPT ![m] = line.type]
          /\ Named(m)
          /\ turnAliases' = turnAliases \ {m}
          /\ pc' = [pc EXCEPT ![m] = IF line.type = "failed" THEN "rejected" ELSE "resolved"]
      BY <1>11, <2>5, <3>1 DEF ReadEnd, FinalizeTurn, m
    <3>3. \A n \in Message : IF n = m THEN pc'[n] \in Settled ELSE pc'[n] = pc[n]
      BY <1>1, <3>2 DEF TypeOK, Settled
    <3>4. OneInFlight'
      BY <1>2, <2>1, <3>1, <3>2, <3>3, Methods DEF OrderInv, OneInFlight, InFlight, Settled
    <3>5. ResponseInv'
      BY <2>1, <3>1, <3>3, OrderNotice DEF line
    <3>6. EndInv'
      <4>1. \A i \in 1..Len(inbox') : inbox'[i].turn \in Message
        BY <1>4, <1>6
      <4>2. ASSUME NEW i \in 1..Len(inbox'), inbox'[i].type \in OfTurn
            PROVE  /\ srv'[inbox'[i].turn] # "none"
                   /\ pc'[inbox'[i].turn] \in Settled => inbox'[i].turn \in aborted'
                   /\ inbox'[i].type \in {"completed", "failed"} =>
                        /\ srv'[inbox'[i].turn] = "over"
                        /\ \A j \in 1..Len(inbox') :
                              inbox'[j].type \in OfTurn /\ inbox'[j].turn = inbox'[i].turn => j <= i
        BY <1>2, <1>4, <1>5, <2>2, <3>2, <3>3, <4>1, <4>2 DEF OrderInv, EndInv
      <4>3. QED
        BY <1>2, <2>3, <3>2, <3>3, <4>2 DEF OrderInv, EndInv
    <3>7. ShownInv'
      BY <1>1, <1>2, <3>1, <3>2, <3>3, Naming DEF OrderInv, ShownInv, TypeOK
    <3>8. QED
      BY <3>4, <3>5, <3>6, <3>7
  <2>6. QED
    BY <2>4, <2>5
<1>12. QED
  BY <1>3, <1>9, <1>10, <1>11

(* Aborts, and the end of the driver or the process.                       *)
LEMMA OrderEnds ==
    ASSUME Orderly, OrderInv, Abort \/ Dispose \/ Close
    PROVE  OneInFlight' /\ ResponseInv' /\ EndInv' /\ ShownInv'
<1>1. TypeOK /\ OneInFlight
  BY DEF OrderInv, AnswerInv
<1>2. CASE Abort
  <2>1. /\ \A n \in Message : pc[n] \notin Request
        /\ \A n \in Message : pc'[n] = IF pc[n] = "waiting" THEN "resolved" ELSE pc[n]
        /\ stopped' = stopped \cup {n \in Message : InFlight(n)}
        /\ activeTurnId' = NoTurn
        /\ UNCHANGED <<threadId, initialized, req, disposed, inbox, alive, srv, item, names>>
    BY <1>2 DEF Abort, AbortCall, Orderly, Waiting, shown
  <2>2. \A n \in Message : pc[n] = "waiting" => n \in aborted'
    BY <1>1, <1>2, TurnAssumption DEF Abort, OneInFlight
  <2>3. \A n \in aborted : n \in aborted'
    BY <1>2 DEF Abort, filter
  <2>4. OneInFlight'
    BY <1>1, <2>1, Methods DEF OneInFlight, InFlight, Settled
  <2>5. /\ \A n \in Message : AskedFor(n)' => AskedFor(n)
        /\ ~alive => outbox' = outbox
    <3>1. CASE outbox' = outbox
      BY <3>1 DEF AskedFor
    <3>2. ASSUME NEW n \in Message, Write("interrupt", n)
          PROVE  /\ \A k \in Message : AskedFor(k)' => AskedFor(k)
                 /\ ~alive => outbox' = outbox
      <4>1. /\ alive => Added(outbox, outbox', [type |-> "interrupt", turn |-> n])
            /\ ~alive => outbox' = outbox
        BY <1>1, <3>2, Writing
      <4>2. QED
        BY <4>1 DEF AskedFor, Added
    <3>3. activeTurnId # NoTurn => activeTurnId \in Message
      BY <1>1 DEF TypeOK
    <3>4. QED
      BY <1>2, <3>1, <3>2, <3>3 DEF Abort
  <2>6. ResponseInv'
    <3>1. \A n \in Message : ~AskedFor(n)' /\ pc'[n] # "turn"
      BY <2>1, <2>5, Methods DEF OrderInv, ResponseInv
    <3>2. \A i \in 1..Len(inbox) : ~ToTurn(inbox[i])
      <4>1. \A i \in 1..Len(inbox) : inbox[i].turn \in Message
        BY <1>1, Lines, LineTypes
      <4>2. QED
        BY <2>1, <4>1, Methods DEF OrderInv, ResponseInv
    <3>3. QED
      BY <2>1, <2>5, <3>1, <3>2 DEF OrderInv, ResponseInv, ToTurn
  <2>7. EndInv'
    <3>1. \A i \in 1..Len(inbox) : inbox[i].turn \in Message
      BY <1>1, Lines, LineTypes
    <3>2. \A n \in Message : pc'[n] \in Settled => pc[n] \in Settled \/ n \in aborted'
      BY <2>1, <2>2
    <3>3. QED
      BY <2>1, <2>3, <3>1, <3>2 DEF OrderInv, EndInv
  <2>8. ShownInv'
    BY <2>1 DEF OrderInv, ShownInv, Settled
  <2>9. QED
    BY <2>4, <2>6, <2>7, <2>8
<1>3. CASE Dispose \/ Close
  <2>1. /\ inbox' = <<>> /\ outbox' = <<>> /\ alive' = FALSE
        /\ UNCHANGED <<threadId, initialized, turnAliases, stopped>>
    BY <1>3 DEF Dispose, Close, Orderly, filter, history
  <2>2. \A n \in Message : ~AskedFor(n)'
    BY <2>1 DEF AskedFor
  <2>3. ResponseInv' /\ EndInv'
    BY <2>1, <2>2 DEF ResponseInv, EndInv
  <2>4. CASE Dispose
    <3>1. UNCHANGED <<pc, activeTurnId, item, names>>
      BY <2>4 DEF Dispose, history, shown
    <3>2. QED
      BY <1>1, <2>1, <2>3, <3>1 DEF OrderInv, OneInFlight, InFlight, ShownInv
  <2>5. CASE Close
    <3>1. /\ \A n \in Message : pc'[n] = IF pc[n] = "waiting" THEN "rejected" ELSE pc[n]
          /\ activeTurnId' = NoTurn
      BY <2>5 DEF Close, Waiting
    <3>2. OneInFlight'
      BY <1>1, <2>1, <3>1, Methods DEF OneInFlight, InFlight, Settled
    <3>3. ShownInv'
      <4>1. CASE activeTurnId \in Waiting
        <5>1. /\ activeTurnId \in Message /\ pc[activeTurnId] = "waiting"
              /\ item' = [item EXCEPT ![activeTurnId] = "failed"]
              /\ Named(activeTurnId) /\ activeTurnId \in turnAliases
          BY <1>1, <2>5, <4>1 DEF Close, Waiting, OneInFlight
        <5>2. QED
          BY <1>1, <3>1, <5>1, Naming DEF OrderInv, ShownInv, TypeOK, Settled
      <4>2. CASE activeTurnId \notin Waiting
        BY <2>5, <3>1, <4>2 DEF Close, OrderInv, ShownInv, Settled
      <4>3. QED
        BY <4>1, <4>2
    <3>4. QED
      BY <2>3, <3>2, <3>3
  <2>6. QED
    BY <1>3, <2>4, <2>5
<1>4. QED
  BY <1>2, <1>3

(* The process responds to a request.                                      *)
LEMMA OrderResponds ==
    ASSUME OrderInv, ServerTakes, NEW m \in Message, NEW type \in Request,
           NEW verdict \in {"ok", "error"},
           m = outbox[1].turn, type = outbox[1].type,
           Says(<<[type |-> verdict, to |-> type, turn |-> m]>>),
           srv' = IF verdict = "ok" /\ type = "turn" THEN [srv EXCEPT ![m] = "running"] ELSE srv
    PROVE  ResponseInv' /\ EndInv'
<1> DEFINE x == [type |-> verdict, to |-> type, turn |-> m]
<1>1. TypeOK /\ alive
  BY Served DEF OrderInv, AnswerInv
<1>2. UNCHANGED <<pc, req, aborted, alive, disposed>>
  BY <1>1, Served DEF driver, filter
<1>3. x \in InLine /\ x.type = verdict /\ x.to = type /\ x.turn = m /\ x.type \notin OfTurn
      /\ (ToTurn(x) <=> type = "turn")
  BY DEF InLine, Response, OfTurn, ToTurn
<1>4. Added(inbox, inbox', x)
  BY <1>1, <1>3, Saying
<1> HIDE DEF x
<1>5. \A i \in 1..Len(inbox') :
         \/ i = Len(inbox') /\ inbox'[i] = x /\ \A j \in 1..Len(inbox) : j < i
         \/ i \in 1..Len(inbox) /\ inbox'[i] = inbox[i]
  BY <1>4 DEF Added
<1>6. \A i \in 1..Len(inbox) : i \in 1..Len(inbox') /\ inbox'[i] = inbox[i]
  BY <1>4 DEF Added
<1>7. Len(inbox') \in 1..Len(inbox') /\ inbox'[Len(inbox')] = x
  BY <1>4 DEF Added
<1>8. \A i \in 1..Len(inbox) : inbox[i].turn \in Message
  BY <1>1, Lines, LineTypes
<1>9. /\ \A n \in Message : AskedFor(n)' => AskedFor(n) /\ (n = m => type # "turn")
      /\ type = "turn" => AskedFor(m)
  BY AskedTaken
<1>10. type = "turn" =>
          /\ pc[m] = "turn" /\ req[m] = "open" /\ srv[m] = "none"
          /\ \A i \in 1..Len(inbox) : ToTurn(inbox[i]) => inbox[i].turn # m
          /\ \A i \in 1..Len(inbox) : inbox[i].type \in OfTurn => inbox[i].turn # m
  BY <1>9, AskedBefore DEF OrderInv, ResponseInv, EndInv
<1>11. \A n \in Message : srv'[n] = IF n = m /\ verdict = "ok" /\ type = "turn" THEN "running" ELSE srv[n]
  BY <1>1 DEF TypeOK
<1>12. ResponseInv'
  <2>1. ASSUME NEW n \in Message, AskedFor(n)'
        PROVE  /\ pc[n] = "turn" /\ req[n] = "open"
               /\ \A i \in 1..Len(inbox') : ToTurn(inbox'[i]) => inbox'[i].turn # n
    BY <1>3, <1>5, <1>9, <2>1 DEF OrderInv, ResponseInv
  <2>2. ASSUME NEW i \in 1..Len(inbox'), ToTurn(inbox'[i])
        PROVE  /\ pc[inbox'[i].turn] = "turn" /\ req[inbox'[i].turn] = "open"
               /\ inbox'[i].type = "ok" <=> srv'[inbox'[i].turn] # "none"
    BY <1>3, <1>5, <1>8, <1>10, <1>11, <2>2 DEF OrderInv, ResponseInv
  <2>3. ASSUME NEW i \in 1..Len(inbox'), ToTurn(inbox'[i]),
               NEW j \in 1..Len(inbox'), inbox'[j].turn = inbox'[i].turn, j # i
        PROVE  ~ToTurn(inbox'[j]) /\ (inbox'[j].type \in OfTurn => i < j)
    BY <1>3, <1>5, <1>10, <2>3 DEF OrderInv, ResponseInv
  <2>4. ASSUME NEW n \in Message, pc[n] = "turn", srv'[n] # "none"
        PROVE  \/ req[n] = "answered"
               \/ /\ req[n] = "open"
                  /\ \E i \in 1..Len(inbox') : ToTurn(inbox'[i]) /\ inbox'[i].turn = n
    <3>1. CASE srv[n] = "none"
      BY <1>3, <1>7, <1>10, <1>11, <2>4, <3>1
    <3>2. CASE srv[n] # "none" /\ req[n] # "answered"
      <4>1. req[n] = "open" /\ \E i \in 1..Len(inbox) : ToTurn(inbox[i]) /\ inbox[i].turn = n
        BY <1>1, <2>4, <3>2 DEF OrderInv, ResponseInv
      <4>2. QED
        BY <1>6, <4>1
    <3>3. QED
      BY <3>1, <3>2
  <2>5. disposed => ~alive
    BY DEF OrderInv, ResponseInv
  <2>6. QED
    BY <1>1, <1>2, <2>1, <2>2, <2>3, <2>4, <2>5 DEF ResponseInv
<1>13. EndInv'
  <2>1. ASSUME NEW i \in 1..Len(inbox'), inbox'[i].type \in OfTurn
        PROVE  /\ srv'[inbox'[i].turn] # "none"
               /\ pc[inbox'[i].turn] \in Settled => inbox'[i].turn \in aborted
               /\ inbox'[i].type \in {"completed", "failed"} =>
                    /\ srv'[inbox'[i].turn] = "over"
                    /\ \A j \in 1..Len(inbox') :
                          inbox'[j].type \in OfTurn /\ inbox'[j].turn = inbox'[i].turn => j <= i
    <3>1. i \in 1..Len(inbox) /\ inbox'[i] = inbox[i]
      BY <1>3, <1>5, <2>1
    <3>2. inbox[i].turn \in Message /\ srv'[inbox[i].turn] = srv[inbox[i].turn]
      BY <1>8, <1>10, <1>11, <2>1, <3>1
    <3>3. QED
      BY <1>3, <1>5, <2>1, <3>1, <3>2 DEF OrderInv, EndInv
  <2>2. ASSUME NEW n \in Message, pc[n] \in Settled, srv'[n] \in Running PROVE n \in aborted
    BY <1>1, <1>10, <1>11, <2>2 DEF OrderInv, EndInv, Settled
  <2>3. QED
    BY <1>2, <2>1, <2>2 DEF EndInv
<1>14. QED
  BY <1>12, <1>13

(* It says something of a turn that runs.                                  *)
LEMMA OrderSays ==
    ASSUME OrderInv, alive, UNCHANGED <<pc, req, aborted, alive, disposed>>,
           NEW m \in Message, NEW type \in OfTurn, NEW s \in Running \cup {"over"},
           \A n \in Message : AskedFor(n)' => AskedFor(n),
           Says(<<Line(type, m)>>), Line(type, m) \in InLine,
           srv[m] \in Running,
           srv' = [srv EXCEPT ![m] = s],
           type \in {"completed", "failed"} <=> s = "over"
    PROVE  ResponseInv' /\ EndInv'
<1> DEFINE x == Line(type, m)
<1>1. TypeOK
  BY DEF OrderInv, AnswerInv
<1>2. x.type = type /\ x.turn = m /\ ~ToTurn(x)
  BY DEF Line, ToTurn, OfTurn
<1>3. Added(inbox, inbox', x)
  BY <1>1, Saying
<1> HIDE DEF x
<1>4. \A i \in 1..Len(inbox') :
         \/ i = Len(inbox') /\ inbox'[i] = x /\ \A j \in 1..Len(inbox) : j < i
         \/ i \in 1..Len(inbox) /\ inbox'[i] = inbox[i]
  BY <1>3 DEF Added
<1>5. \A i \in 1..Len(inbox) : i \in 1..Len(inbox') /\ inbox'[i] = inbox[i]
  BY <1>3 DEF Added
<1>6. \A i \in 1..Len(inbox') : i <= Len(inbox')
  BY <1>3 DEF Added
<1>7. \A i \in 1..Len(inbox) : inbox[i].turn \in Message
  BY <1>1, Lines, LineTypes
<1>8. srv[m] \notin {"none", "over"} /\ s # "none"
  BY DEF Running
<1>9. \A n \in Message : srv'[n] = IF n = m THEN s ELSE srv[n]
  BY <1>1 DEF TypeOK
<1>10. ResponseInv'
  <2>1. ASSUME NEW n \in Message, AskedFor(n)'
        PROVE  /\ pc[n] = "turn" /\ req[n] = "open"
               /\ \A i \in 1..Len(inbox') : ToTurn(inbox'[i]) => inbox'[i].turn # n
    BY <1>2, <1>4, <2>1 DEF OrderInv, ResponseInv
  <2>2. ASSUME NEW i \in 1..Len(inbox'), ToTurn(inbox'[i])
        PROVE  /\ pc[inbox'[i].turn] = "turn" /\ req[inbox'[i].turn] = "open"
               /\ inbox'[i].type = "ok" <=> srv'[inbox'[i].turn] # "none"
    BY <1>2, <1>4, <1>7, <1>8, <1>9, <2>2 DEF OrderInv, ResponseInv
  <2>3. ASSUME NEW i \in 1..Len(inbox'), ToTurn(inbox'[i]),
               NEW j \in 1..Len(inbox'), inbox'[j].turn = inbox'[i].turn, j # i
        PROVE  ~ToTurn(inbox'[j]) /\ (inbox'[j].type \in OfTurn => i < j)
    <3>1. i \in 1..Len(inbox) /\ inbox'[i] = inbox[i]
      BY <1>2, <1>4, <2>3
    <3>2. CASE inbox'[j] = x /\ i < j
      BY <1>2, <3>2
    <3>3. CASE j \in 1..Len(inbox) /\ inbox'[j] = inbox[j]
      BY <2>3, <3>1, <3>3 DEF OrderInv, ResponseInv
    <3>4. QED
      BY <1>4, <3>1, <3>2, <3>3
  <2>4. ASSUME NEW n \in Message, pc[n] = "turn", srv'[n] # "none"
        PROVE  \/ req[n] = "answered"
               \/ /\ req[n] = "open"
                  /\ \E i \in 1..Len(inbox') : ToTurn(inbox'[i]) /\ inbox'[i].turn = n
    <3>1. srv[n] # "none"
      BY <1>8, <1>9, <2>4
    <3>2. CASE req[n] # "answered"
      <4>1. req[n] = "open" /\ \E i \in 1..Len(inbox) : ToTurn(inbox[i]) /\ inbox[i].turn = n
        BY <2>4, <3>1, <3>2 DEF OrderInv, ResponseInv
      <4>2. QED
        BY <1>5, <4>1
    <3>3. QED
      BY <3>2
  <2>5. disposed => ~alive
    BY DEF OrderInv, ResponseInv
  <2>6. QED
    BY <2>1, <2>2, <2>3, <2>4, <2>5 DEF ResponseInv
<1>11. EndInv'
  <2>1. ASSUME NEW i \in 1..Len(inbox'), inbox'[i].type \in OfTurn
        PROVE  /\ srv'[inbox'[i].turn] # "none"
               /\ pc[inbox'[i].turn] \in Settled => inbox'[i].turn \in aborted
               /\ inbox'[i].type \in {"completed", "failed"} =>
                    /\ srv'[inbox'[i].turn] = "over"
                    /\ \A j \in 1..Len(inbox') :
                          inbox'[j].type \in OfTurn /\ inbox'[j].turn = inbox'[i].turn => j <= i
    <3>1. CASE i = Len(inbox') /\ inbox'[i] = x
      BY <1>2, <1>6, <1>8, <1>9, <3>1 DEF OrderInv, EndInv
    <3>2. CASE i \in 1..Len(inbox) /\ inbox'[i] = inbox[i]
      <4>1. inbox[i].turn \in Message
        BY <1>7, <3>2
      <4>2. /\ srv[inbox[i].turn] # "none"
            /\ pc[inbox[i].turn] \in Settled => inbox[i].turn \in aborted
            /\ inbox[i].type \in {"completed", "failed"} =>
                 /\ srv[inbox[i].turn] = "over"
                 /\ \A j \in 1..Len(inbox) :
                       inbox[j].type \in OfTurn /\ inbox[j].turn = inbox[i].turn => j <= i
        BY <2>1, <3>2 DEF OrderInv, EndInv
      <4>3. inbox[i].type \in {"completed", "failed"} => inbox[i].turn # m
        BY <1>8, <4>2
      <4>4. QED
        BY <1>2, <1>4, <1>8, <1>9, <3>2, <4>1, <4>2, <4>3
    <3>3. QED
      BY <1>4, <3>1, <3>2
  <2>2. ASSUME NEW n \in Message, pc[n] \in Settled, srv'[n] \in Running PROVE n \in aborted
    BY <1>9, <2>2 DEF OrderInv, EndInv
  <2>3. QED
    BY <2>1, <2>2 DEF EndInv
<1>12. QED
  BY <1>10, <1>11

LEMMA OrderServer ==
    ASSUME OrderInv, ServerTakes \/ \E m \in Message : ServerAsks(m) \/ ServerCalls(m) \/ ServerEnds(m)
    PROVE  OneInFlight' /\ ResponseInv' /\ EndInv' /\ ShownInv'
<1>1. TypeOK
  BY DEF OrderInv, AnswerInv
<1>2. UNCHANGED <<driver, filter, prompt, disposed, alive, history>> /\ alive
  BY <1>1, Served, ServerActs
<1>3. OneInFlight' /\ ShownInv'
  BY <1>2 DEF OrderInv, OneInFlight, InFlight, ShownInv, driver, filter, history, shown
<1>4. UNCHANGED <<pc, req, aborted, alive, disposed>>
  BY <1>2 DEF driver, filter
<1>5. CASE ServerTakes
  <2> DEFINE m == outbox[1].turn
             type == outbox[1].type
  <2>1. /\ m \in Message /\ type \in Request \cup {"interrupt", "answer", "cancel"}
        /\ Serve(m, type)
    BY <1>1, <1>5, Served DEF OutLine
  <2>2. \A n \in Message : AskedFor(n)' => AskedFor(n)
    BY <1>5, AskedTaken
  <2>3. ASSUME NEW k \in Message, NEW method \in Request, k = m, method = type,
               NEW verdict \in {"ok", "error"},
               Says(<<[type |-> verdict, to |-> method, turn |-> k]>>),
               srv' = IF verdict = "ok" /\ method = "turn" THEN [srv EXCEPT ![k] = "running"] ELSE srv
        PROVE  ResponseInv' /\ EndInv'
    BY <1>5, <2>3, OrderResponds
  <2>4. ASSUME inbox' = inbox,
               srv' = srv \/ (srv[m] = "asking" /\ srv' = [srv EXCEPT ![m] = "running"])
        PROVE  ResponseInv' /\ EndInv'
    <3>1. \A n \in Message : srv'[n] = srv[n] \/ (srv[n] = "asking" /\ srv'[n] = "running")
      BY <1>1, <2>1, <2>4 DEF TypeOK
    <3>2. \A i \in 1..Len(inbox) : inbox[i].turn \in Message
      BY <1>1, Lines, LineTypes
    <3>3. ResponseInv'
      <4>1. \A n \in Message : srv'[n] = "none" <=> srv[n] = "none"
        BY <3>1
      <4>2. QED
        BY <1>2, <1>4, <2>2, <2>4, <3>2, <4>1 DEF OrderInv, ResponseInv, ToTurn
    <3>4. EndInv'
      BY <1>4, <2>4, <3>1, <3>2 DEF OrderInv, EndInv, Running
    <3>5. QED
      BY <3>3, <3>4
  <2> HIDE DEF m, type
  <2>5. CASE /\ type \in {"interrupt", "cancel"}
             /\ srv[m] \in Running
             /\ srv' = [srv EXCEPT ![m] = "over"]
             /\ Says(<<Line("completed", m)>>)
             /\ Line("completed", m) \in InLine
    <3>1. "completed" \in OfTurn /\ "over" \in Running \cup {"over"}
      BY DEF OfTurn
    <3>2. QED
      BY <1>2, <1>3, <1>4, <2>1, <2>2, <2>5, <3>1, OrderSays
  <2>6. ResponseInv' /\ EndInv'
    <3>1. \/ \E verdict \in {"ok", "error"} :
                /\ type \in Request
                /\ Says(<<[type |-> verdict, to |-> type, turn |-> m]>>)
                /\ srv' = IF verdict = "ok" /\ type = "turn" THEN [srv EXCEPT ![m] = "running"] ELSE srv
          \/ inbox' = inbox /\ (srv' = srv \/ (srv[m] = "asking" /\ srv' = [srv EXCEPT ![m] = "running"]))
          \/ ResponseInv' /\ EndInv'
      BY <1>1, <2>1, <2>5, Serving
    <3>2. QED
      BY <2>1, <2>3, <2>4, <3>1
  <2>7. QED
    BY <1>3, <2>6
<1>6. ASSUME NEW m \in Message, ServerAsks(m) \/ ServerCalls(m) \/ ServerEnds(m)
      PROVE  ResponseInv' /\ EndInv'
  <2>1. \A n \in Message : AskedFor(n)' => AskedFor(n)
    BY <1>1, <1>6, ServerActs DEF AskedFor
  <2>2. QED
    BY <1>1, <1>2, <1>4, <1>6, <2>1, ServerActs, OrderSays
<1>7. QED
  BY <1>3, <1>5, <1>6

LEMMA OrderStep ==
    ASSUME Orderly
    PROVE  OrderInv /\ [Next]_vars => OrderInv'
<1> SUFFICES ASSUME OrderInv, [Next]_vars PROVE OrderInv'
  OBVIOUS
<1>1. AnswerInv'
  BY AnswerStep DEF OrderInv
<1>2. OneInFlight' /\ ResponseInv' /\ EndInv' /\ ShownInv'
  <2>1. CASE UNCHANGED vars
    <3>1. UNCHANGED <<driver, filter, wire, disposed, srv, history>>
      BY <2>1 DEF vars
    <3>2. OneInFlight'
      BY <3>1 DEF driver, filter, history, OrderInv, OneInFlight, InFlight
    <3>3. \A n \in Message : AskedFor(n)' => AskedFor(n)
      BY <3>1 DEF wire, AskedFor
    <3>4. QED
      BY <3>1, <3>2, <3>3, OrderKept DEF driver, filter, wire, history, shown
  <2>2. CASE Next
    BY <2>2, OrderSend, OrderPrompt, OrderRead, OrderEnds, OrderServer DEF Next
  <2>3. QED
    BY <2>1, <2>2
<1>3. QED
  BY <1>1, <1>2 DEF OrderInv

(* Under the same assumption all that is shown of a turn goes by the id    *)
(* the host gave it, and its approval is answered once (turnAliases of     *)
(* app-server-driver.ts).                                                  *)
THEOREM Names ==
    ASSUME Orderly
    PROVE  Spec => []NamesAndAnswers
<1>1. OrderInv => NamesAndAnswers
  BY DEF OrderInv, AnswerInv, PromptInv, ShownInv, NamesAndAnswers, OneName, AnsweredOnce
<1>2. QED
  BY <1>1, OrderInit, OrderStep, PTL DEF Spec

(* The late items of a turn are dropped: once it was aborted or has        *)
(* completed, no terminal item is appended for it and its tool call is     *)
(* shown as it was (abort() and the filter on abortedTurnIds of            *)
(* app-server-driver.ts).  Approvals do not pass that filter, and nothing  *)
(* is said of them here.                                                   *)
THEOREM LateItems ==
    ASSUME Orderly
    PROVE  Spec => LateItemsDropped
<1> DEFINE Silent == \A m \in Message : pc[m] = "resolved" => item'[m] = item[m] /\ tool'[m] = tool[m]
<1>1. ASSUME OrderInv, Next PROVE Silent
  <2>1. TypeOK /\ OneInFlight
    BY <1>1 DEF OrderInv, AnswerInv
  <2>2. CASE Read
    <3>1. /\ inbox[1].turn \in Message
          /\ \/ ReadResponse(inbox[1]) \/ ReadAsk(inbox[1])
             \/ ReadTool(inbox[1]) \/ ReadEnd(inbox[1])
      BY <2>1, <2>2, Reads, LineTypes
    <3>2. inbox[1].type \in OfTurn => pc[inbox[1].turn] = "waiting" \/ inbox[1].turn \in aborted
      BY <1>1, <2>2, ReadWaits
    <3>3. QED
      BY <2>1, <3>1, <3>2
         DEF ReadResponse, ReadAsk, ReadTool, ReadEnd, FinalizeTurn, OfTurn, shown, TypeOK
  <2>3. CASE Close
    BY <2>1, <2>3 DEF Close, Waiting, TypeOK
  <2>4. CASE UNCHANGED shown
    BY <2>4 DEF shown
  <2>5. QED
    BY <1>1, <2>1, <2>2, <2>3, <2>4, SendActs, PromptActs, Served, ServerActs
       DEF Next, Abort, Dispose, history
<1>2. OrderInv /\ [Next]_vars => [Silent]_vars
  BY <1>1
<1>3. QED
  BY <1>2, OrderInit, OrderStep, PTL DEF Spec, LateItemsDropped

-----------------------------------------------------------------------------
(* The refinement of TurnDriver.                                           *)

LEMMA RefinementStep ==
    ASSUME Orderly, OrderInv, [Next]_vars
    PROVE  [TD!Next]_TD!vars
<1>1. TypeOK /\ TypeOK' /\ OneInFlight
  BY TypeStep DEF OrderInv, AnswerInv
<1>2. \A m \in Message : item[m] = "open" \/ pc[m] \in Settled
  BY DEF OrderInv, ShownInv
<1>3. \A m \in Message :
         turn[m] = IF pc[m] = "new" THEN "idle" ELSE IF pc[m] \in Settled THEN pc[m] ELSE "pending"
  BY DEF turn, Settled
<1>4. \A m \in Message :
         turn'[m] = IF pc'[m] = "new" THEN "idle" ELSE IF pc'[m] \in Settled THEN pc'[m] ELSE "pending"
  BY DEF turn, Settled
<1>5. ASSUME NEW S \in SUBSET Message, NEW F \in SUBSET Message, F \subseteq S,
             \A m \in S : turn[m] = "pending",
             \A m \in Message : turn'[m] = IF m \in S THEN "rejected" ELSE turn[m],
             \A m \in Message : item'[m] = IF m \in F THEN "failed" ELSE item[m]
      PROVE  TD!Throws
  <2>1. turn' = [m \in Message |-> IF m \in S THEN "rejected" ELSE turn[m]]
    BY <1>5 DEF turn
  <2>2. item' = [m \in Message |-> IF m \in F THEN "failed" ELSE item[m]]
    BY <1>1, <1>5 DEF TypeOK
  <2>3. \A m \in S : item[m] = "open"
    BY <1>2, <1>3, <1>5 DEF Settled
  <2>4. QED
    BY <1>5, <2>1, <2>2, <2>3 DEF TD!Throws
<1>6. ASSUME \A m \in Message : turn'[m] = turn[m], item' = item
      PROVE  UNCHANGED TD!vars
  BY <1>6 DEF TD!vars, turn
<1>7. ASSUME NEW m \in Message, SendCall(m)
      PROVE  TD!Call(m)
  <2>1. pc[m] = "new" /\ item' = item /\ \E method \in Request : pc' = [pc EXCEPT ![m] = method]
    BY <1>7 DEF SendCall, Ask, Request, history, shown
  <2>2. turn' = [turn EXCEPT ![m] = "pending"]
    <3>1. PICK method \in Request : pc' = [pc EXCEPT ![m] = method]
      BY <2>1
    <3>2. method # "new" /\ method \notin Settled
      BY Methods DEF Settled
    <3>3. \A n \in Message : pc'[n] = IF n = m THEN method ELSE pc[n]
      BY <1>1, <3>1 DEF TypeOK
    <3>4. \A n \in Message : turn'[n] = IF n = m THEN "pending" ELSE turn[n]
      BY <1>3, <1>4, <3>2, <3>3
    <3>5. QED
      BY <3>4 DEF turn
  <2>3. QED
    BY <1>3, <2>1, <2>2 DEF TD!Call
<1>8. ASSUME NEW m \in Message, Continue(m) \/ Timeout(m)
      PROVE  TD!Throws \/ UNCHANGED TD!vars
  <2>1. item' = item
    BY <1>1, <1>8, SendActs DEF history, shown
  <2>2. pc[m] \in Request \/ pc' = pc
    BY <1>8 DEF Continue, ResumeReturns, StartReturns, TurnReturns, Timeout, Request
  <2>3. pc' = pc \/ \E s \in Request \cup {"waiting", "rejected"} : pc' = [pc EXCEPT ![m] = s]
    BY <1>8 DEF Continue, ResumeReturns, StartReturns, TurnReturns, Timeout, Ask, Reject, Request
  <2>4. CASE pc' = [pc EXCEPT ![m] = "rejected"] /\ pc[m] \in Request
    <3>1. /\ {m} \in SUBSET Message /\ {} \in SUBSET Message /\ {} \subseteq {m}
          /\ \A n \in {m} : turn[n] = "pending"
      BY <1>3, <2>4, Methods DEF Settled
    <3>2. \A n \in Message : turn'[n] = IF n \in {m} THEN "rejected" ELSE turn[n]
      BY <1>1, <1>3, <1>4, <2>4 DEF TypeOK, Settled
    <3>3. QED
      BY <1>5, <2>1, <3>1, <3>2
  <2>5. ASSUME NEW s \in Request \cup {"waiting"}, pc' = [pc EXCEPT ![m] = s], pc[m] \in Request
        PROVE  UNCHANGED TD!vars
    <3>1. \A n \in Message : turn'[n] = turn[n]
      <4>1. s # "new" /\ s \notin Settled /\ pc[m] # "new" /\ pc[m] \notin Settled
        BY <2>5, Methods DEF Settled
      <4>2. \A n \in Message : pc'[n] = IF n = m THEN s ELSE pc[n]
        BY <1>1, <2>5 DEF TypeOK
      <4>3. QED
        BY <1>3, <1>4, <4>1, <4>2
    <3>2. QED
      BY <1>6, <2>1, <3>1
  <2>6. CASE pc' = pc
    BY <1>3, <1>4, <1>6, <2>1, <2>6
  <2>7. QED
    BY <2>2, <2>3, <2>4, <2>5, <2>6
<1>9. ASSUME Read
      PROVE  UNCHANGED TD!vars \/ \E m \in Message : TD!Completes(m) \/ TD!Fails(m)
  <2> DEFINE line == inbox[1]
             m == line.turn
  <2>1. /\ m \in Message
        /\ ReadResponse(line) \/ ReadAsk(line) \/ ReadTool(line) \/ ReadEnd(line)
    BY <1>1, <1>9, Reads, LineTypes
  <2>2. line.type \in OfTurn => pc[m] = "waiting" \/ m \in aborted
    BY <1>9, ReadWaits
  <2> HIDE DEF m, line
  <2>3. CASE UNCHANGED <<pc, item>>
    BY <1>3, <1>4, <1>6, <2>3
  <2>4. CASE ReadEnd(line) /\ m \notin aborted
    <3>1. /\ line.type \in {"completed", "failed"} /\ pc[m] = "waiting"
          /\ item' = [item EXCEPT ![m] = line.type]
          /\ pc' = [pc EXCEPT ![m] = IF line.type = "failed" THEN "rejected" ELSE "resolved"]
      BY <2>2, <2>4 DEF ReadEnd, FinalizeTurn, OfTurn, m
    <3>2. turn[m] = "pending" /\ item[m] = "open"
      BY <1>2, <1>3, <2>1, <3>1 DEF Settled
    <3>3. turn' = [turn EXCEPT ![m] = IF line.type = "failed" THEN "rejected" ELSE "resolved"]
      BY <1>1, <1>3, <1>4, <2>1, <3>1 DEF turn, TypeOK, Settled
    <3>4. QED
      BY <2>1, <3>1, <3>2, <3>3 DEF TD!Completes, TD!Fails, TD!Report
  <2>5. QED
    BY <2>1, <2>3, <2>4 DEF ReadResponse, ReadAsk, ReadTool, ReadEnd, driver, shown, m
<1>10. ASSUME Abort PROVE TD!Resolves
  <2>1. /\ pc' = [m \in Message |-> IF m \in Waiting THEN "resolved" ELSE pc[m]]
        /\ item' = item
    BY <1>10 DEF Abort, shown
  <2>2. Waiting \in SUBSET Message /\ \A m \in Waiting : turn[m] = "pending" /\ item[m] # "failed"
    BY <1>2, <1>3 DEF Waiting, Settled
  <2>3. \A m \in Message : turn'[m] = IF m \in Waiting THEN "resolved" ELSE turn[m]
    BY <1>3, <1>4, <2>1 DEF Settled
  <2>4. turn' = [m \in Message |-> IF m \in Waiting THEN "resolved" ELSE turn[m]]
    BY <2>3 DEF turn
  <2>5. QED
    BY <2>1, <2>2, <2>4 DEF TD!Resolves
<1>11. ASSUME Close PROVE TD!Throws
  <2> DEFINE F == {activeTurnId} \cap Waiting
  <2>1. pc' = [m \in Message |-> IF m \in Waiting THEN "rejected" ELSE pc[m]]
    BY <1>11 DEF Close
  <2>2. \A m \in Message : item'[m] = IF m \in F THEN "failed" ELSE item[m]
    BY <1>1, <1>11 DEF Close, TypeOK
  <2>3. /\ Waiting \in SUBSET Message /\ F \in SUBSET Message /\ F \subseteq Waiting
        /\ \A m \in Waiting : turn[m] = "pending"
    BY <1>3 DEF Waiting, Settled
  <2>4. \A m \in Message : turn'[m] = IF m \in Waiting THEN "rejected" ELSE turn[m]
    BY <1>3, <1>4, <2>1 DEF Settled
  <2> HIDE DEF F
  <2>5. QED
    BY <1>5, <2>2, <2>3, <2>4
<1>12. CASE UNCHANGED <<pc, item>>
  BY <1>3, <1>4, <1>6, <1>12
<1>13. CASE ~UNCHANGED <<pc, item>>
  <2>1. \/ Read \/ Abort \/ Close
        \/ \E m \in Message : SendCall(m) \/ Continue(m) \/ Timeout(m)
    <3>1. Dispose \/ UNCHANGED vars => UNCHANGED <<pc, item>>
      BY DEF Dispose, vars, driver, history, shown
    <3>2. ServerTakes \/ (\E m \in Message : ServerAsks(m) \/ ServerCalls(m) \/ ServerEnds(m))
             => UNCHANGED <<pc, item>>
      BY <1>1, Served, ServerActs DEF driver, history, shown
    <3>3. (\E m \in Message : Judge(m) \/ Respond(m)) => UNCHANGED <<pc, item>>
      BY <1>1, PromptActs DEF driver, shown
    <3>4. QED
      BY <1>13, <3>1, <3>2, <3>3 DEF Next
  <2>2. QED
    BY <1>7, <1>8, <1>9, <1>10, <1>11, <2>1 DEF TD!Next
<1>14. QED
  BY <1>12, <1>13

LEMMA RefinementInit == Init => TD!Init
BY DEF Init, TD!Init, turn

(* The driver keeps what the eager scaffold relies on: one terminal item   *)
(* for each turn, while its send is pending, that agrees with how the send *)
(* settles, across aborts, failures, timeouts and the loss of the process  *)
(* (app-server-driver.ts with app-server-client.ts).                       *)
THEOREM DriverRefinement ==
    ASSUME Orderly
    PROVE  Spec => ImplementsTurnDriver
<1>1. OrderInv /\ [Next]_vars => [TD!Next]_TD!vars
  BY RefinementStep
<1>2. QED
  BY <1>1, OrderInit, OrderStep, RefinementInit, PTL DEF Spec, ImplementsTurnDriver, TD!Spec
=============================================================================

----------------------------- MODULE CodexDriver -----------------------------
(***************************************************************************)
(* The Codex driver and its JSON-RPC client, over the process they talk to *)
(* (providers/src/codex/app-server-driver.ts and app-server-client.ts).    *)
(*                                                                         *)
(* A send is up to three requests, thread/resume, thread/start and         *)
(* turn/start, and then the wait for turn/completed.  An action is the     *)
(* code between two awaits.  The continuation of a request that was        *)
(* answered is a microtask: it runs before the next task, but the lines    *)
(* that came in one chunk of the process's output are handled in the same  *)
(* task ("chunked").                                                       *)
(*                                                                         *)
(* A message names its turn and the one approval the turn may ask for.  A  *)
(* definition that no other refers to is a slip of the one after it.       *)
(*                                                                         *)
(* Of the items that end no turn, the start and the end of one tool call   *)
(* stand for all: they are filtered and named alike.  Left out: stashed    *)
(* errors and token usage (data of the terminal items), and the requests   *)
(* that are answered without the host.                                     *)
(***************************************************************************)
EXTENDS Sequences, Naturals

CONSTANTS
    Message,     \* the messages a host may send
    Resumed,     \* the host configured the id of an earlier thread
    Env          \* what hosts and the process may do; see EnvKinds

EnvKinds ==
    {"abort",      \* the host calls abort() while a turn runs
     "early",      \* or while a request of a send is awaited
     "dispose",    \* the host calls dispose(), which closes the client
     "asks",       \* turns ask for an approval
     "works",      \* turns call a tool
     "fails",      \* requests and turns may fail
     "slow",       \* a request for a thread may time out
     "orphan",     \* turn/start may time out although the turn is started
     "dies",       \* the process may exit
     "flush",      \* lines it wrote are read after its exit event
     "chunked"}    \* lines are read before the continuation of a response

ASSUME CodexAssumption == Env \subseteq EnvKinds /\ Resumed \in BOOLEAN

NoTurn == "no turn"
ASSUME TurnAssumption == NoTurn \notin Message

VARIABLES
    threadId,      \* a thread id is known
    initialized,   \* threadInitialized
    pc,            \* pc[m]: the request or the turn that the send of m awaits
    req,           \* req[m]: the request of m in the client's pending map
    activeTurnId,  \* the turn abort() would interrupt
    aborted,       \* abortedTurnIds
    turnAliases,   \* the turns known by the id the host gave them
    prompt,        \* prompt[m]: the approval of m
    disposed,      \* the driver was disposed of, the client closed
    alive,         \* the process runs
    outbox,        \* written to the process, not yet read by it
    inbox,         \* written by the process, not yet read
    srv,           \* srv[m]: the turn of m in the process
    item,          \* history: the terminal item on the timeline for m
    tool,          \* history: what the timeline shows of the tool call of m
    names,         \* history: whose ids the items of m carry
    stopped,       \* history: the sends in flight when abort() was called
    answers        \* history: answers[m]: answers to the approval of m, up to 2

driver == <<threadId, initialized, pc, req, activeTurnId>>
filter == <<aborted, turnAliases>>
wire == <<outbox, inbox, alive>>
shown == <<item, tool, names>>
history == <<shown, stopped, answers>>
vars == <<driver, filter, prompt, disposed, wire, srv, history>>

Request == {"resume", "start", "turn"}

(* The types; and the client has an entry for a request exactly while the  *)
(* send awaits that request, whenever its answer comes.                    *)
TypeOK ==
    /\ {threadId, initialized, disposed, alive} \subseteq BOOLEAN
    /\ pc \in [Message -> Request \cup {"new", "waiting", "resolved", "rejected"}]
    /\ req \in [Message -> {"none", "open", "answered", "failed"}]
    /\ activeTurnId \in Message \cup {NoTurn}
    /\ aborted \cup turnAliases \cup stopped \subseteq Message
    /\ prompt \in [Message -> {"none", "judging", "open", "over"}]
    /\ outbox \in Seq([type : Request \cup {"interrupt", "answer", "cancel"}, turn : Message])
    /\ inbox \in Seq([type : {"ok", "error"}, to : Request, turn : Message] \cup
                     [type : {"ask", "call", "result", "completed", "failed"}, turn : Message])
    /\ srv \in [Message -> {"none", "running", "asking", "working", "worked", "over"}]
    /\ item \in [Message -> {"open", "completed", "failed"}]
    /\ tool \in [Message -> {"none", "running", "over"}]
    /\ names \in [Message -> SUBSET {"host", "provider"}]
    /\ answers \in [Message -> 0..2]
    /\ \A m \in Message : req[m] = "none" <=> pc[m] \notin Request

Init ==
    /\ threadId = Resumed
    /\ initialized = FALSE
    /\ pc = [m \in Message |-> "new"]
    /\ req = [m \in Message |-> "none"]
    /\ activeTurnId = NoTurn
    /\ aborted = {}
    /\ turnAliases = {}
    /\ prompt = [m \in Message |-> "none"]
    /\ disposed = FALSE
    /\ alive = TRUE
    /\ outbox = <<>>
    /\ inbox = <<>>
    /\ srv = [m \in Message |-> "none"]
    /\ item = [m \in Message |-> "open"]
    /\ tool = [m \in Message |-> "none"]
    /\ names = [m \in Message |-> {}]
    /\ stopped = {}
    /\ answers = [m \in Message |-> 0]

-----------------------------------------------------------------------------
InFlight(m) == pc[m] \in Request \cup {"waiting"}

(* No continuation is due.                                                 *)
NextTask == \A m \in Message : req[m] \notin {"answered", "failed"}

(* Writing to a process that is gone has no effect.                        *)
Write(type, m) ==
    outbox' = IF alive THEN Append(outbox, [type |-> type, turn |-> m]) ELSE outbox

Ask(m, method) ==
    /\ pc' = [pc EXCEPT ![m] = method]
    /\ req' = [req EXCEPT ![m] = "open"]
    /\ Write(method, m)

Reject(m) ==
    /\ pc' = [pc EXCEPT ![m] = "rejected"]
    /\ req' = [req EXCEPT ![m] = "none"]

(* driver.sendMessage(m).  The scaffold calls it while another send is in  *)
(* flight only after an abort.                                             *)
SendCall(m) ==
    /\ pc[m] = "new"
    /\ ~disposed
    /\ \A n \in Message : InFlight(n) => n \in stopped
    /\ Ask(m, IF initialized THEN "turn" ELSE IF threadId THEN "resume" ELSE "start")
    /\ UNCHANGED <<threadId, initialized, activeTurnId, filter, prompt, disposed>>
    /\ UNCHANGED <<inbox, alive, srv, history>>

(* A thread that cannot be resumed is replaced by a new one.               *)
ResumeReturns(m) ==
    /\ pc[m] = "resume"
    /\ \/ /\ req[m] = "answered"
          /\ threadId' = TRUE
          /\ initialized' = TRUE
          /\ Ask(m, "turn")
       \/ /\ req[m] = "failed"
          /\ threadId' = FALSE
          /\ Ask(m, "start")
          /\ UNCHANGED initialized
    /\ UNCHANGED <<activeTurnId, filter, prompt, disposed, inbox, alive, srv, history>>

StartReturns(m) ==
    /\ pc[m] = "start"
    /\ \/ /\ req[m] = "answered"
          /\ threadId' = TRUE
          /\ initialized' = TRUE
          /\ Ask(m, "turn")
       \/ /\ req[m] = "failed"
          /\ Reject(m)
          /\ UNCHANGED <<threadId, initialized, outbox>>
    /\ UNCHANGED <<activeTurnId, filter, prompt, disposed, inbox, alive, srv, history>>

(* From here on the send waits in pendingTurns.                            *)
TurnReturns(m) ==
    /\ pc[m] = "turn"
    /\ \/ /\ req[m] = "answered"
          /\ pc' = [pc EXCEPT ![m] = "waiting"]
          /\ req' = [req EXCEPT ![m] = "none"]
          /\ activeTurnId' = m
          /\ turnAliases' = turnAliases \cup {m}
       \/ /\ req[m] = "failed"
          /\ Reject(m)
          /\ UNCHANGED <<activeTurnId, turnAliases>>
    /\ UNCHANGED <<threadId, initialized, aborted, prompt, disposed, wire, srv, history>>

(* The timer of a request fires.                                           *)
Timeout(m) ==
    /\ NextTask
    /\ req[m] = "open"
    /\ \/ ~alive
       \/ "slow" \in Env /\ (pc[m] = "turn" => "orphan" \in Env)
    /\ req' = [req EXCEPT ![m] = "failed"]
    /\ UNCHANGED <<threadId, initialized, pc, activeTurnId>>
    /\ UNCHANGED <<filter, prompt, disposed, wire, srv, history>>

-----------------------------------------------------------------------------
(* The client reads a line.                                                *)

(* handleResponse: an answer that comes too late finds no entry.           *)
ReadResponseUnchecked(line) ==
    /\ line.type \in {"ok", "error"}
    /\ req' = [req EXCEPT ![line.turn] = IF line.type = "ok" THEN "answered" ELSE "failed"]
    /\ UNCHANGED <<threadId, initialized, pc, activeTurnId, filter, prompt, shown>>

ReadResponse(line) ==
    /\ line.type \in {"ok", "error"}
    /\ req' = IF pc[line.turn] = line.to /\ req[line.turn] = "open"
              THEN [req EXCEPT ![line.turn] = IF line.type = "ok" THEN "answered" ELSE "failed"]
              ELSE req
    /\ UNCHANGED <<threadId, initialized, pc, activeTurnId, filter, prompt, shown>>

(* handleServerRequest up to the policy's verdict.                         *)
ReadAsk(line) ==
    /\ line.type = "ask"
    /\ prompt' = [prompt EXCEPT ![line.turn] = "judging"]
    /\ UNCHANGED <<driver, filter, shown>>

(* The items of a turn that was aborted here are dropped.                  *)
Named(m) ==
    names' = [names EXCEPT ![m] = @ \cup {IF m \in turnAliases THEN "host" ELSE "provider"}]

ReadToolUnfiltered(line) ==
    /\ line.type \in {"call", "result"}
    /\ tool' = [tool EXCEPT ![line.turn] = IF line.type = "call" THEN "running" ELSE "over"]
    /\ Named(line.turn)
    /\ UNCHANGED <<driver, filter, prompt, item>>

ReadTool(line) ==
    /\ line.type \in {"call", "result"}
    /\ IF line.turn \in aborted
       THEN UNCHANGED <<tool, names>>
       ELSE /\ tool' = [tool EXCEPT ![line.turn] =
                           IF line.type = "call" THEN "running" ELSE "over"]
            /\ Named(line.turn)
    /\ UNCHANGED <<driver, filter, prompt, item>>

(* turn/completed with its status.  That of a turn aborted here is dropped; *)
(* otherwise a terminal item is appended, and finalizeTurn settles a send   *)
(* that waits and forgets the turn.                                         *)
FinalizeTurn(m, type) ==
    /\ item' = [item EXCEPT ![m] = type]
    /\ Named(m)
    /\ pc' = IF pc[m] = "waiting"
             THEN [pc EXCEPT ![m] = IF type = "failed" THEN "rejected" ELSE "resolved"]
             ELSE pc
    /\ turnAliases' = turnAliases \ {m}

ReadEnd(line) ==
    /\ line.type \in {"completed", "failed"}
    /\ IF line.turn \in aborted
       THEN /\ aborted' = aborted \ {line.turn}
            /\ UNCHANGED <<pc, item, names, turnAliases>>
       ELSE /\ FinalizeTurn(line.turn, line.type)
            /\ UNCHANGED aborted
    /\ UNCHANGED <<threadId, initialized, req, activeTurnId, prompt, tool>>

Read ==
    /\ NextTask \/ "chunked" \in Env
    /\ inbox # <<>>
    /\ ~disposed
    /\ inbox' = Tail(inbox)
    /\ LET line == Head(inbox)
       IN  ReadResponse(line) \/ ReadAsk(line) \/ ReadTool(line) \/ ReadEnd(line)
    /\ UNCHANGED <<disposed, outbox, alive, srv, stopped, answers>>

-----------------------------------------------------------------------------
(* Approvals.                                                              *)

Answered(m) == answers' = [answers EXCEPT ![m] = IF @ < 2 THEN @ + 1 ELSE @]

(* The policy decides, or leaves the decision to the host.                 *)
Judge(m) ==
    /\ prompt[m] = "judging"
    /\ \/ prompt' = [prompt EXCEPT ![m] = "over"] /\ Write("answer", m) /\ Answered(m)
       \/ prompt' = [prompt EXCEPT ![m] = "open"] /\ UNCHANGED <<outbox, answers>>
    /\ UNCHANGED <<driver, filter, disposed, inbox, alive, srv, shown, stopped>>

(* respondToPermission: an answer, or the interruption of the turn.        *)
RespondAgain(m) ==
    /\ prompt[m] = "open"
    /\ \E answer \in {"answer", "cancel"} : Write(answer, m)
    /\ Answered(m)
    /\ UNCHANGED <<driver, filter, prompt, disposed, inbox, alive, srv, shown, stopped>>

Respond(m) ==
    /\ prompt[m] = "open"
    /\ prompt' = [prompt EXCEPT ![m] = "over"]
    /\ \E answer \in {"answer", "cancel"} : Write(answer, m)
    /\ Answered(m)
    /\ UNCHANGED <<driver, filter, disposed, inbox, alive, srv, shown, stopped>>

-----------------------------------------------------------------------------
(* The prompts that the driver forgets.                                    *)
Forgotten == [m \in Message |-> IF prompt[m] = "open" THEN "over" ELSE prompt[m]]

Waiting == {m \in Message : pc[m] = "waiting"}

AbortCall ==
    /\ "abort" \in Env
    /\ ~disposed
    /\ "early" \in Env \/ \A m \in Message : pc[m] \notin Request

(* abort(): the active turn, if any, is interrupted, and every send that   *)
(* waits for the end of its turn resolves.                                 *)
AbortWithoutResolving ==
    /\ AbortCall
    /\ IF threadId /\ activeTurnId # NoTurn
       THEN /\ aborted' = aborted \cup {activeTurnId}
            /\ turnAliases' = turnAliases \ {activeTurnId}
            /\ Write("interrupt", activeTurnId)
       ELSE UNCHANGED <<filter, outbox>>
    /\ activeTurnId' = NoTurn
    /\ stopped' = stopped \cup {m \in Message : InFlight(m)}
    /\ UNCHANGED <<threadId, initialized, pc, req, prompt, disposed>>
    /\ UNCHANGED <<inbox, alive, srv, shown, answers>>

Abort ==
    /\ AbortCall
    /\ IF threadId /\ activeTurnId # NoTurn
       THEN /\ aborted' = aborted \cup {activeTurnId}
            /\ turnAliases' = turnAliases \ {activeTurnId}
            /\ Write("interrupt", activeTurnId)
       ELSE UNCHANGED <<filter, outbox>>
    /\ pc' = [m \in Message |-> IF m \in Waiting THEN "resolved" ELSE pc[m]]
    /\ activeTurnId' = NoTurn
    /\ stopped' = stopped \cup {m \in Message : InFlight(m)}
    /\ UNCHANGED <<threadId, initialized, req, prompt, disposed>>
    /\ UNCHANGED <<inbox, alive, srv, shown, answers>>

(* The client rejects what is in its pending map.                          *)
Refused == [m \in Message |-> IF req[m] = "open" THEN "failed" ELSE req[m]]

(* dispose() and the client's close(): sends that wait are forgotten.      *)
Dispose ==
    /\ "dispose" \in Env
    /\ ~disposed
    /\ disposed' = TRUE
    /\ alive' = FALSE
    /\ outbox' = <<>>
    /\ inbox' = <<>>
    /\ prompt' = Forgotten
    /\ req' = Refused
    /\ UNCHANGED <<threadId, initialized, pc, activeTurnId, filter, srv, history>>

(* The process exits: handleTransportClosed.                               *)
CloseUnchecked ==
    /\ "dies" \in Env
    /\ NextTask
    /\ alive
    /\ alive' = FALSE
    /\ outbox' = <<>>
    /\ inbox' = IF "flush" \in Env THEN inbox ELSE <<>>
    /\ IF activeTurnId # NoTurn
       THEN item' = [item EXCEPT ![activeTurnId] = "failed"] /\ Named(activeTurnId)
       ELSE UNCHANGED <<item, names>>
    /\ pc' = [m \in Message |-> IF m \in Waiting THEN "rejected" ELSE pc[m]]
    /\ req' = Refused
    /\ prompt' = Forgotten
    /\ activeTurnId' = NoTurn
    /\ UNCHANGED <<threadId, initialized, filter, disposed, srv, tool, stopped, answers>>

Close ==
    /\ "dies" \in Env
    /\ NextTask
    /\ alive
    /\ alive' = FALSE
    /\ outbox' = <<>>
    /\ inbox' = IF "flush" \in Env THEN inbox ELSE <<>>
    /\ IF activeTurnId \in Waiting
       THEN item' = [item EXCEPT ![activeTurnId] = "failed"] /\ Named(activeTurnId)
       ELSE UNCHANGED <<item, names>>
    /\ pc' = [m \in Message |-> IF m \in Waiting THEN "rejected" ELSE pc[m]]
    /\ req' = Refused
    /\ prompt' = Forgotten
    /\ activeTurnId' = NoTurn
    /\ UNCHANGED <<threadId, initialized, filter, disposed, srv, tool, stopped, answers>>

-----------------------------------------------------------------------------
(* The process.                                                            *)

Line(type, m) == [type |-> type, turn |-> m]

Says(lines) == inbox' = inbox \o lines

(* It takes a line: a request is answered, an interruption ends a turn, an *)
(* approval lets it go on.                                                 *)
Serve(m, type) ==
    \/ /\ type \in Request
       /\ Says(<<[type |-> "ok", to |-> type, turn |-> m]>>)
       /\ srv' = IF type = "turn" THEN [srv EXCEPT ![m] = "running"] ELSE srv
    \/ /\ type \in Request
       /\ "fails" \in Env
       /\ Says(<<[type |-> "error", to |-> type, turn |-> m]>>)
       /\ UNCHANGED srv
    \/ /\ type \in {"interrupt", "cancel"}
       /\ srv[m] \in {"running", "asking", "working", "worked"}
       /\ srv' = [srv EXCEPT ![m] = "over"]
       /\ Says(<<Line("completed", m)>>)
    \/ /\ type \in {"interrupt", "cancel"}
       /\ srv[m] = "over"
       /\ UNCHANGED <<srv, inbox>>
    \/ /\ type = "answer"
       /\ srv' = IF srv[m] = "asking" THEN [srv EXCEPT ![m] = "running"] ELSE srv
       /\ UNCHANGED inbox

ServerTakes ==
    /\ alive
    /\ outbox # <<>>
    /\ outbox' = Tail(outbox)
    /\ Serve(Head(outbox).turn, Head(outbox).type)
    /\ UNCHANGED <<driver, filter, prompt, disposed, alive, history>>

ServerAsks(m) ==
    /\ "asks" \in Env
    /\ alive
    /\ srv[m] = "running"
    /\ prompt[m] = "none"
    /\ srv' = [srv EXCEPT ![m] = "asking"]
    /\ Says(<<Line("ask", m)>>)
    /\ UNCHANGED <<driver, filter, prompt, disposed, outbox, alive, history>>

ServerCalls(m) ==
    /\ "works" \in Env
    /\ alive
    /\ \/ /\ srv[m] = "running"
          /\ srv' = [srv EXCEPT ![m] = "working"]
          /\ Says(<<Line("call", m)>>)
       \/ /\ srv[m] = "working"
          /\ srv' = [srv EXCEPT ![m] = "worked"]
          /\ Says(<<Line("result", m)>>)
    /\ UNCHANGED <<driver, filter, prompt, disposed, outbox, alive, history>>

ServerEnds(m) == \E type \in {"completed", "failed"} :
    /\ alive
    /\ srv[m] \in {"running", "working", "worked"}
    /\ type = "failed" => "fails" \in Env
    /\ srv' = [srv EXCEPT ![m] = "over"]
    /\ Says(<<Line(type, m)>>)
    /\ UNCHANGED <<driver, filter, prompt, disposed, outbox, alive, history>>

-----------------------------------------------------------------------------
Continue(m) == ResumeReturns(m) \/ StartReturns(m) \/ TurnReturns(m)

Next ==
    \/ Read \/ Abort \/ Dispose \/ Close \/ ServerTakes
    \/ \E m \in Message :
          \/ SendCall(m) \/ Continue(m) \/ Timeout(m)
          \/ Judge(m) \/ Respond(m)
          \/ ServerAsks(m) \/ ServerCalls(m) \/ ServerEnds(m)

Spec == Init /\ [][Next]_vars

(* Promises go on, timers fire, the policy and the host decide, and a      *)
(* process that lives reads its input and ends its turns.                  *)
FairSpec ==
    /\ Spec
    /\ WF_vars(Read)
    /\ WF_vars(ServerTakes)
    /\ \A m \in Message :
          /\ WF_vars(Continue(m)) /\ WF_vars(Timeout(m))
          /\ WF_vars(Judge(m)) /\ WF_vars(Respond(m)) /\ WF_vars(ServerEnds(m))

-----------------------------------------------------------------------------
(* Correctness.                                                            *)

(* The driver keeps what the eager scaffold relies on: terminal items come *)
(* while the send is pending, once, and agree with how it settles.  A late *)
(* answer of the process, a lost process and an abort do not change that.  *)
turn == [m \in Message |->
            IF pc[m] = "new" THEN "idle"
            ELSE IF pc[m] \in {"resolved", "rejected"} THEN pc[m] ELSE "pending"]

TD == INSTANCE TurnDriver WITH Swallows <- FALSE

ImplementsTurnDriver == TD!Spec

(* "no late terminal item is emitted": no terminal item is appended for a   *)
(* turn that was aborted or has completed, and its tool call is shown as it *)
(* was, whatever items of it were on their way.  Its approval is another    *)
(* matter: handleServerRequest does not ask whether the turn was aborted,   *)
(* so that Judge may still open one.                                        *)
LateItemsDropped ==
    [][\A m \in Message : pc[m] = "resolved" =>
          item'[m] = item[m] /\ tool'[m] = tool[m]]_vars

(* All that the timeline shows of a turn, up to a late end or the loss of   *)
(* the process, goes by the id the host gave it.                            *)
OneName == \A m \in Message : names[m] \subseteq {"host"}

(* An approval the process asks for is answered once: by the policy or by  *)
(* the host, never by both, and never twice by a host that asks twice.     *)
AnsweredOnce == \A m \in Message : answers[m] <= 1

NamesAndAnswers == OneName /\ AnsweredOnce

(* Every send settles, whatever fails, times out or dies.                  *)
SendSettles ==
    \A m \in Message : InFlight(m) ~> (~InFlight(m) \/ disposed)

(* Every approval that was asked for is answered: the turn does not hang.  *)
AskedIsAnswered ==
    \A m \in Message : srv[m] = "asking" ~> (srv[m] # "asking" \/ ~alive)

NothingHangs == SendSettles /\ AskedIsAnswered
=============================================================================

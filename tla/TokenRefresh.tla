---------------------------- MODULE TokenRefresh ----------------------------
(***************************************************************************)
(* The refreshing of a source's token: TokenRefreshManager, of which each  *)
(* session has its own (sources/src/token-refresh-manager.ts), over the    *)
(* one SourceCredentialManager of the process (credential-manager.ts) and  *)
(* a provider that may rotate what a refresh presents to it.               *)
(*                                                                         *)
(* Tokens are numbered as they are issued; 0 is none.  The store answers   *)
(* without input or output, so that between a task and what it awaits of   *)
(* the store only continuations run.  An action is the code between two    *)
(* awaits.                                                                 *)
(*                                                                         *)
(* Left out: the copy of the status in the session's memory, the texts of  *)
(* errors, a second process on the same store, and sources of other        *)
(* workspaces, which share pendingRefreshes if their slugs are the same.   *)
(* A definition that no other refers to is a slip of the one after it.     *)
(***************************************************************************)
EXTENDS Naturals

CONSTANTS
    Session,     \* the sessions that use the source
    Slot,        \* the calls a session may have under way
    Refresh,     \* refreshes that may be under way
    MaxToken,    \* bound: tokens
    Env          \* what hosts and the provider may do; see EnvKinds

EnvKinds ==
    {"logins",     \* the user authenticates the source again
     "deletes",    \* the host deletes its credential
     "selfsaves",  \* the host saves what a refresh got by itself
     "crosses",    \* while a refresh is under way the user authenticates, or the
                   \* host deletes, or the process restarts once the host saved
     "lost",       \* the provider refreshes but its answer is an error
     "restarts"}   \* the process is restarted

ASSUME TokenAssumption == Env \subseteq EnvKinds /\ MaxToken \in Nat \ {0}

NoRefresh == "no refresh"
ASSUME RefreshAssumption == NoRefresh \notin Refresh

VARIABLES
    renews,      \* the source has a renew endpoint instead of refresh tokens
    cred,        \* its credential in the store
    status,      \* connectionStatus in its configuration
    pending,     \* pendingRefreshes
    refresh,     \* refresh[r]: a run of doRefresh
    cooling,     \* cooling[s]: failedAttempts of s, within the cooldown
    pc,          \* pc[c]: what the call c of ensureFreshToken awaits
    told,        \* told[c]: what refresh() resolved to for c
    issued,      \* the provider: tokens so far
    valid,       \* what it accepts in a refresh
    forgotten    \* history: what it took without the store learning of it

store == <<cred, status>>
provider == <<issued, valid, forgotten>>
vars == <<renews, store, pending, refresh, cooling, pc, told, provider>>

Caller == Session \X Slot
Token == 0..MaxToken

(* "key" is the refresh token, or the token itself when it is renewed;     *)
(* "fresh" says that it has an expiry, and that is not near.               *)
Credential == [value : Token, key : Token, fresh : BOOLEAN]
NoCredential == [value |-> 0, key |-> 0, fresh |-> FALSE]

Idle == [stage |-> "idle", by |-> NoCredential, token |-> 0, rotated |-> FALSE, saved |-> FALSE]

UnderWay == {r \in Refresh : refresh[r].stage # "idle"}

(* The types; and what is pending is under way.                            *)
TypeOK ==
    /\ renews \in BOOLEAN /\ cred \in Credential /\ status \in {"connected", "needs_auth"}
    /\ refresh \in [Refresh -> [stage : {"idle", "empty", "asking", "granted", "denied"},
                               by : Credential, token : Token,
                               rotated : BOOLEAN, saved : BOOLEAN]]
    /\ cooling \in [Session -> BOOLEAN]
    /\ pc \in [Caller -> {"idle", "loaded", "waiting", "told"}]
    /\ told \in [Caller -> Token]
    /\ issued \in Token /\ valid \cup forgotten \subseteq Token \ {0}
    /\ pending # NoRefresh => pending \in UnderWay

Init ==
    /\ renews \in BOOLEAN
    /\ issued = 1 /\ valid = {1} /\ forgotten = {}
    /\ cred \in {NoCredential, [value |-> 1, key |-> 1, fresh |-> TRUE]}
                \cup {[value |-> 1, key |-> 0, fresh |-> TRUE] : r \in {FALSE} \cap {renews}}
    /\ status = "connected"
    /\ pending = NoRefresh /\ refresh = [r \in Refresh |-> Idle]
    /\ cooling = [s \in Session |-> FALSE]
    /\ pc = [c \in Caller |-> "idle"] /\ told = [c \in Caller |-> 0]

(* No continuation is left.                                                *)
NextTask == \A c \in Caller : pc[c] \notin {"loaded", "told"}

-----------------------------------------------------------------------------
(* ensureFreshToken.                                                       *)

(* The calls C are made in one task, each up to the answer of the store;   *)
(* in the cooldown of its session a call is refused.                       *)
CallInCooldown(C) ==
    /\ NextTask
    /\ C # {} /\ \A c \in C : pc[c] = "idle"
    /\ pc' = [c \in Caller |-> IF c \in C THEN "loaded" ELSE pc[c]]
    /\ UNCHANGED <<renews, store, pending, refresh, cooling, told, provider>>

Call(C) ==
    /\ NextTask
    /\ C # {} /\ \A c \in C : pc[c] = "idle" /\ ~cooling[c[1]]
    /\ pc' = [c \in Caller |-> IF c \in C THEN "loaded" ELSE pc[c]]
    /\ UNCHANGED <<renews, store, pending, refresh, cooling, told, provider>>

(* A credential that cannot be refreshed, or need not be, is used as it is.*)
NeedsRefresh == cred.value = 0 \/ (cred.key # 0 /\ ~cred.fresh)

UseToken(c) ==
    /\ pc[c] = "loaded"
    /\ ~NeedsRefresh
    /\ pc' = [pc EXCEPT ![c] = "idle"]
    /\ UNCHANGED <<renews, store, pending, refresh, cooling, told, provider>>

(* doRefresh up to its request, which there is none of without credential. *)
DoRefresh(r) ==
    /\ refresh[r] = Idle
    /\ refresh' = [refresh EXCEPT
                      ![r].stage = IF cred.value = 0 THEN "empty" ELSE "asking",
                      ![r].by = cred]
    /\ pending' = r

(* refresh(): a call joins the refresh that is pending.                    *)
AskForItself(c) ==
    /\ pc[c] = "loaded"
    /\ NeedsRefresh
    /\ pc' = [pc EXCEPT ![c] = "waiting"]
    /\ \E r \in Refresh : DoRefresh(r)
    /\ UNCHANGED <<renews, store, cooling, told, provider>>

AskForToken(c) ==
    /\ pc[c] = "loaded"
    /\ NeedsRefresh
    /\ pc' = [pc EXCEPT ![c] = "waiting"]
    /\ IF pending # NoRefresh
       THEN UNCHANGED <<pending, refresh>>
       ELSE \E r \in Refresh : DoRefresh(r)
    /\ UNCHANGED <<renews, store, cooling, told, provider>>

(* After refresh(): the source's status follows what it resolved to.       *)
SettleWithoutRestoring(c) ==
    /\ pc[c] = "told"
    /\ pc' = [pc EXCEPT ![c] = "idle"]
    /\ told' = [told EXCEPT ![c] = 0]
    /\ cooling' = [cooling EXCEPT ![c[1]] = told[c] = 0]
    /\ status' = IF told[c] = 0 THEN "needs_auth" ELSE status
    /\ UNCHANGED <<renews, cred, pending, refresh, provider>>

Settle(c) ==
    /\ pc[c] = "told"
    /\ pc' = [pc EXCEPT ![c] = "idle"]
    /\ told' = [told EXCEPT ![c] = 0]
    /\ cooling' = [cooling EXCEPT ![c[1]] = told[c] = 0]
    /\ status' = IF told[c] = 0 THEN "needs_auth" ELSE "connected"
    /\ UNCHANGED <<renews, cred, pending, refresh, provider>>

-----------------------------------------------------------------------------
(* doRefresh after its request.                                            *)

(* What is saved goes back to the credential the refresh began with.       *)
Renewed(r, fresh) ==
    [refresh[r].by EXCEPT !.value = refresh[r].token, !.key = refresh[r].token, !.fresh = fresh]

RefreshedKeepingKey(r, fresh) ==
    [refresh[r].by EXCEPT !.value = refresh[r].token, !.fresh = fresh]

(* A refresh token that is not replaced is kept.                           *)
Refreshed(r, fresh) ==
    [value |-> refresh[r].token, fresh |-> fresh,
     key |-> IF refresh[r].rotated THEN refresh[r].token ELSE refresh[r].by.key]

Saved(r, fresh) == IF renews THEN Renewed(r, fresh) ELSE Refreshed(r, fresh)

ResolveAndStayPending(r, token) ==
    /\ refresh' = [refresh EXCEPT ![r] = Idle]
    /\ pc' = [c \in Caller |-> IF pc[c] = "waiting" THEN "told" ELSE pc[c]]
    /\ told' = [c \in Caller |-> IF pc[c] = "waiting" THEN token ELSE told[c]]
    /\ UNCHANGED pending

ResolveOne(r, token) ==
    /\ refresh' = [refresh EXCEPT ![r] = Idle]
    /\ pending' = NoRefresh
    /\ LET first == CHOOSE c \in Caller : pc[c] = "waiting"
       IN  pc' = [pc EXCEPT ![first] = "told"] /\ told' = [told EXCEPT ![first] = token]

(* refresh() resolves for all that wait, and no longer is pending.         *)
Resolve(r, token) ==
    /\ refresh' = [refresh EXCEPT ![r] = Idle]
    /\ pending' = NoRefresh
    /\ pc' = [c \in Caller |-> IF pc[c] = "waiting" THEN "told" ELSE pc[c]]
    /\ told' = [c \in Caller |-> IF pc[c] = "waiting" THEN token ELSE told[c]]

NothingToRefresh(r) ==
    /\ refresh[r].stage = "empty"
    /\ Resolve(r, 0)
    /\ UNCHANGED <<renews, store, cooling, provider>>

(* What the host saved by itself is read from the store.                   *)
RefreshReturns(r) ==
    /\ NextTask
    /\ refresh[r].stage = "granted"
    /\ IF refresh[r].saved
       THEN /\ UNCHANGED cred
            /\ status' = IF cred.value = 0 THEN "needs_auth" ELSE status
       ELSE /\ \E fresh \in BOOLEAN : cred' = Saved(r, fresh)
            /\ UNCHANGED status
    /\ Resolve(r, cred'.value)
    /\ UNCHANGED <<renews, cooling, provider>>

RefreshFails(r) ==
    /\ NextTask
    /\ refresh[r].stage = "denied"
    /\ status' = "needs_auth"
    /\ Resolve(r, 0)
    /\ UNCHANGED <<renews, cred, cooling, provider>>

-----------------------------------------------------------------------------
(* The provider.  It honours what it has not replaced, and may refuse it   *)
(* all the same.                                                           *)
Issue(r, rotates) ==
    /\ refresh[r].stage = "asking"
    /\ refresh[r].by.key \in valid
    /\ renews => rotates
    /\ issued < MaxToken
    /\ issued' = issued + 1
    /\ valid' = (IF rotates THEN valid \ {refresh[r].by.key} ELSE valid) \cup {issued'}

Grant(r) == \E rotates \in BOOLEAN :
    /\ Issue(r, rotates)
    /\ refresh' = [refresh EXCEPT ![r].stage = "granted",
                                  ![r].token = issued', ![r].rotated = rotates]
    /\ UNCHANGED <<renews, store, pending, cooling, pc, told, forgotten>>

HostSaves(r) ==
    /\ "selfsaves" \in Env
    /\ NextTask
    /\ ~renews
    /\ refresh[r].stage = "granted" /\ ~refresh[r].saved
    /\ \E fresh \in BOOLEAN : cred' = Refreshed(r, fresh)
    /\ refresh' = [refresh EXCEPT ![r].saved = TRUE]
    /\ UNCHANGED <<renews, status, pending, cooling, pc, told, provider>>

Deny(r) ==
    /\ refresh[r].stage = "asking"
    /\ refresh' = [refresh EXCEPT ![r].stage = "denied"]
    /\ UNCHANGED <<renews, store, pending, cooling, pc, told, provider>>

Lose(r) == \E rotates \in BOOLEAN :
    /\ "lost" \in Env
    /\ Issue(r, rotates)
    /\ refresh' = [refresh EXCEPT ![r].stage = "denied"]
    /\ forgotten' = forgotten \cup {refresh[r].by.key}
    /\ UNCHANGED <<renews, store, pending, cooling, pc, told>>

-----------------------------------------------------------------------------
(* Hosts, and time.                                                        *)
Crossing == "crosses" \in Env \/ UnderWay = {}

(* authenticate(), when the host has the tokens.                           *)
Authenticated ==
    /\ "logins" \in Env
    /\ NextTask
    /\ Crossing
    /\ issued < MaxToken
    /\ issued' = issued + 1
    /\ valid' = valid \cup {issued'}
    /\ cred' = [value |-> issued', key |-> issued', fresh |-> TRUE]
    /\ status' = "connected"
    /\ UNCHANGED <<renews, pending, refresh, cooling, pc, told, forgotten>>

Delete ==
    /\ "deletes" \in Env
    /\ NextTask
    /\ Crossing
    /\ cred' = NoCredential
    /\ UNCHANGED <<renews, status, pending, refresh, cooling, pc, told, provider>>

(* A cooldown ends after its time, or by clearCooldown().                  *)
ClearCooldown(s) ==
    /\ cooling[s]
    /\ cooling' = [cooling EXCEPT ![s] = FALSE]
    /\ UNCHANGED <<renews, store, pending, refresh, pc, told, provider>>

Expire ==
    /\ NextTask
    /\ cred.fresh
    /\ cred' = [cred EXCEPT !.fresh = FALSE]
    /\ UNCHANGED <<renews, status, pending, refresh, cooling, pc, told, provider>>

(* What the provider has granted and nobody saved is lost.                 *)
Restart ==
    /\ "restarts" \in Env
    /\ NextTask
    /\ "crosses" \in Env \/ \A r \in Refresh : ~refresh[r].saved
    /\ pending' = NoRefresh /\ refresh' = [r \in Refresh |-> Idle]
    /\ cooling' = [s \in Session |-> FALSE]
    /\ pc' = [c \in Caller |-> "idle"] /\ told' = [c \in Caller |-> 0]
    /\ forgotten' = forgotten \cup {refresh[r].by.key :
                        r \in {q \in UnderWay : refresh[q].stage = "granted" /\ ~refresh[q].saved}}
    /\ UNCHANGED <<renews, store, issued, valid>>

-----------------------------------------------------------------------------
Next ==
    \/ \E C \in SUBSET Caller : Call(C)
    \/ \E c \in Caller : UseToken(c) \/ AskForToken(c) \/ Settle(c)
    \/ \E r \in Refresh :
          \/ NothingToRefresh(r) \/ RefreshReturns(r) \/ RefreshFails(r)
          \/ Grant(r) \/ HostSaves(r) \/ Deny(r) \/ Lose(r)
    \/ \E s \in Session : ClearCooldown(s)
    \/ Authenticated \/ Delete \/ Expire \/ Restart

Spec == Init /\ [][Next]_vars

(* Continuations run, the provider's requests have an end, and an answer   *)
(* is not put off for ever by other tasks.                                 *)
FairSpec ==
    /\ Spec
    /\ \A c \in Caller : WF_vars(UseToken(c) \/ AskForToken(c)) /\ WF_vars(Settle(c))
    /\ \A r \in Refresh : /\ WF_vars(NothingToRefresh(r)) /\ WF_vars(Deny(r))
                          /\ SF_vars(RefreshReturns(r) \/ RefreshFails(r))

-----------------------------------------------------------------------------
(* Correctness.                                                            *)

(* "prevents race conditions (especially important for Microsoft which     *)
(* rotates refresh tokens)": whatever calls of whatever sessions coincide, *)
(* one request is under way at a time, it presents a token the provider    *)
(* still honours, unless an answer was lost, and none is made within the   *)
(* cooldown of the session it is made for.                                 *)
RefreshesAreRationed ==
    [][\A r \in Refresh :
          refresh[r].stage = "idle" /\ refresh'[r].stage = "asking" =>
              /\ UnderWay = {}
              /\ cred.key \in valid \cup forgotten
              /\ \E c \in Caller : pc'[c] # pc[c] /\ ~cooling[c[1]]]_vars

(* What calls are told is what the store holds then; what the store holds  *)
(* can be refreshed; and when all is quiet a source whose token is fresh   *)
(* is not shown as one that needs authentication.                          *)
OutcomeIsTrue ==
    /\ \A c \in Caller : pc[c] = "told" /\ told[c] # 0 => told[c] = cred.value
    /\ UnderWay = {} /\ cred.key # 0 => cred.key \in valid \cup forgotten
    /\ (\A c \in Caller : pc[c] = "idle") /\ status = "needs_auth" => ~cred.fresh

(* Every call comes to an end, however the refresh it joined ends.         *)
CallsEnd == \A c \in Caller : pc[c] # "idle" ~> pc[c] = "idle"
=============================================================================

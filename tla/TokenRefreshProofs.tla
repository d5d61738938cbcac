-------------------------- MODULE TokenRefreshProofs --------------------------
(* Proofs about TokenRefresh, for every set of sessions, calls and         *)
(* refreshes, and any number of tokens.                                    *)
EXTENDS TokenRefresh, TLAPS

(* The types need that what was refreshed was presented.                   *)
TypeInv ==
    /\ TypeOK
    /\ \A r \in Refresh : refresh[r].stage = "granted" => refresh[r].by.key # 0

(* The refresh that is pending is the one that is under way, and there is  *)
(* one exactly while a call waits.                                         *)
OneUnderWay ==
    /\ \A r \in Refresh : refresh[r].stage # "idle" <=> r = pending
    /\ pending # NoRefresh <=> \E c \in Caller : pc[c] = "waiting"

(* What the store holds while a refresh is under way is what the refresh   *)
(* began with, until the host has saved what it got.                       *)
StoreInv ==
    /\ cred.value = 0 => cred.key = 0 /\ ~cred.fresh
    /\ \A r \in Refresh :
          /\ refresh[r].stage = "empty" => cred.value = 0
          /\ refresh[r].stage \in {"asking", "denied"} => cred.key \in valid \cup forgotten
          /\ refresh[r].stage \in {"asking", "denied"} \/ (refresh[r].stage = "granted" /\ ~refresh[r].saved)
                => cred.key = refresh[r].by.key /\ ~cred.fresh
          /\ refresh[r].stage = "granted" =>
                /\ refresh[r].token \in valid
                /\ ~refresh[r].rotated => refresh[r].by.key \in valid /\ ~renews
          /\ refresh[r].saved =>
                /\ refresh[r].stage = "granted"
                /\ cred.value # 0 /\ cred.key \in valid
    /\ UnderWay = {} /\ cred.key # 0 => cred.key \in valid \cup forgotten

(* What calls are told is what the store holds; and a call that finds      *)
(* nothing to refresh is the only one to settle while others are loaded.   *)
ToldInv ==
    \A c \in Caller :
       /\ pc[c] = "told" => told[c] \in {0, cred.value}
       /\ pc[c] = "told" /\ told[c] = 0 => ~cred.fresh
       /\ pc[c] = "told" /\ told[c] = 0 /\ cred.value # 0 => \A d \in Caller : pc[d] # "loaded"
       /\ pc[c] = "loaded" /\ cooling[c[1]] => cred.value = 0

(* A source that is shown as one that needs authentication has no fresh    *)
(* token, or a call will put that right.                                   *)
StatusInv ==
    status = "needs_auth" /\ cred.fresh =>
        \E c \in Caller : pc[c] = "waiting" \/ (pc[c] = "told" /\ told[c] # 0)

OutcomeInv == TypeInv /\ OneUnderWay /\ StoreInv /\ ToldInv /\ StatusInv

-----------------------------------------------------------------------------
(* The types.                                                              *)

LEMMA Zero == 0 \in Token /\ 1 \in Token
BY TokenAssumption DEF Token

(* A new token is a token.                                                 *)
LEMMA NextToken ==
    ASSUME issued \in Token, issued < MaxToken
    PROVE  issued + 1 \in Token \ {0}
BY TokenAssumption DEF Token

LEMMA TypeInvInit == Init => TypeInv
<1> SUFFICES ASSUME Init PROVE TypeInv
  OBVIOUS
<1>1. cred \in Credential
  <2>1. \/ cred = NoCredential
        \/ \E key \in Token : cred = [value |-> 1, key |-> key, fresh |-> TRUE]
    BY Zero DEF Init
  <2>2. CASE cred = NoCredential
    BY <2>2, Zero DEF Credential, NoCredential
  <2>3. ASSUME NEW key \in Token, cred = [value |-> 1, key |-> key, fresh |-> TRUE]
        PROVE  cred \in Credential
    BY <2>3, Zero DEF Credential
  <2>4. QED
    BY <2>1, <2>2, <2>3
<1>2. refresh \in [Refresh -> [stage : {"idle", "empty", "asking", "granted", "denied"},
                             by : Credential, token : Token,
                             rotated : BOOLEAN, saved : BOOLEAN]]
  BY Zero DEF Init, Idle, Credential, NoCredential
<1>3. QED
  BY <1>1, <1>2, Zero DEF Init, TypeInv, TypeOK, UnderWay, Idle

(* The calls: what is asked for in a task, and how it settles.             *)
LEMMA TypeInvCalls ==
    ASSUME TypeInv
    PROVE  /\ \A C \in SUBSET Caller : Call(C) => TypeInv'
           /\ \A c \in Caller : UseToken(c) \/ AskForToken(c) \/ Settle(c) => TypeInv'
<1> USE DEF TypeInv, TypeOK, UnderWay
<1>1. ASSUME NEW C \in SUBSET Caller, Call(C) PROVE TypeInv'
  BY <1>1 DEF Call, store, provider
<1>2. ASSUME NEW c \in Caller, UseToken(c) PROVE TypeInv'
  BY <1>2 DEF UseToken, store, provider
<1>3. ASSUME NEW c \in Caller, AskForToken(c) PROVE TypeInv'
  <2>1. CASE pending # NoRefresh
    BY <1>3, <2>1 DEF AskForToken, store, provider
  <2>2. ASSUME pending = NoRefresh, NEW r \in Refresh, DoRefresh(r) PROVE TypeInv'
    BY <1>3, <2>2, RefreshAssumption DEF AskForToken, DoRefresh, store, provider
  <2>3. QED
    BY <1>3, <2>1, <2>2 DEF AskForToken
<1>4. ASSUME NEW c \in Caller, Settle(c) PROVE TypeInv'
  <2>1. c[1] \in Session
    BY DEF Caller
  <2>2. cooling' \in [Session -> BOOLEAN]
    BY <1>4, <2>1 DEF Settle
  <2>3. QED
    BY <1>4, <2>2, Zero DEF Settle, provider
<1>5. QED
  BY <1>1, <1>2, <1>3, <1>4

(* refresh() resolves to a token or to none.                               *)
LEMMA TypeInvResolve ==
    ASSUME TypeInv, NEW r \in Refresh, NEW token \in Token, Resolve(r, token),
           cred' \in Credential, status' \in {"connected", "needs_auth"},
           UNCHANGED <<renews, cooling, provider>>
    PROVE  TypeInv'
<1>1. Idle \in [stage : {"idle", "empty", "asking", "granted", "denied"},
               by : Credential, token : Token, rotated : BOOLEAN, saved : BOOLEAN]
  BY Zero DEF Idle, Credential, NoCredential
<1>2. Idle.stage # "granted"
  BY DEF Idle
<1>3. QED
  BY <1>1, <1>2 DEF Resolve, TypeInv, TypeOK, UnderWay, provider

(* The refreshes, and the provider.                                        *)
LEMMA TypeInvRefresh ==
    ASSUME TypeInv, NEW r \in Refresh
    PROVE  /\ NothingToRefresh(r) \/ RefreshReturns(r) \/ RefreshFails(r) => TypeInv'
           /\ Grant(r) \/ HostSaves(r) \/ Deny(r) \/ Lose(r) => TypeInv'
<1> USE DEF TypeInv, TypeOK, UnderWay
<1>0. \A fresh \in BOOLEAN : Refreshed(r, fresh) \in Credential /\ Renewed(r, fresh) \in Credential
  BY DEF Refreshed, Renewed, Credential
<1>1. CASE NothingToRefresh(r)
  BY <1>1, Zero, TypeInvResolve DEF NothingToRefresh, store
<1>2. CASE RefreshReturns(r)
  <2>1. cred' \in Credential
    BY <1>0, <1>2 DEF RefreshReturns, Saved
  <2>2. cred'.value \in Token
    BY <2>1 DEF Credential
  <2>3. QED
    BY <1>2, <2>1, <2>2, TypeInvResolve DEF RefreshReturns
<1>3. CASE RefreshFails(r)
  BY <1>3, Zero, TypeInvResolve DEF RefreshFails
<1>4. CASE Grant(r)
  <2>1. PICK rotates \in BOOLEAN :
            /\ Issue(r, rotates)
            /\ refresh' = [refresh EXCEPT ![r].stage = "granted",
                                          ![r].token = issued', ![r].rotated = rotates]
    BY <1>4 DEF Grant
  <2>2. issued' \in Token \ {0} /\ valid' \subseteq Token \ {0} /\ refresh[r].by.key # 0
    BY <2>1, NextToken DEF Issue
  <2> DEFINE granted == [refresh[r] EXCEPT !.stage = "granted", !.token = issued',
                                           !.rotated = rotates]
  <2>3. refresh' = [refresh EXCEPT ![r] = granted]
    BY <2>1
  <2>4. /\ granted \in [stage : {"idle", "empty", "asking", "granted", "denied"},
                       by : Credential, token : Token, rotated : BOOLEAN, saved : BOOLEAN]
        /\ granted.by.key # 0 /\ granted.stage # "idle"
    <3>1. /\ refresh[r] \in [stage : {"idle", "empty", "asking", "granted", "denied"},
                             by : Credential, token : Token, rotated : BOOLEAN, saved : BOOLEAN]
          /\ issued' \in Token /\ rotates \in BOOLEAN
      BY <2>2
    <3>2. granted \in [stage : {"idle", "empty", "asking", "granted", "denied"},
                       by : Credential, token : Token, rotated : BOOLEAN, saved : BOOLEAN]
      BY <3>1
    <3>3. granted.by = refresh[r].by /\ granted.stage = "granted"
      BY <3>1
    <3>4. QED
      BY <2>2, <3>2, <3>3
  <2> HIDE DEF granted
  <2>5. UNCHANGED <<renews, cred, status, pending, cooling, pc, told, forgotten>>
    BY <1>4 DEF Grant, store
  <2>6. QED
    BY <2>2, <2>3, <2>4, <2>5
<1>5. CASE HostSaves(r)
  <2> DEFINE saved == [refresh[r] EXCEPT !.saved = TRUE]
  <2>1. /\ cred' \in Credential
        /\ refresh' = [refresh EXCEPT ![r] = saved]
        /\ UNCHANGED <<renews, status, pending, cooling, pc, told, provider>>
    BY <1>0, <1>5 DEF HostSaves
  <2>2. refresh[r] \in [stage : {"idle", "empty", "asking", "granted", "denied"},
                        by : Credential, token : Token, rotated : BOOLEAN, saved : BOOLEAN]
    OBVIOUS
  <2>3. /\ saved \in [stage : {"idle", "empty", "asking", "granted", "denied"},
                       by : Credential, token : Token, rotated : BOOLEAN, saved : BOOLEAN]
        /\ saved.by = refresh[r].by /\ saved.stage = refresh[r].stage
    BY <2>2
  <2> HIDE DEF saved
  <2>4. QED
    BY <2>1, <2>3 DEF provider
<1>6. CASE Deny(r)
  BY <1>6 DEF Deny, store, provider
<1>7. CASE Lose(r)
  <2>1. PICK rotates \in BOOLEAN : Issue(r, rotates)
    BY <1>7 DEF Lose
  <2>2. issued' \in Token /\ valid' \cup forgotten' \subseteq Token \ {0}
    BY <1>7, <2>1, NextToken DEF Issue, Lose
  <2>3. QED
    BY <1>7, <2>2 DEF Lose, store
<1>8. QED
  BY <1>1, <1>2, <1>3, <1>4, <1>5, <1>6, <1>7

(* Hosts, and time.                                                        *)
LEMMA TypeInvHost ==
    ASSUME TypeInv
    PROVE  /\ \A s \in Session : ClearCooldown(s) => TypeInv'
           /\ Authenticated \/ Delete \/ Expire \/ Restart => TypeInv'
<1> USE DEF TypeInv, TypeOK, UnderWay
<1>1. ASSUME NEW s \in Session, ClearCooldown(s) PROVE TypeInv'
  BY <1>1 DEF ClearCooldown, store, provider
<1>2. CASE Authenticated
  BY <1>2, NextToken DEF Authenticated, Credential
<1>3. CASE Delete
  BY <1>3, Zero DEF Delete, Credential, NoCredential, provider
<1>4. CASE Expire
  BY <1>4 DEF Expire, Credential, provider
<1>5. CASE Restart
  <2>1. refresh' \in [Refresh -> [stage : {"idle", "empty", "asking", "granted", "denied"},
                                 by : Credential, token : Token,
                                 rotated : BOOLEAN, saved : BOOLEAN]]
    BY <1>5, Zero DEF Restart, Idle, Credential, NoCredential
  <2>2. \A r \in Refresh : refresh'[r].stage # "granted"
    BY <1>5 DEF Restart, Idle
  <2>3. forgotten' \subseteq Token \ {0}
    BY <1>5 DEF Restart, Credential
  <2>4. QED
    BY <1>5, <2>1, <2>2, <2>3, Zero DEF Restart, store
<1>6. QED
  BY <1>1, <1>2, <1>3, <1>4, <1>5

LEMMA TypeInvStep == TypeInv /\ [Next]_vars => TypeInv'
<1> SUFFICES ASSUME TypeInv, [Next]_vars PROVE TypeInv'
  OBVIOUS
<1>1. CASE UNCHANGED vars
  BY <1>1 DEF vars, store, provider, TypeInv, TypeOK, UnderWay
<1>2. CASE Next
  BY <1>2, TypeInvCalls, TypeInvRefresh, TypeInvHost DEF Next
<1>3. QED
  BY <1>1, <1>2

(* The types hold, and what is pending is under way, whatever hosts do and *)
(* whatever crosses a refresh (pendingRefreshes of credential-manager.ts). *)
THEOREM TokenTypes == Spec => []TypeOK
<1>1. TypeInv => TypeOK
  BY DEF TypeInv
<1>2. QED
  BY <1>1, TypeInvInit, TypeInvStep, PTL DEF Spec

-----------------------------------------------------------------------------
(* The outcome, when nothing crosses a refresh.                            *)

LEMMA NothingUnderWay == OutcomeInv => (UnderWay = {} <=> pending = NoRefresh)
BY RefreshAssumption DEF OutcomeInv, TypeInv, TypeOK, OneUnderWay, UnderWay

LEMMA OutcomeInit == Init => OutcomeInv
<1> SUFFICES ASSUME Init PROVE OutcomeInv
  OBVIOUS
<1>1. OneUnderWay
  BY RefreshAssumption DEF Init, OneUnderWay, Idle
<1>2. StoreInv
  <2>1. cred.key \in {0, 1} /\ (cred.value = 0 => cred.key = 0 /\ ~cred.fresh)
    BY DEF Init, NoCredential
  <2>2. QED
    BY <2>1 DEF Init, StoreInv, Idle
<1>3. ToldInv /\ StatusInv
  BY DEF Init, ToldInv, StatusInv, Caller
<1>4. QED
  BY <1>1, <1>2, <1>3, TypeInvInit DEF OutcomeInv

(* Steps that leave the refreshes and the store alone.                     *)
LEMMA StoreKept ==
    ASSUME StoreInv, UNCHANGED <<renews, cred, refresh, valid, forgotten>>
    PROVE  StoreInv'
BY DEF StoreInv, UnderWay

LEMMA OutcomeCall ==
    ASSUME OutcomeInv, NEW C \in SUBSET Caller, Call(C)
    PROVE  OneUnderWay' /\ StoreInv' /\ ToldInv' /\ StatusInv'
<1> USE DEF OutcomeInv
<1>1. UNCHANGED <<renews, cred, status, pending, refresh, cooling, told, valid, forgotten>>
  BY DEF Call, store, provider
<1>2. \A c \in Caller : pc'[c] = IF c \in C THEN "loaded" ELSE pc[c]
  BY DEF Call
<1>3. \A c \in Caller : pc[c] \notin {"loaded", "told"} /\ (c \in C => pc[c] = "idle" /\ ~cooling[c[1]])
  BY DEF Call, NextTask
<1>4. OneUnderWay'
  BY <1>1, <1>2, <1>3 DEF OneUnderWay
<1>5. StoreInv'
  BY <1>1, StoreKept
<1>6. ToldInv'
  BY <1>1, <1>2, <1>3 DEF ToldInv
<1>7. StatusInv'
  BY <1>1, <1>2, <1>3 DEF StatusInv
<1>8. QED
  BY <1>4, <1>5, <1>6, <1>7

LEMMA OutcomeUseToken ==
    ASSUME OutcomeInv, NEW c \in Caller, UseToken(c)
    PROVE  OneUnderWay' /\ StoreInv' /\ ToldInv' /\ StatusInv'
<1> USE DEF OutcomeInv
<1>1. UNCHANGED <<renews, cred, status, pending, refresh, cooling, told, valid, forgotten>>
  BY DEF UseToken, store, provider
<1>2. pc[c] = "loaded" /\ \A d \in Caller : pc'[d] = IF d = c THEN "idle" ELSE pc[d]
  BY DEF UseToken, TypeInv, TypeOK
<1>3. OneUnderWay' /\ ToldInv' /\ StatusInv'
  BY <1>1, <1>2 DEF OneUnderWay, ToldInv, StatusInv
<1>4. QED
  BY <1>1, <1>3, StoreKept

(* A refresh begins with the credential of the store, which can be         *)
(* refreshed if there is one.                                              *)
LEMMA OutcomeAskForToken ==
    ASSUME OutcomeInv, NEW c \in Caller, AskForToken(c)
    PROVE  OneUnderWay' /\ StoreInv' /\ ToldInv' /\ StatusInv'
<1> USE DEF OutcomeInv
<1>1. UNCHANGED <<renews, cred, status, cooling, told, valid, forgotten>>
  BY DEF AskForToken, store, provider
<1>2. /\ pc[c] = "loaded" /\ pc'[c] = "waiting" /\ \A d \in Caller \ {c} : pc'[d] = pc[d]
      /\ cred.value = 0 \/ (cred.key # 0 /\ ~cred.fresh)
  BY DEF AskForToken, NeedsRefresh, TypeInv, TypeOK
<1>3. ToldInv' /\ StatusInv'
  BY <1>1, <1>2 DEF ToldInv, StatusInv
<1>4. CASE pending # NoRefresh
  <2>1. UNCHANGED <<pending, refresh>>
    BY <1>4 DEF AskForToken
  <2>2. OneUnderWay'
    BY <1>2, <1>4, <2>1 DEF OneUnderWay
  <2>3. QED
    BY <1>1, <1>3, <2>1, <2>2, StoreKept
<1>5. CASE pending = NoRefresh
  <2>1. PICK r \in Refresh : DoRefresh(r)
    BY <1>5 DEF AskForToken
  <2> DEFINE begun == [refresh[r] EXCEPT !.stage = IF cred.value = 0 THEN "empty" ELSE "asking",
                                         !.by = cred]
  <2>2. pending' = r /\ refresh' = [refresh EXCEPT ![r] = begun]
    BY <2>1 DEF DoRefresh
  <2>3. /\ begun.stage = IF cred.value = 0 THEN "empty" ELSE "asking"
        /\ begun.by = cred /\ begun.saved = FALSE
    BY <2>1 DEF DoRefresh, Idle
  <2> HIDE DEF begun
  <2>4. \A q \in Refresh : refresh[q].stage = "idle"
    BY <1>5, RefreshAssumption DEF OneUnderWay
  <2>5. \A q \in Refresh : refresh'[q] = IF q = r THEN begun ELSE refresh[q]
    BY <2>2 DEF TypeInv, TypeOK
  <2>6. OneUnderWay'
    BY <1>2, <2>2, <2>3, <2>4, <2>5, RefreshAssumption DEF OneUnderWay
  <2>7. UnderWay = {} /\ UnderWay' # {}
    BY <2>3, <2>4, <2>5 DEF UnderWay
  <2>8. StoreInv'
    BY <1>1, <1>2, <2>3, <2>4, <2>5, <2>7 DEF StoreInv
  <2>9. QED
    BY <1>3, <2>6, <2>8
<1>6. QED
  BY <1>4, <1>5

LEMMA OutcomeSettle ==
    ASSUME OutcomeInv, NEW c \in Caller, Settle(c)
    PROVE  OneUnderWay' /\ StoreInv' /\ ToldInv' /\ StatusInv'
<1> USE DEF OutcomeInv
<1>1. UNCHANGED <<renews, cred, pending, refresh, valid, forgotten>>
  BY DEF Settle, provider
<1>2. /\ pc[c] = "told" /\ pc'[c] = "idle" /\ \A d \in Caller \ {c} : pc'[d] = pc[d] /\ told'[d] = told[d]
      /\ status' = IF told[c] = 0 THEN "needs_auth" ELSE "connected"
  BY DEF Settle, TypeInv, TypeOK
<1>3. \A s \in Session : cooling'[s] <=> IF s = c[1] THEN told[c] = 0 ELSE cooling[s]
  BY DEF Settle, TypeInv, TypeOK
<1>4. \A d \in Caller : d[1] \in Session
  BY DEF Caller
<1>5. OneUnderWay'
  BY <1>1, <1>2 DEF OneUnderWay
<1>6. ToldInv'
  BY <1>1, <1>2, <1>3, <1>4 DEF ToldInv
<1>7. StatusInv'
  BY <1>1, <1>2 DEF ToldInv, StatusInv
<1>8. QED
  BY <1>1, <1>5, <1>6, <1>7, StoreKept

(* When a refresh has ended none is under way, and all that waited are     *)
(* told the same.                                                          *)
LEMMA OutcomeResolve ==
    ASSUME OutcomeInv, NEW r \in Refresh, refresh[r].stage # "idle",
           NEW token, Resolve(r, token), UNCHANGED <<renews, cooling, valid, forgotten>>,
           token \in {0, cred'.value}, token = 0 => ~cred'.fresh,
           (token = 0 /\ cred'.value # 0) \/ cred' # cred => NextTask,
           cred'.value = 0 => cred'.key = 0 /\ ~cred'.fresh,
           cred'.key # 0 => cred'.key \in valid \cup forgotten,
           status' = "needs_auth" /\ cred'.fresh => status = "needs_auth" \/ token # 0
    PROVE  OneUnderWay' /\ StoreInv' /\ ToldInv' /\ StatusInv'
<1> USE DEF OutcomeInv
<1>1. pending = r
  BY DEF OneUnderWay
<1>2. /\ pending' = NoRefresh /\ \A q \in Refresh : refresh'[q] = IF q = r THEN Idle ELSE refresh[q]
      /\ \A c \in Caller : /\ pc'[c] = IF pc[c] = "waiting" THEN "told" ELSE pc[c]
                           /\ told'[c] = IF pc[c] = "waiting" THEN token ELSE told[c]
  BY DEF Resolve, TypeInv, TypeOK
<1>3. \A q \in Refresh : refresh'[q].stage = "idle" /\ refresh'[q].saved = FALSE
  BY <1>1, <1>2 DEF OneUnderWay, StoreInv, Idle
<1>4. OneUnderWay'
  BY <1>2, <1>3, RefreshAssumption DEF OneUnderWay
<1>5. StoreInv'
  BY <1>3 DEF StoreInv
<1>6. \E c \in Caller : pc[c] = "waiting"
  BY <1>1, RefreshAssumption DEF OneUnderWay
<1>7. ToldInv'
  BY <1>2 DEF ToldInv, NextTask
<1>8. StatusInv'
  <2>1. CASE token # 0
    BY <1>2, <1>6, <2>1 DEF StatusInv
  <2>2. CASE token = 0
    BY <2>2 DEF StatusInv
  <2>3. QED
    BY <2>1, <2>2
<1>9. QED
  BY <1>4, <1>5, <1>7, <1>8

LEMMA OutcomeRefreshEnds ==
    ASSUME OutcomeInv, NEW r \in Refresh, NothingToRefresh(r) \/ RefreshReturns(r) \/ RefreshFails(r)
    PROVE  OneUnderWay' /\ StoreInv' /\ ToldInv' /\ StatusInv'
<1> USE DEF OutcomeInv, StoreInv
<1>1. CASE NothingToRefresh(r)
  BY <1>1, OutcomeResolve DEF NothingToRefresh, store, provider
<1>2. CASE RefreshFails(r)
  BY <1>2, OutcomeResolve DEF RefreshFails, provider
<1>3. CASE RefreshReturns(r)
  <2>1. /\ refresh[r].stage = "granted" /\ NextTask /\ Resolve(r, cred'.value)
        /\ UNCHANGED <<renews, cooling, valid, forgotten>>
    BY <1>3 DEF RefreshReturns, provider
  <2>2. CASE refresh[r].saved
    BY <1>3, <2>1, <2>2, OutcomeResolve DEF RefreshReturns
  <2>3. CASE ~refresh[r].saved
    <3>1. PICK fresh \in BOOLEAN : cred' = Saved(r, fresh) /\ status' = status
      BY <1>3, <2>3 DEF RefreshReturns
    <3>2. cred'.value = refresh[r].token /\ cred'.key \in {refresh[r].token, refresh[r].by.key}
      BY <3>1 DEF Saved, Renewed, Refreshed, TypeInv, TypeOK, Credential
    <3>3. cred'.value # 0 /\ cred'.key \in valid
      <4>1. (~renews /\ ~refresh[r].rotated) \/ cred'.key = refresh[r].token
        BY <3>1 DEF Saved, Renewed, Refreshed, TypeInv, TypeOK, Credential
      <4>2. QED
        BY <2>1, <3>2, <4>1 DEF TypeInv, TypeOK
    <3>4. QED
      BY <2>1, <3>1, <3>3, OutcomeResolve
  <2>4. QED
    BY <2>2, <2>3
<1>4. QED
  BY <1>1, <1>2, <1>3

(* A refresh under way goes on, and the store stays as it is.              *)
LEMMA OutcomeGoesOn ==
    ASSUME OutcomeInv, NEW r \in Refresh, NEW next, refresh[r].stage # "idle",
           refresh' = [refresh EXCEPT ![r] = next], next.stage # "idle",
           UNCHANGED <<renews, status, pending, cooling, pc, told>>
    PROVE  /\ OneUnderWay' /\ UnderWay' # {}
           /\ \A q \in Refresh : refresh'[q] = IF q = r THEN next ELSE refresh[q]
           /\ \A q \in Refresh \ {r} : refresh[q].stage = "idle" /\ ~refresh[q].saved
           /\ \E c \in Caller : pc[c] = "waiting"
<1> USE DEF OutcomeInv
<1>1. \A q \in Refresh : refresh'[q] = IF q = r THEN next ELSE refresh[q]
  BY DEF TypeInv, TypeOK
<1>2. pending = r
  BY DEF OneUnderWay
<1>3. OneUnderWay' /\ UnderWay' # {}
  BY <1>1, <1>2 DEF OneUnderWay, UnderWay
<1>4. QED
  BY <1>1, <1>2, <1>3, RefreshAssumption DEF OneUnderWay, StoreInv

LEMMA OutcomeProvider ==
    ASSUME OutcomeInv, NEW r \in Refresh, Grant(r) \/ Deny(r) \/ Lose(r)
    PROVE  OneUnderWay' /\ StoreInv' /\ ToldInv' /\ StatusInv'
<1> USE DEF OutcomeInv
<1>1. UNCHANGED <<renews, cred, status, pending, cooling, pc, told>> /\ refresh[r].stage = "asking"
  BY DEF Grant, Deny, Lose, Issue, store
<1>2. ToldInv' /\ StatusInv'
  BY <1>1 DEF ToldInv, StatusInv
<1>3. ~refresh[r].saved
  BY <1>1 DEF StoreInv
<1>4. CASE Grant(r)
  <2>1. PICK rotates \in BOOLEAN :
            /\ Issue(r, rotates)
            /\ refresh' = [refresh EXCEPT ![r].stage = "granted",
                                          ![r].token = issued', ![r].rotated = rotates]
    BY <1>4 DEF Grant
  <2> DEFINE granted == [refresh[r] EXCEPT !.stage = "granted", !.token = issued',
                                           !.rotated = rotates]
  <2>2. refresh' = [refresh EXCEPT ![r] = granted]
    BY <2>1
  <2>3. /\ granted.stage = "granted" /\ granted.token = issued' /\ granted.rotated = rotates
        /\ granted.by = refresh[r].by /\ granted.saved = refresh[r].saved
    BY DEF TypeInv, TypeOK
  <2> HIDE DEF granted
  <2>4. /\ OneUnderWay' /\ UnderWay' # {}
        /\ \A q \in Refresh : refresh'[q] = IF q = r THEN granted ELSE refresh[q]
        /\ \A q \in Refresh \ {r} : refresh[q].stage = "idle" /\ ~refresh[q].saved
        /\ \E c \in Caller : pc[c] = "waiting"
    BY <1>1, <2>2, <2>3, OutcomeGoesOn
  <2>5. /\ issued' \in valid' /\ (~rotates => refresh[r].by.key \in valid' /\ ~renews)
        /\ cred.key = refresh[r].by.key /\ ~cred.fresh
    BY <1>1, <2>1 DEF Issue, StoreInv
  <2>6. StoreInv'
    BY <1>1, <1>3, <2>3, <2>4, <2>5 DEF StoreInv
  <2>7. QED
    BY <1>2, <2>4, <2>6
<1>5. CASE Deny(r) \/ Lose(r)
  <2> DEFINE denied == [refresh[r] EXCEPT !.stage = "denied"]
  <2>1. refresh' = [refresh EXCEPT ![r] = denied]
    BY <1>5 DEF Deny, Lose
  <2>2. denied.stage = "denied" /\ denied.by = refresh[r].by /\ denied.saved = refresh[r].saved
    BY DEF TypeInv, TypeOK
  <2> HIDE DEF denied
  <2>3. /\ OneUnderWay' /\ UnderWay' # {}
        /\ \A q \in Refresh : refresh'[q] = IF q = r THEN denied ELSE refresh[q]
        /\ \A q \in Refresh \ {r} : refresh[q].stage = "idle" /\ ~refresh[q].saved
        /\ \E c \in Caller : pc[c] = "waiting"
    BY <1>1, <2>1, <2>2, OutcomeGoesOn
  <2>4. cred.key = refresh[r].by.key /\ ~cred.fresh /\ cred.key \in valid \cup forgotten
    BY <1>1 DEF StoreInv
  <2>5. cred.key \in valid' \cup forgotten'
    <3>1. CASE Deny(r)
      BY <2>4, <3>1 DEF Deny, provider
    <3>2. CASE Lose(r)
      BY <2>4, <3>2 DEF Lose
    <3>3. QED
      BY <1>5, <3>1, <3>2
  <2>6. StoreInv'
    BY <1>1, <1>3, <2>2, <2>3, <2>4, <2>5 DEF StoreInv
  <2>7. QED
    BY <1>2, <2>3, <2>6
<1>6. QED
  BY <1>4, <1>5

LEMMA OutcomeHostSaves ==
    ASSUME OutcomeInv, NEW r \in Refresh, HostSaves(r)
    PROVE  OneUnderWay' /\ StoreInv' /\ ToldInv' /\ StatusInv'
<1> USE DEF OutcomeInv
<1>1. /\ UNCHANGED <<renews, status, pending, cooling, pc, told, valid, forgotten>>
      /\ refresh[r].stage = "granted" /\ ~refresh[r].saved /\ ~renews /\ NextTask
  BY DEF HostSaves, provider
<1>2. PICK fresh \in BOOLEAN : cred' = Refreshed(r, fresh)
  BY DEF HostSaves
<1> DEFINE saved == [refresh[r] EXCEPT !.saved = TRUE]
<1>3. refresh' = [refresh EXCEPT ![r] = saved]
  BY DEF HostSaves
<1>4. /\ saved.saved = TRUE /\ saved.stage = "granted" /\ saved.token = refresh[r].token
      /\ saved.by = refresh[r].by /\ saved.rotated = refresh[r].rotated
  BY <1>1 DEF TypeInv, TypeOK
<1> HIDE DEF saved
<1>5. /\ OneUnderWay' /\ UnderWay' # {}
      /\ \A q \in Refresh : refresh'[q] = IF q = r THEN saved ELSE refresh[q]
      /\ \A q \in Refresh \ {r} : refresh[q].stage = "idle" /\ ~refresh[q].saved
      /\ \E c \in Caller : pc[c] = "waiting"
  BY <1>1, <1>3, <1>4, OutcomeGoesOn
<1>6. cred'.value # 0 /\ cred'.key \in valid
  BY <1>1, <1>2 DEF Refreshed, StoreInv, TypeInv, TypeOK
<1>7. StoreInv'
  BY <1>1, <1>4, <1>5, <1>6 DEF StoreInv
<1>8. ToldInv' /\ StatusInv'
  BY <1>1, <1>5 DEF ToldInv, StatusInv, NextTask
<1>9. QED
  BY <1>5, <1>7, <1>8

LEMMA OutcomeHost ==
    ASSUME OutcomeInv, "crosses" \notin Env
    PROVE  /\ \A s \in Session : ClearCooldown(s) => OneUnderWay' /\ StoreInv' /\ ToldInv' /\ StatusInv'
           /\ Authenticated \/ Delete \/ Expire \/ Restart
                => OneUnderWay' /\ StoreInv' /\ ToldInv' /\ StatusInv'
<1> USE DEF OutcomeInv
<1>1. ASSUME NEW s \in Session, ClearCooldown(s)
      PROVE  OneUnderWay' /\ StoreInv' /\ ToldInv' /\ StatusInv'
  <2>1. UNCHANGED <<renews, cred, status, pending, refresh, pc, told, valid, forgotten>>
    BY <1>1 DEF ClearCooldown, store, provider
  <2>2. \A x \in Session : cooling'[x] => cooling[x]
    BY <1>1 DEF ClearCooldown, TypeInv, TypeOK
  <2>3. \A c \in Caller : c[1] \in Session
    BY DEF Caller
  <2>4. OneUnderWay' /\ ToldInv' /\ StatusInv'
    BY <2>1, <2>2, <2>3 DEF OneUnderWay, ToldInv, StatusInv
  <2>5. QED
    BY <2>1, <2>4, StoreKept
<1>2. CASE Authenticated
  <2>1. /\ UNCHANGED <<renews, pending, refresh, cooling, pc, told, forgotten>>
        /\ NextTask /\ UnderWay = {} /\ status' = "connected"
        /\ cred'.value = issued + 1 /\ cred'.key \in valid'
    BY <1>2 DEF Authenticated, Crossing
  <2>2. cred'.value # 0
    BY <2>1, TokenAssumption DEF TypeInv, TypeOK, Token
  <2>3. OneUnderWay' /\ ToldInv' /\ StatusInv'
    BY <2>1 DEF OneUnderWay, ToldInv, StatusInv, NextTask
  <2>4. StoreInv'
    BY <2>1, <2>2 DEF StoreInv, UnderWay
  <2>5. QED
    BY <2>3, <2>4
<1>3. CASE Delete
  <2>1. /\ UNCHANGED <<renews, status, pending, refresh, cooling, pc, told, valid, forgotten>>
        /\ NextTask /\ UnderWay = {} /\ cred'.value = 0 /\ cred'.key = 0 /\ ~cred'.fresh
    BY <1>3 DEF Delete, Crossing, NoCredential, provider
  <2>2. OneUnderWay' /\ ToldInv' /\ StatusInv'
    BY <2>1 DEF OneUnderWay, ToldInv, StatusInv, NextTask
  <2>3. StoreInv'
    BY <2>1 DEF StoreInv, UnderWay
  <2>4. QED
    BY <2>2, <2>3
<1>4. CASE Expire
  <2>1. /\ UNCHANGED <<renews, status, pending, refresh, cooling, pc, told, valid, forgotten>>
        /\ NextTask /\ ~cred'.fresh /\ cred'.value = cred.value /\ cred'.key = cred.key
    BY <1>4 DEF Expire, provider, TypeInv, TypeOK, Credential
  <2>2. OneUnderWay' /\ ToldInv' /\ StatusInv'
    BY <2>1 DEF OneUnderWay, ToldInv, StatusInv, NextTask
  <2>3. StoreInv'
    BY <2>1 DEF StoreInv, UnderWay
  <2>4. QED
    BY <2>2, <2>3
<1>5. CASE Restart
  <2>1. /\ UNCHANGED <<renews, cred, status, valid>> /\ NextTask
        /\ \A r \in Refresh : ~refresh[r].saved
        /\ pending' = NoRefresh /\ \A c \in Caller : pc'[c] = "idle"
        /\ \A r \in Refresh : refresh'[r].stage = "idle" /\ ~refresh'[r].saved
    BY <1>5 DEF Restart, Idle, store
  <2>2. OneUnderWay' /\ ToldInv'
    BY <2>1, RefreshAssumption DEF OneUnderWay, ToldInv
  <2>3. forgotten \subseteq forgotten' /\ \A r \in Refresh :
            refresh[r].stage = "granted" => refresh[r].by.key \in forgotten'
    BY <1>5, <2>1 DEF Restart, UnderWay
  <2>4. \A r \in Refresh : refresh[r].stage # "idle" => ~cred.fresh /\ (cred.key # 0 => cred.key \in valid \cup forgotten')
    BY <2>1, <2>3 DEF StoreInv, TypeInv, TypeOK
  <2>5. cred.key # 0 => cred.key \in valid \cup forgotten'
    BY <2>3, <2>4 DEF StoreInv, UnderWay
  <2>6. StoreInv'
    BY <2>1, <2>5 DEF StoreInv
  <2>7. StatusInv'
    <3>1. CASE pending = NoRefresh
      BY <2>1, <3>1 DEF StatusInv, OneUnderWay, NextTask
    <3>2. CASE pending # NoRefresh
      BY <2>1, <2>4, <3>2 DEF StatusInv, TypeInv, TypeOK, UnderWay
    <3>3. QED
      BY <3>1, <3>2
  <2>8. QED
    BY <2>2, <2>6, <2>7
<1>6. QED
  BY <1>1, <1>2, <1>3, <1>4, <1>5

LEMMA OutcomeStep ==
    ASSUME "crosses" \notin Env
    PROVE  OutcomeInv /\ [Next]_vars => OutcomeInv'
<1> SUFFICES ASSUME OutcomeInv, [Next]_vars PROVE OutcomeInv'
  OBVIOUS
<1>1. TypeInv'
  BY TypeInvStep DEF OutcomeInv
<1>2. OneUnderWay' /\ StoreInv' /\ ToldInv' /\ StatusInv'
  <2>1. CASE UNCHANGED vars
    BY <2>1 DEF OutcomeInv, OneUnderWay, StoreInv, ToldInv, StatusInv, UnderWay, vars, store, provider
  <2>2. CASE Next
    BY <2>2, OutcomeCall, OutcomeUseToken, OutcomeAskForToken, OutcomeSettle,
       OutcomeRefreshEnds, OutcomeProvider, OutcomeHostSaves, OutcomeHost DEF Next
  <2>3. QED
    BY <2>1, <2>2
<1>3. QED
  BY <1>1, <1>2 DEF OutcomeInv

(* Unless the user authenticates, the host deletes or the process restarts *)
(* in the middle of a refresh, every call of ensureFreshToken is told what *)
(* the store holds, what the store holds can be refreshed, and a source    *)
(* with a fresh token is not left as one that needs authentication.        *)
THEOREM Outcome ==
    ASSUME "crosses" \notin Env
    PROVE  Spec => []OutcomeIsTrue
<1>1. OutcomeInv => OutcomeIsTrue
  BY DEF OutcomeInv, StoreInv, ToldInv, StatusInv, OutcomeIsTrue
<1>2. QED
  BY <1>1, OutcomeInit, OutcomeStep, PTL DEF Spec

(* Under the same assumption refreshes are made one at a time, with what   *)
(* the provider honours or has lost its answer for, and outside the        *)
(* cooldown of a session that asks (refresh() of credential-manager.ts).   *)
THEOREM Rationed ==
    ASSUME "crosses" \notin Env
    PROVE  Spec => RefreshesAreRationed
<1> DEFINE Begins(r) == refresh[r].stage = "idle" /\ refresh'[r].stage = "asking"
           Rationing(r) == /\ UnderWay = {}
                           /\ cred.key \in valid \cup forgotten
                           /\ \E c \in Caller : pc'[c] # pc[c] /\ ~cooling[c[1]]
<1>1. ASSUME OutcomeInv, Next, NEW r \in Refresh, Begins(r) PROVE Rationing(r)
  <2> USE <1>1 DEF OutcomeInv
  <2>1. CASE \E c \in Caller : AskForToken(c)
    <3>1. PICK c \in Caller : AskForToken(c)
      BY <2>1
    <3>2. pending = NoRefresh /\ \E q \in Refresh : DoRefresh(q)
      BY <3>1 DEF AskForToken
    <3>3. cred.value # 0
      <4>1. PICK q \in Refresh : DoRefresh(q)
        BY <3>2
      <4>2. q = r
        BY <4>1 DEF DoRefresh, TypeInv, TypeOK
      <4>3. QED
        BY <4>1, <4>2 DEF DoRefresh, TypeInv, TypeOK
    <3>4. UnderWay = {}
      BY <3>2, NothingUnderWay
    <3>5. pc[c] = "loaded" /\ pc'[c] = "waiting" /\ cred.key # 0
      BY <3>1, <3>3 DEF AskForToken, NeedsRefresh, TypeInv, TypeOK
    <3>6. QED
      BY <3>3, <3>4, <3>5 DEF StoreInv, ToldInv
  <2>2. CASE ~\E c \in Caller : AskForToken(c)
    <3>1. ASSUME NEW q \in Refresh, Resolve(q, 0) \/ Resolve(q, cred'.value)
          PROVE  refresh'[r].stage # "asking" \/ refresh'[r] = refresh[r]
      BY <3>1 DEF Resolve, Idle, TypeInv, TypeOK
    <3>2. ASSUME NEW q \in Refresh, Grant(q) \/ HostSaves(q) \/ Deny(q) \/ Lose(q)
          PROVE  refresh'[r].stage # "asking" \/ refresh'[r] = refresh[r] \/ refresh[r].stage # "idle"
      BY <3>2 DEF Grant, HostSaves, Deny, Lose, Issue, TypeInv, TypeOK
    <3>3. Restart => refresh'[r].stage # "asking"
      BY DEF Restart, Idle
    <3>4. QED
      BY <2>2, <3>1, <3>2, <3>3
         DEF Next, Call, UseToken, Settle, NothingToRefresh, RefreshReturns, RefreshFails,
             ClearCooldown, Authenticated, Delete, Expire
  <2>3. QED
    BY <2>1, <2>2
<1>2. OutcomeInv /\ [Next]_vars => [\A r \in Refresh : Begins(r) => Rationing(r)]_vars
  BY <1>1
<1>3. QED
  BY <1>2, OutcomeInit, OutcomeStep, PTL DEF Spec, RefreshesAreRationed
=============================================================================

---------------------------- MODULE ClientProofs ----------------------------
(***************************************************************************)
(* Proofs about the client: its access token, for any number of requests   *)
(* that need it, tokens and logins, and the writer of its uploads, for any *)
(* sizes of blocks, writes and messages.                                   *)
(***************************************************************************)
EXTENDS OidcClient, BatchWriter, SequenceTheorems, TLAPS

-----------------------------------------------------------------------------
(* The access token. *)

Holding == {"load", "check", "refresh", "auth", "save"}

\* A token that was issued.
IssuedOK(t) == t \in Token => t.access <= issued /\ t.refresh <= issued

\* Only the holder of the mutex is past it, and what it saves is the newest.
CallerOK(c) ==
  /\ pc[c] \in Holding <=> holder = c
  /\ IssuedOK(saving[c])
  /\ pc[c] = "save" => /\ saving[c] \in Token /\ saving[c].access = received
                       /\ ~ forgotten => saving[c].refresh = granted
  /\ pc[c] = "load" => token = NoToken
  /\ pc[c] \in {"check", "refresh", "auth"} /\ token = NoToken => ~ Readable(cache)

\* The client has what it was given last: in memory, in what is being saved, or in a
\* file it can read; or it was given no refresh token.
HasIt ==
  ~ forgotten =>
    IF token # NoToken THEN token.access = received /\ token.refresh = granted
    ELSE (\E c \in Callers : pc[c] = "save")
           \/ IF Readable(cache) THEN cache.access = received /\ cache.refresh = granted
              ELSE granted = 0

TokenIInv ==
  /\ TypeOK
  /\ IssuedOK(token) /\ IssuedOK(cache)
  /\ \A c \in Callers : CallerOK(c)
  /\ HasIt

LEMMA TokenInitInv == Init => TokenIInv
<1> SUFFICES ASSUME Init PROVE TokenIInv
  OBVIOUS
<1>1. TypeOK
  <2>1. \A n \in Nat : 0 \in 0 .. n
    OBVIOUS
  <2>2. 0 \in 0 .. MaxTokens /\ 0 \in 0 .. 0 /\ {} \subseteq 1 .. 0
    BY <2>1, OidcClientAssumption
  <2>3. [c \in Callers |-> "idle"] \in [Callers -> {"idle", "waiting", "load", "check", "refresh", "auth", "save"}]
    OBVIOUS
  <2> QED
    BY <2>2, <2>3 DEF Init, TypeOK
<1>2. NoToken \notin Token /\ ~ Readable(NoToken)
  BY OidcClientAssumption DEF Readable
<1>3. ASSUME NEW c \in Callers PROVE CallerOK(c)
  <2>1. pc[c] = "idle" /\ saving[c] = NoToken /\ holder # c
    BY OidcClientAssumption DEF Init
  <2> QED
    BY <1>2, <2>1 DEF CallerOK, IssuedOK, Holding
<1> QED
  BY <1>1, <1>2, <1>3 DEF Init, TokenIInv, IssuedOK, HasIt

\* Time and the server leave the client alone.
LEMMA ServerStepInv ==
  ASSUME TokenIInv, Expire \/ Revoke
  PROVE  TokenIInv'
<1>1. UNCHANGED <<issued, token, cache, holder, saving, received, granted, forgotten, pc>>
  BY DEF Expire, Revoke, clientVars, knownVars
<1>2. usable' \in 0 .. issued /\ expired' \subseteq 1 .. issued
  <2>1. issued \in Nat /\ usable \in 0 .. issued /\ expired \subseteq 1 .. issued
    BY OidcClientAssumption DEF TokenIInv, TypeOK
  <2>2. CASE Expire
    BY <2>1, <2>2 DEF Expire
  <2>3. CASE Revoke
    BY <2>1, <2>3 DEF Revoke
  <2> QED
    BY <2>2, <2>3
<1>3. TypeOK'
  BY <1>1, <1>2 DEF TokenIInv, TypeOK
<1> QED
  BY <1>1, <1>3 DEF TokenIInv, CallerOK, IssuedOK, HasIt, Readable

\* What was issued stays so.
LEMMA LaterIsIssued ==
  ASSUME issued \in Nat, issued' \in Nat, issued <= issued'
  PROVE  \A t : IssuedOK(t) => (t \in Token => t.access <= issued' /\ t.refresh <= issued')
  BY DEF IssuedOK, Token

\* A caller that goes on, and changes nothing but who has the mutex.
LEMMA Moves ==
  ASSUME TokenIInv, NEW c \in Callers, NEW to \in {"idle", "waiting", "load", "check", "refresh", "auth"},
         Goes(c, to), pc[c] # "save",
         issued' \in issued .. MaxTokens,
         UNCHANGED <<token, cache, saving, received, granted, forgotten>>,
         usable' \in 0 .. issued', expired' \subseteq 1 .. issued',
         \/ to \in Holding /\ pc[c] \in Holding /\ holder' = holder
         \/ to \in Holding /\ holder = NoCaller /\ holder' = c
         \/ to \notin Holding /\ pc[c] \in Holding /\ holder' = NoCaller
         \/ to \notin Holding /\ pc[c] \notin Holding /\ holder' = holder,
         to = "load" => token = NoToken,
         to \in {"check", "refresh", "auth"} /\ token = NoToken => ~ Readable(cache)
  PROVE  TokenIInv'
<1>1. /\ pc'[c] = to /\ \A d \in Callers \ {c} : pc'[d] = pc[d]
      /\ pc' \in [Callers -> {"idle", "waiting", "load", "check", "refresh", "auth", "save"}]
  BY DEF Goes, TokenIInv, TypeOK
<1>6. /\ issued \in Nat /\ issued' \in 0 .. MaxTokens /\ issued <= issued'
      /\ received \in 0 .. issued' /\ granted \in 0 .. issued'
  BY OidcClientAssumption DEF TokenIInv, TypeOK
<1>7. /\ IssuedOK(token)' /\ IssuedOK(cache)' /\ \A d \in Callers : IssuedOK(saving[d])'
  BY <1>6, OidcClientAssumption, LaterIsIssued DEF TokenIInv, CallerOK, IssuedOK
<1>2. TypeOK'
  BY <1>1, <1>6 DEF TokenIInv, TypeOK
<1>3. ASSUME NEW d \in Callers PROVE CallerOK(d)'
  <2>1. pc'[d] \in Holding <=> holder' = d
    <3>1. (pc[d] \in Holding <=> holder = d) /\ (pc[c] \in Holding <=> holder = c) /\ NoCaller # d /\ NoCaller # c
      BY OidcClientAssumption DEF TokenIInv, CallerOK
    <3> QED
      BY <1>1, <3>1
  <2>2. CASE d = c
    BY <1>1, <1>7, <2>1, <2>2 DEF TokenIInv, CallerOK, Readable
  <2>3. CASE d # c
    BY <1>1, <1>7, <2>1, <2>3 DEF TokenIInv, CallerOK, Readable
  <2> QED
    BY <2>2, <2>3
<1>4. (\E d \in Callers : pc[d] = "save") => (\E d \in Callers : pc'[d] = "save")
  BY <1>1
<1>5. HasIt'
  BY <1>4 DEF TokenIInv, HasIt, Readable
<1> QED
  BY <1>2, <1>3, <1>5, <1>7 DEF TokenIInv

LEMMA MovingStepsInv ==
  ASSUME TokenIInv, NEW c \in Callers, Ask(c) \/ Lock(c) \/ Check(c)
  PROVE  TokenIInv'
<1>1. /\ UNCHANGED <<issued, usable, expired, token, cache, saving, received, granted, forgotten>>
      /\ issued' \in issued .. MaxTokens /\ usable' \in 0 .. issued' /\ expired' \subseteq 1 .. issued'
  <2>1. UNCHANGED <<issued, usable, expired, token, cache, saving, received, granted, forgotten>>
    BY DEF Ask, Lock, Check, serverVars, clientVars, knownVars
  <2>2. issued \in Nat /\ issued <= MaxTokens /\ usable \in 0 .. issued /\ expired \subseteq 1 .. issued
    BY OidcClientAssumption DEF TokenIInv, TypeOK
  <2> QED
    BY <2>1, <2>2, OidcClientAssumption
<1>2. CASE Ask(c)
  <2>1. pc[c] = "idle" /\ Goes(c, "waiting") /\ holder' = holder
    BY <1>2 DEF Ask, clientVars
  <2> QED
    BY <1>1, <2>1, Moves DEF Holding
<1>3. CASE Lock(c)
  <2>1. pc[c] = "waiting" /\ holder = NoCaller /\ holder' = c /\ Goes(c, IF token = NoToken THEN "load" ELSE "check")
    BY <1>3 DEF Lock
  <2>2. CASE token = NoToken
    <3>1. Goes(c, "load")
      BY <2>1, <2>2
    <3> QED
      BY <1>1, <2>1, <3>1, Moves DEF Holding
  <2>3. CASE token # NoToken
    <3>1. Goes(c, "check")
      BY <2>1, <2>3
    <3> QED
      BY <1>1, <2>1, <2>3, <3>1, Moves DEF Holding
  <2> QED
    BY <2>2, <2>3
<1>4. CASE Check(c)
  <2>1. pc[c] = "check" /\ (token = NoToken => ~ Readable(cache))
    BY <1>4 DEF Check, TokenIInv, CallerOK
  <2>2. \/ Goes(c, "auth") /\ holder' = holder
        \/ Goes(c, "refresh") /\ holder' = holder
        \/ Goes(c, "idle") /\ holder' = NoCaller
    BY <1>4 DEF Check, Return
  <2>3. CASE Goes(c, "auth") /\ holder' = holder
    BY <1>1, <2>1, <2>3, Moves DEF Holding
  <2>4. CASE Goes(c, "refresh") /\ holder' = holder
    BY <1>1, <2>1, <2>4, Moves DEF Holding
  <2>5. CASE Goes(c, "idle") /\ holder' = NoCaller
    BY <1>1, <2>1, <2>5, Moves DEF Holding
  <2> QED
    BY <2>2, <2>3, <2>4, <2>5
<1> QED
  BY <1>2, <1>3, <1>4

LEMMA LoadInv ==
  ASSUME TokenIInv, NEW c \in Callers, Load(c)
  PROVE  TokenIInv'
<1>1. /\ pc[c] = "load" /\ token = NoToken /\ holder = c
      /\ UNCHANGED <<issued, usable, expired, cache, holder, saving, received, granted, forgotten>>
      /\ token' = IF Readable(cache) THEN cache ELSE NoToken
  BY DEF Load, serverVars, knownVars, TokenIInv, CallerOK, Holding
<1>2. /\ pc'[c] = "check" /\ \A d \in Callers \ {c} : pc'[d] = pc[d] /\ pc[d] \in {"idle", "waiting"}
      /\ pc' \in [Callers -> {"idle", "waiting", "load", "check", "refresh", "auth", "save"}]
  BY <1>1 DEF Load, Goes, TokenIInv, TypeOK, CallerOK, Holding
<1>3. /\ Readable(cache) => token' = cache /\ cache \in Token /\ token' # NoToken
      /\ ~ Readable(cache) => token' = NoToken
  BY <1>1 DEF Readable, TokenIInv, TypeOK
<1>4. TypeOK'
  BY <1>1, <1>2, <1>3 DEF TokenIInv, TypeOK
<1>5. ASSUME NEW d \in Callers PROVE CallerOK(d)'
  BY <1>1, <1>2, <1>3 DEF TokenIInv, CallerOK, IssuedOK, Holding, Readable
<1>6. HasIt'
  BY <1>1, <1>2, <1>3 DEF TokenIInv, HasIt, Readable
<1> QED
  BY <1>1, <1>3, <1>4, <1>5, <1>6, OidcClientAssumption DEF TokenIInv, IssuedOK

\* A token from the server: what is saved is the newest, and has the newest refresh
\* token the client was given, if it had that before.
LEMMA UpdateInv ==
  ASSUME TokenIInv, NEW c \in Callers, pc[c] \in {"refresh", "auth"}, NEW fresh \in BOOLEAN,
         Issue(fresh), Update(c, fresh)
  PROVE  TokenIInv'
<1>1. /\ issued \in Nat /\ issued' = issued + 1 /\ issued' \in 1 .. MaxTokens
      /\ usable' \in 0 .. issued' /\ expired' = expired /\ expired \subseteq 1 .. issued
      /\ received \in 0 .. issued /\ granted \in 0 .. issued
  BY OidcClientAssumption DEF Issue, TokenIInv, TypeOK
<1>2. PICK lifetime \in BOOLEAN :
        saving' = [saving EXCEPT ![c] =
          [access |-> issued', expires |-> lifetime,
           refresh |-> IF fresh THEN issued' ELSE IF token = NoToken THEN 0 ELSE token.refresh]]
  BY DEF Update
<1>3. /\ token' = NoToken /\ received' = issued' /\ granted' = IF fresh THEN issued' ELSE granted
      /\ UNCHANGED <<cache, holder, forgotten>> /\ holder = c
  BY DEF Update, TokenIInv, CallerOK, Holding
<1>4. /\ pc'[c] = "save" /\ \A d \in Callers \ {c} : pc'[d] = pc[d] /\ pc[d] \in {"idle", "waiting"}
      /\ pc' \in [Callers -> {"idle", "waiting", "load", "check", "refresh", "auth", "save"}]
  BY <1>3 DEF Update, Goes, TokenIInv, TypeOK, CallerOK, Holding
<1>5. /\ token # NoToken => token \in Token /\ token.refresh \in 0 .. issued
      /\ \A n \in 0 .. issued : n \in 0 .. MaxTokens /\ n <= issued' /\ n \in 0 .. issued'
  <2>1. token # NoToken => token \in Token /\ token.refresh <= issued /\ token.refresh \in Nat
    BY DEF TokenIInv, TypeOK, IssuedOK, Token
  <2>2. token # NoToken => token.refresh \in 0 .. issued
    BY <1>1, <2>1
  <2>3. \A n \in 0 .. issued : n \in 0 .. MaxTokens /\ n <= issued' /\ n \in 0 .. issued'
    BY <1>1, OidcClientAssumption
  <2> QED
    BY <2>1, <2>2, <2>3
<1>6. /\ saving'[c] \in Token /\ saving'[c].access = issued' /\ saving'[c].refresh <= issued'
      /\ saving'[c].refresh = IF fresh THEN issued' ELSE IF token = NoToken THEN 0 ELSE token.refresh
      /\ \A d \in Callers \ {c} : saving'[d] = saving[d]
      /\ saving' \in [Callers -> Token \cup {NoToken}]
  <2> DEFINE new == [access |-> issued', expires |-> lifetime,
                     refresh |-> IF fresh THEN issued' ELSE IF token = NoToken THEN 0 ELSE token.refresh]
  <2>1. new.refresh \in 0 .. MaxTokens /\ new.refresh <= issued'
    BY <1>1, <1>5
  <2>2. new \in Token /\ new.access = issued'
    BY <1>1, <2>1 DEF Token
  <2>3. saving'[c] = new
    BY <1>2 DEF TokenIInv, TypeOK
  <2> QED
    BY <1>2, <2>1, <2>2, <2>3 DEF TokenIInv, TypeOK
<1>7. ~ forgotten /\ ~ fresh => saving'[c].refresh = granted
  <2>1. ~ \E d \in Callers : pc[d] = "save"
    BY <1>4
  <2>2. token = NoToken => ~ Readable(cache)
    BY DEF TokenIInv, CallerOK
  <2> QED
    BY <1>6, <2>1, <2>2 DEF TokenIInv, HasIt
<1>8. IssuedOK(cache)' /\ IssuedOK(token)' /\ \A d \in Callers \ {c} : IssuedOK(saving[d])'
  <2>1. \A t : IssuedOK(t) => (t \in Token => t.access <= issued' /\ t.refresh <= issued')
    BY <1>1, LaterIsIssued
  <2> QED
    BY <1>3, <1>6, <2>1, OidcClientAssumption DEF TokenIInv, CallerOK, IssuedOK
<1>9. TypeOK'
  <2>1. /\ issued' \in 0 .. MaxTokens /\ issued' \in 0 .. issued' /\ granted' \in 0 .. issued'
        /\ expired' \subseteq 1 .. issued'
    BY <1>1, <1>3, <1>5
  <2> QED
    BY <1>1, <1>3, <1>4, <1>6, <2>1 DEF TokenIInv, TypeOK
<1>10. ASSUME NEW d \in Callers PROVE CallerOK(d)'
  <2>1. CASE d = c
    <3>1. IssuedOK(saving[c])'
      BY <1>1, <1>6 DEF IssuedOK
    <3>2. ~ forgotten' => saving'[c].refresh = granted'
      BY <1>3, <1>6, <1>7
    <3> QED
      BY <1>3, <1>4, <1>6, <2>1, <3>1, <3>2 DEF CallerOK, Holding
  <2>2. CASE d # c
    BY <1>3, <1>4, <1>8, <2>2 DEF CallerOK, Holding
  <2> QED
    BY <2>1, <2>2
<1> QED
  BY <1>3, <1>4, <1>8, <1>9, <1>10 DEF TokenIInv, HasIt

LEMMA RefreshAuthInv ==
  ASSUME TokenIInv, NEW c \in Callers, Refresh(c) \/ Auth(c)
  PROVE  TokenIInv'
<1>1. pc[c] \in {"refresh", "auth"} /\ holder = c
  BY DEF Refresh, Auth, TokenIInv, CallerOK, Holding
<1>2. CASE \E fresh \in BOOLEAN : Issue(fresh) /\ Update(c, fresh)
  BY <1>1, <1>2, UpdateInv
<1>3. ASSUME UNCHANGED <<issued, usable, expired, token, cache, saving, received, granted, forgotten>>
      PROVE  issued' \in issued .. MaxTokens /\ usable' \in 0 .. issued' /\ expired' \subseteq 1 .. issued'
  <2>1. issued \in Nat /\ issued <= MaxTokens /\ usable \in 0 .. issued /\ expired \subseteq 1 .. issued
    BY OidcClientAssumption DEF TokenIInv, TypeOK
  <2> QED
    BY <1>3, <2>1, OidcClientAssumption
<1>4. CASE pc[c] = "refresh" /\ Goes(c, "auth") /\ UNCHANGED <<serverVars, clientVars, knownVars>>
  <2>1. UNCHANGED <<issued, usable, expired, token, cache, holder, saving, received, granted, forgotten>>
    BY <1>4 DEF serverVars, clientVars, knownVars
  <2>2. token = NoToken => ~ Readable(cache)
    BY <1>1 DEF TokenIInv, CallerOK
  <2> QED
    BY <1>3, <1>4, <2>1, <2>2, Moves DEF Holding
<1>5. CASE pc[c] = "auth" /\ FailLogin(c)
  <2>1. /\ UNCHANGED <<issued, usable, expired, token, cache, saving, received, granted, forgotten>>
        /\ Goes(c, "idle") /\ holder' = NoCaller
    BY <1>5 DEF FailLogin, Return, serverVars, knownVars
  <2> QED
    BY <1>3, <1>5, <2>1, Moves DEF Holding
<1> QED
  BY <1>2, <1>4, <1>5 DEF Refresh, Auth

\* The holder has saved what it was given, or was given up while it did.
LEMMA SavedInv ==
  ASSUME TokenIInv, NEW c \in Callers, pc[c] = "save", Goes(c, "idle"), holder' = NoCaller,
         UNCHANGED <<issued, usable, expired, received, granted>>,
         cache' \in {saving[c], cache, Broken}, saving' = [saving EXCEPT ![c] = NoToken],
         \/ token' = token /\ forgotten' = TRUE
         \/ token' = saving[c] /\ forgotten' = (forgotten /\ saving[c].refresh # granted)
  PROVE  TokenIInv'
<1>1. /\ saving[c] \in Token /\ saving[c].access = received /\ (~ forgotten => saving[c].refresh = granted)
      /\ holder = c /\ IssuedOK(saving[c]) /\ IssuedOK(Broken)
  BY OidcClientAssumption DEF TokenIInv, CallerOK, Holding, IssuedOK
<1>2. /\ pc'[c] = "idle" /\ \A d \in Callers \ {c} : pc'[d] = pc[d] /\ pc[d] \in {"idle", "waiting"}
      /\ pc' \in [Callers -> {"idle", "waiting", "load", "check", "refresh", "auth", "save"}]
  BY <1>1 DEF Goes, TokenIInv, TypeOK, CallerOK, Holding
<1>3. /\ saving' \in [Callers -> Token \cup {NoToken}] /\ saving'[c] = NoToken
      /\ \A d \in Callers \ {c} : saving'[d] = saving[d]
  BY DEF TokenIInv, TypeOK
<1>4. token' \in Token \cup {NoToken} /\ cache' \in Token \cup {NoToken, Broken} /\ forgotten' \in BOOLEAN
  BY <1>1 DEF TokenIInv, TypeOK
<1>5. TypeOK'
  BY <1>2, <1>3, <1>4 DEF TokenIInv, TypeOK
<1>6. IssuedOK(token)' /\ IssuedOK(cache)'
  BY <1>1 DEF TokenIInv, IssuedOK
<1>7. ASSUME NEW d \in Callers PROVE CallerOK(d)'
  <2>1. CASE d = c
    BY <1>2, <1>3, <2>1, OidcClientAssumption DEF CallerOK, IssuedOK, Holding
  <2>2. CASE d # c
    <3>1. CallerOK(d) /\ NoCaller # d
      BY OidcClientAssumption DEF TokenIInv
    <3> QED
      BY <1>2, <1>3, <2>2, <3>1 DEF CallerOK, IssuedOK, Holding
  <2> QED
    BY <2>1, <2>2
<1>8. HasIt'
  BY <1>1, OidcClientAssumption DEF HasIt
<1> QED
  BY <1>5, <1>6, <1>7, <1>8 DEF TokenIInv

LEMMA SaveAbandonInv ==
  ASSUME TokenIInv, NEW c \in Callers, Save(c) \/ Abandon(c)
  PROVE  TokenIInv'
<1>1. issued \in Nat /\ issued <= MaxTokens /\ usable \in 0 .. issued /\ expired \subseteq 1 .. issued
  BY OidcClientAssumption DEF TokenIInv, TypeOK
<1>2. CASE Save(c)
  <2>1. /\ pc[c] = "save" /\ Goes(c, "idle") /\ holder' = NoCaller
        /\ UNCHANGED <<issued, usable, expired, received, granted>>
        /\ cache' \in {saving[c], cache, Broken} /\ saving' = [saving EXCEPT ![c] = NoToken]
        /\ token' = saving[c] /\ forgotten' = (forgotten /\ saving[c].refresh # granted)
    BY <1>2 DEF Save, Return, serverVars
  <2> QED
    BY <2>1, SavedInv
<1>3. CASE Abandon(c) /\ pc[c] = "save"
  <2>1. /\ Goes(c, "idle") /\ holder' = NoCaller
        /\ UNCHANGED <<issued, usable, expired, received, granted>>
        /\ cache' \in {saving[c], cache, Broken} /\ saving' = [saving EXCEPT ![c] = NoToken]
        /\ token' = token /\ forgotten' = TRUE
    BY <1>3 DEF Abandon
  <2> QED
    BY <1>3, <2>1, SavedInv
<1>4. CASE Abandon(c) /\ pc[c] # "save"
  <2>1. /\ Goes(c, "idle") /\ UNCHANGED <<token, cache, saving, received, granted, forgotten, expired>>
        /\ \/ pc[c] \notin Holding /\ holder' = holder
           \/ pc[c] \in Holding /\ holder' = NoCaller
        /\ \/ issued' = issued /\ usable' = usable
           \/ issued < MaxTokens /\ issued' = issued + 1 /\ usable' = issued + 1
    BY <1>4 DEF Abandon, Holding
  <2>2. issued' \in issued .. MaxTokens /\ usable' \in 0 .. issued' /\ expired' \subseteq 1 .. issued'
    BY <1>1, <2>1, OidcClientAssumption
  <2> QED
    BY <1>4, <2>1, <2>2, Moves DEF Holding
<1> QED
  BY <1>2, <1>3, <1>4

LEMMA RestartInv ==
  ASSUME TokenIInv, Restart
  PROVE  TokenIInv'
<1>1. /\ \A c \in Callers : pc[c] = "idle"
      /\ UNCHANGED <<issued, usable, expired, cache, holder, saving, pc>> /\ token' = NoToken
  BY DEF Restart, serverVars
<1>2. \/ /\ cache \in Token /\ cache # NoToken /\ cache # Broken
         /\ received' = cache.access /\ granted' = cache.refresh /\ forgotten' = ~ Readable(cache)
      \/ cache \in {NoToken, Broken} /\ received' = 0 /\ granted' = 0 /\ forgotten' = FALSE
  BY OidcClientAssumption DEF Restart, TokenIInv, TypeOK
<1>3. issued \in Nat
  BY OidcClientAssumption DEF TokenIInv, TypeOK
<1>8. forgotten' \in BOOLEAN
  <2>1. forgotten' = (cache \notin {NoToken, Broken} /\ ~ Readable(cache))
    BY DEF Restart
  <2> QED
    BY <2>1, Zenon
<1>4. received' \in 0 .. issued /\ granted' \in 0 .. issued
  <2>1. CASE cache \in Token /\ received' = cache.access /\ granted' = cache.refresh /\ forgotten' = ~ Readable(cache)
    <3>1. cache.access \in Nat /\ cache.refresh \in Nat /\ cache.access <= issued /\ cache.refresh <= issued
      BY <2>1 DEF TokenIInv, IssuedOK, Token
    <3>2. received' \in 0 .. issued /\ granted' \in 0 .. issued
      BY <1>3, <2>1, <3>1
    <3> QED
      BY <3>2
  <2>2. CASE received' = 0 /\ granted' = 0 /\ forgotten' = FALSE
    BY <1>3, <2>2
  <2> QED
    BY <1>2, <2>1, <2>2
<1>5. TypeOK'
  BY <1>1, <1>4, <1>8 DEF TokenIInv, TypeOK
<1>6. \A c \in Callers : CallerOK(c)'
  BY <1>1 DEF TokenIInv, CallerOK, IssuedOK, Holding
<1>7. HasIt'
  BY <1>1, <1>2 DEF HasIt, Readable
<1> QED
  BY <1>1, <1>5, <1>6, <1>7, OidcClientAssumption DEF TokenIInv, IssuedOK

LEMMA TokenStepInv == TokenIInv /\ [Next]_vars => TokenIInv'
<1> SUFFICES ASSUME TokenIInv, [Next]_vars PROVE TokenIInv'
  OBVIOUS
<1>1. CASE UNCHANGED vars
  BY <1>1 DEF vars, serverVars, clientVars, knownVars, TokenIInv, TypeOK, CallerOK, IssuedOK, HasIt, Holding, Readable
<1>2. CASE Expire \/ Revoke \/ Restart
  BY <1>2, ServerStepInv, RestartInv
<1>3. ASSUME NEW c \in Callers, Ask(c) \/ Step(c) \/ Abandon(c)
      PROVE  TokenIInv'
  BY <1>3, MovingStepsInv, LoadInv, RefreshAuthInv, SaveAbandonInv DEF Step
<1> QED
  BY <1>1, <1>2, <1>3 DEF Next

\* Between requests the token in memory is the newest that the client was given
\* (access_token and update_token of oidc.rs under the mutex of the authenticator).
THEOREM TokenSafe == Spec => []TokenInv
<1>1. TokenIInv => TokenInv
  BY DEF TokenIInv, TokenInv, HasIt, NewestIsUsed
<1> QED
  BY <1>1, TokenInitInv, TokenStepInv, PTL DEF Spec

\* No step begins a login without trying the refresh token, while the client has one
\* that the server would take: what has been forgotten is only what HasIt leaves out.
THEOREM LoginKept == Spec => LoginIsKept
<1>1. TokenIInv /\ [Next]_vars => [~ forgotten => ~ ForgetsLogin]_vars
  <2> SUFFICES ASSUME TokenIInv, Next, ~ forgotten, NEW c \in Callers,
                      pc[c] = "check", pc'[c] = "auth", granted # 0, granted = usable
               PROVE  FALSE
    BY DEF ForgetsLogin
  <2>1. Check(c)
    <3>1. pc'[c] # pc[c] /\ ~ (\A d \in Callers : pc[d] = "idle")
      OBVIOUS
    <3>2. PICK d \in Callers : Ask(d) \/ Step(d) \/ Abandon(d)
      BY <3>1 DEF Next, Expire, Revoke, Restart
    <3>3. \E to : Goes(d, to)
      BY <3>2 DEF Ask, Step, Abandon, Lock, Load, Check, Refresh, Auth, Save, Return, Update, FailLogin
    <3>4. d = c
      BY <3>1, <3>3 DEF Goes, TokenIInv, TypeOK
    <3>5. ~ Ask(c) /\ ~ Lock(c) /\ ~ Load(c) /\ ~ Refresh(c) /\ ~ Auth(c) /\ ~ Save(c) /\ ~ Abandon(c)
      BY DEF Ask, Lock, Load, Refresh, Auth, Save, Abandon
    <3> QED
      BY <3>2, <3>4, <3>5 DEF Step
  <2>2. token # NoToken => token.refresh = 0
    BY <2>1 DEF Check, Return, Goes, TokenIInv, TypeOK
  <2>3. \A d \in Callers : pc[d] # "save"
    BY DEF TokenIInv, CallerOK, Holding
  <2>4. token = NoToken => ~ Readable(cache)
    BY DEF TokenIInv, CallerOK
  <2> QED
    BY <2>2, <2>3, <2>4 DEF TokenIInv, HasIt
<1> QED
  BY <1>1, TokenInitInv, TokenStepInv, PTL DEF Spec, LoginIsKept

-----------------------------------------------------------------------------
(* The writer of uploads. *)

LEMMA BufferSizeOK == BufferSize \in Nat \ {0} /\ MaxWrite \in Nat
<1>1. MaxWrite \in Nat /\ BlockSize \in Nat \ {0} /\ BlockSize <= MaxWrite
  BY BatchWriterAssumption
<1>2. MaxWrite % BlockSize \in 0 .. BlockSize - 1
  BY <1>1
<1> QED
  BY <1>1, <1>2 DEF BufferSize

\* Bytes with the positions they go to.
LEMMA AtOK ==
  ASSUME NEW S, NEW bytes \in Seq(S), NEW start \in Nat
  PROVE  /\ At(start, bytes) \in Seq(Nat \X S) /\ Len(At(start, bytes)) = Len(bytes)
         /\ \A i \in 1 .. Len(bytes) : At(start, bytes)[i] = <<start + i - 1, bytes[i]>>
<1>1. DOMAIN bytes = 1 .. Len(bytes) /\ Len(bytes) \in Nat /\ \A i \in 1 .. Len(bytes) : bytes[i] \in S
  OBVIOUS
<1>2. \A i \in 1 .. Len(bytes) : start + i - 1 \in Nat
  BY <1>1
<1>3. \A i \in 1 .. Len(bytes) : <<start + i - 1, bytes[i]>> \in Nat \X S
  BY <1>1, <1>2
<1>4. At(start, bytes) \in [1 .. Len(bytes) -> Nat \X S]
  BY <1>1, <1>3 DEF At
<1>5. At(start, bytes) \in Seq(Nat \X S) /\ Len(At(start, bytes)) = Len(bytes)
  BY <1>1, <1>4
<1> QED
  BY <1>1, <1>5 DEF At

\* Bytes that are batched go behind those before.
LEMMA AtConcat ==
  ASSUME NEW S, NEW a \in Seq(S), NEW b \in Seq(S), NEW start \in Nat
  PROVE  At(start, a \o b) = At(start, a) \o At(start + Len(a), b)
<1>1. /\ a \o b \in Seq(S) /\ Len(a \o b) = Len(a) + Len(b) /\ Len(a) \in Nat /\ Len(b) \in Nat
      /\ \A i \in 1 .. Len(a) + Len(b) : (a \o b)[i] = IF i <= Len(a) THEN a[i] ELSE b[i - Len(a)]
  BY ConcatProperties
<1>2. start + Len(a) \in Nat
  BY <1>1
<1>3. /\ At(start, a) \in Seq(Nat \X S) /\ Len(At(start, a)) = Len(a)
      /\ \A i \in 1 .. Len(a) : At(start, a)[i] = <<start + i - 1, a[i]>>
  BY AtOK
<1>4. /\ At(start + Len(a), b) \in Seq(Nat \X S) /\ Len(At(start + Len(a), b)) = Len(b)
      /\ \A i \in 1 .. Len(b) : At(start + Len(a), b)[i] = <<start + Len(a) + i - 1, b[i]>>
  BY <1>2, AtOK
<1>5. /\ At(start, a \o b) \in Seq(Nat \X S) /\ Len(At(start, a \o b)) = Len(a) + Len(b)
      /\ \A i \in 1 .. Len(a) + Len(b) : At(start, a \o b)[i] = <<start + i - 1, (a \o b)[i]>>
  <2>1. /\ At(start, a \o b) \in Seq(Nat \X S) /\ Len(At(start, a \o b)) = Len(a \o b)
        /\ \A i \in 1 .. Len(a \o b) : At(start, a \o b)[i] = <<start + i - 1, (a \o b)[i]>>
    BY <1>1, AtOK
  <2> QED
    BY <1>1, <2>1
<1> DEFINE u == At(start, a)
           v == At(start + Len(a), b)
<1>6. /\ u \o v \in Seq(Nat \X S) /\ Len(u \o v) = Len(a) + Len(b)
      /\ \A i \in 1 .. Len(a) + Len(b) : (u \o v)[i] = IF i <= Len(a) THEN u[i] ELSE v[i - Len(a)]
  <2> HIDE DEF u, v
  <2>1. u \in Seq(Nat \X S) /\ v \in Seq(Nat \X S) /\ Len(u) = Len(a) /\ Len(v) = Len(b)
    BY <1>3, <1>4 DEF u, v
  <2>2. \A T : \A s, t \in Seq(T) :
          /\ s \o t \in Seq(T) /\ Len(s \o t) = Len(s) + Len(t)
          /\ \A i \in 1 .. Len(s) + Len(t) : (s \o t)[i] = IF i <= Len(s) THEN s[i] ELSE t[i - Len(s)]
    BY ConcatProperties
  <2>3. /\ u \o v \in Seq(Nat \X S) /\ Len(u \o v) = Len(u) + Len(v)
        /\ \A i \in 1 .. Len(u) + Len(v) : (u \o v)[i] = IF i <= Len(u) THEN u[i] ELSE v[i - Len(u)]
    BY <2>1, <2>2, Zenon
  <2> QED
    BY <2>1, <2>3
<1>7. ASSUME NEW i \in 1 .. Len(a) + Len(b)
      PROVE  (u \o v)[i] = At(start, a \o b)[i]
  <2>1. CASE i <= Len(a)
    <3>1. i \in 1 .. Len(a)
      BY <1>1, <2>1
    <3> QED
      BY <1>1, <1>3, <1>5, <1>6, <2>1, <3>1
  <2>2. CASE ~ (i <= Len(a))
    <3>1. i - Len(a) \in 1 .. Len(b) /\ start + Len(a) + (i - Len(a)) - 1 = start + i - 1
      BY <1>1, <2>2
    <3>2. (u \o v)[i] = v[i - Len(a)] /\ (a \o b)[i] = b[i - Len(a)]
      BY <1>1, <1>6, <2>2
    <3>3. v[i - Len(a)] = <<start + Len(a) + (i - Len(a)) - 1, b[i - Len(a)]>>
      BY <1>4, <3>1
    <3> QED
      BY <1>5, <3>1, <3>2, <3>3
  <2> QED
    BY <2>1, <2>2
<1> QED
  <2> HIDE DEF u, v
  <2>1. u \o v = At(start, a \o b)
    BY <1>1, <1>5, <1>6, <1>7, SeqEqual
  <2> QED
    BY <2>1 DEF u, v

LEMMA AtNothing ==
  ASSUME NEW start
  PROVE  At(start, << >>) = << >>
<1>1. DOMAIN << >> = {}
  OBVIOUS
<1>2. At(start, << >>) = [i \in {} |-> <<start + i - 1, << >>[i]>>]
  BY <1>1 DEF At
<1> QED
  BY <1>2

LEMMA BytesOK ==
  ASSUME NEW n \in Nat, accepted \in Seq(Nat \X (1 .. MaxBytes)), Len(accepted) + n <= MaxBytes
  PROVE  Bytes(n) \in Seq(1 .. MaxBytes) /\ Len(Bytes(n)) = n
<1>1. Len(accepted) \in Nat /\ MaxBytes \in Nat
  BY BatchWriterAssumption
<1>2. \A i \in 1 .. n : Len(accepted) + i \in 1 .. MaxBytes
  BY <1>1
<1> QED
  BY <1>2 DEF Bytes

LEMMA UptoOK ==
  ASSUME NEW S, NEW bytes \in Seq(S), NEW n \in Nat
  PROVE  Upto(n, bytes) \in Seq(S) /\ Len(Upto(n, bytes)) \in Nat
  BY DEF Upto

SeeksOK == {pendingSeek, posAsked, seeking} \subseteq Seeks \cup {NoSeek} /\ SeekIsDue

LEMMA SeeksStay ==
  ASSUME SeeksOK, UNCHANGED <<pendingSeek, posAsked, seeking>>
  PROVE  SeeksOK'
BY DEF SeeksOK, SeekIsDue, Due

LEMMA DestinationOK ==
  ASSUME NEW seek \in Seeks \cup {NoSeek}, NEW from \in Nat
  PROVE  Destination(seek, from) \in Nat
<1>1. CASE seek = NoSeek
  BY <1>1 DEF Destination
<1>2. CASE seek # NoSeek
  <2>1. seek.by \in Int
    BY <1>2, BatchWriterAssumption
  <2> QED
    BY <1>2, <2>1 DEF Destination
<1> QED
  BY <1>1, <1>2

\* The user's position is behind what is batched.
WriterIInv == WriterInv /\ userPos = pos + Len(batch)

LEMMA WriterSeeks == WriterIInv => SeeksOK
BY DEF WriterIInv, WriterInv, WriterTypeOK, SeeksOK

LEMMA WriterFacts ==
  ASSUME WriterIInv
  PROVE  /\ batch \in Seq(1 .. MaxBytes) /\ Len(batch) \in Nat /\ pos \in Nat /\ userPos \in Nat
         /\ sent \in Seq(Nat \X (1 .. MaxBytes)) /\ accepted \in Seq(Nat \X (1 .. MaxBytes))
         /\ Len(accepted) \in Nat /\ userPos = pos + Len(batch)
         /\ At(pos, batch) \in Seq(Nat \X (1 .. MaxBytes)) /\ sent \o At(pos, batch) = accepted
         /\ << >> \in Seq(1 .. MaxBytes)
<1>1. /\ batch \in Seq(1 .. MaxBytes) /\ pos \in Nat /\ userPos \in Nat
      /\ sent \in Seq(Nat \X (1 .. MaxBytes)) /\ accepted \in Seq(Nat \X (1 .. MaxBytes))
      /\ userPos = pos + Len(batch) /\ sent \o At(pos, batch) = accepted
  BY DEF WriterIInv, WriterInv, WriterTypeOK, NothingLostOrMoved
<1>2. \A S : \A s \in Seq(S) : Len(s) \in Nat /\ << >> \in Seq(S)
  OBVIOUS
<1>3. Len(batch) \in Nat /\ Len(accepted) \in Nat /\ << >> \in Seq(1 .. MaxBytes)
  BY <1>1, <1>2, Zenon
<1>4. \A S : \A s \in Seq(S), n \in Nat : At(n, s) \in Seq(Nat \X S)
  BY AtOK
<1>5. At(pos, batch) \in Seq(Nat \X (1 .. MaxBytes))
  BY <1>1, <1>4, Zenon
<1> QED
  BY <1>1, <1>3, <1>5

\* What goes to the volume, the batch and what was taken from the user with it, goes
\* to the places that the user meant.
LEMMA AllArrives ==
  ASSUME WriterIInv, NEW bytes \in Seq(1 .. MaxBytes)
  PROVE  /\ sent \o At(pos, batch \o bytes) = accepted \o At(userPos, bytes)
         /\ accepted \o At(userPos, bytes) \in Seq(Nat \X (1 .. MaxBytes))
<1>5. /\ batch \in Seq(1 .. MaxBytes) /\ pos \in Nat /\ userPos \in Nat /\ userPos = pos + Len(batch)
      /\ sent \in Seq(Nat \X (1 .. MaxBytes)) /\ accepted \in Seq(Nat \X (1 .. MaxBytes))
      /\ At(pos, batch) \in Seq(Nat \X (1 .. MaxBytes)) /\ sent \o At(pos, batch) = accepted
  BY WriterFacts
<1>1. At(pos, batch \o bytes) = At(pos, batch) \o At(userPos, bytes)
  <2>1. \A S : \A a, b \in Seq(S), n \in Nat : At(n, a \o b) = At(n, a) \o At(n + Len(a), b)
    BY AtConcat
  <2> QED
    BY <1>5, <2>1, Zenon
<1>2. At(userPos, bytes) \in Seq(Nat \X (1 .. MaxBytes))
  <2>1. \A S : \A s \in Seq(S), n \in Nat : At(n, s) \in Seq(Nat \X S)
    BY AtOK
  <2> QED
    BY <1>5, <2>1, Zenon
<1>3. sent \o (At(pos, batch) \o At(userPos, bytes)) = accepted \o At(userPos, bytes)
  <2>3. \A s, t, u \in Seq(Nat \X (1 .. MaxBytes)) : (s \o t) \o u = s \o (t \o u)
    <3> DEFINE Placed == Nat \X (1 .. MaxBytes)
    <3>1. \A s, t, u \in Seq(Placed) : (s \o t) \o u = s \o (t \o u)
      <4> HIDE DEF Placed
      <4> QED
        BY SMT
    <3> QED
      BY <3>1, Zenon
  <2>4. /\ sent \in Seq(Nat \X (1 .. MaxBytes)) /\ At(pos, batch) \in Seq(Nat \X (1 .. MaxBytes))
        /\ At(userPos, bytes) \in Seq(Nat \X (1 .. MaxBytes))
    BY <1>2, <1>5, Zenon
  <2>5. \A t, u \in Seq(Nat \X (1 .. MaxBytes)) : (sent \o t) \o u = sent \o (t \o u)
    BY <2>3, <2>4, Zenon
  <2>6. \A u \in Seq(Nat \X (1 .. MaxBytes)) : (sent \o At(pos, batch)) \o u = sent \o (At(pos, batch) \o u)
    BY <2>4, <2>5, Zenon
  <2>1. (sent \o At(pos, batch)) \o At(userPos, bytes) = sent \o (At(pos, batch) \o At(userPos, bytes))
    BY <2>4, <2>6, Zenon
  <2>2. \A s, t, u, a, b : s \o t = a /\ (s \o t) \o u = b => b = a \o u
    OBVIOUS
  <2> QED
    BY <1>5, <2>1, <2>2, Zenon
<1>4. accepted \o At(userPos, bytes) \in Seq(Nat \X (1 .. MaxBytes))
  <2>1. \A S : \A s, t \in Seq(S) : s \o t \in Seq(S)
    BY ConcatProperties
  <2> QED
    BY <1>2, <1>5, <2>1, Zenon
<1> QED
  BY <1>1, <1>3, <1>4, <1>5

\* When the batch has gone, wherever the volume is then.
LEMMA AllSent ==
  ASSUME WriterIInv, batch' = << >>, pos' \in Nat, userPos' = pos', sent' = accepted',
         accepted' \in Seq(Nat \X (1 .. MaxBytes)),
         SeeksOK', discard' = discard,
         polled' \in {"write", "flush", "shutdown", "seek"} \X {"ok", "pending", "error"}
  PROVE  WriterIInv'
<1>1. Len(batch') = 0 /\ Len(batch') < BufferSize /\ BufferSize' = BufferSize
  BY BufferSizeOK DEF BufferSize
<1>2. sent' \o At(pos', batch') = accepted'
  <2>1. At(pos', batch') = << >>
    BY AtNothing
  <2> QED
    BY <2>1, ConcatEmptySeq
<1>3. WriterTypeOK'
  BY <1>1 DEF WriterIInv, WriterInv, WriterTypeOK, SeeksOK
<1>4. userPos' = pos' + Len(batch')
  <2>1. \A n \in Nat : n + 0 = n
    OBVIOUS
  <2> QED
    BY <1>1, <2>1
<1> QED
  BY <1>2, <1>3, <1>4 DEF WriterIInv, WriterInv, NothingLostOrMoved, SyncedIsSent, SeeksOK

\* A poll that ended early, or moved nothing.
LEMMA NothingMoves ==
  ASSUME WriterIInv, UNCHANGED <<batch, pos, sent, accepted, userPos, discard>>,
         SeeksOK',
         polled' \in {"write", "flush", "shutdown", "seek"} \X {"ok", "pending", "error"},
         polled' = polled \/ polled'[2] # "ok" \/ (polled' = <<"flush", "ok">> /\ discard)
           \/ polled'[1] \in {"write", "seek"}
  PROVE  WriterIInv'
<1>1. WriterTypeOK'
  BY DEF WriterIInv, WriterInv, WriterTypeOK, BufferSize, SeeksOK
<1>2. SyncedIsSent'
  BY DEF WriterIInv, WriterInv, SyncedIsSent
<1> QED
  BY <1>1, <1>2 DEF WriterIInv, WriterInv, NothingLostOrMoved, At, SeeksOK

LEMMA WriterInitInv == WriterInit => WriterIInv
<1> SUFFICES ASSUME WriterInit PROVE WriterIInv
  OBVIOUS
<1>1. /\ batch = << >> /\ pos = 0 /\ userPos = 0 /\ sent = << >> /\ accepted = << >> /\ discard \in BOOLEAN
      /\ pendingSeek = NoSeek /\ posAsked = NoSeek /\ seeking = NoSeek /\ polled = <<"write", "pending">>
  BY DEF WriterInit
<1>2. Len(batch) = 0 /\ Len(batch) < BufferSize /\ batch \in Seq(1 .. MaxBytes)
      /\ sent \in Seq(Nat \X (1 .. MaxBytes)) /\ accepted \in Seq(Nat \X (1 .. MaxBytes))
  BY <1>1, BufferSizeOK
<1>3. WriterTypeOK
  BY <1>1, <1>2 DEF WriterTypeOK
<1>4. sent \o At(pos, batch) = accepted
  BY <1>1, AtNothing
<1>5. SeekIsDue
  BY <1>1 DEF SeekIsDue, Due
<1> QED
  BY <1>1, <1>2, <1>3, <1>4, <1>5 DEF WriterIInv, WriterInv, NothingLostOrMoved, SyncedIsSent

\* The batch goes with bytes behind it that were just taken from the user.
LEMMA WritesGo ==
  ASSUME WriterIInv, NEW bytes \in Seq(1 .. MaxBytes), Send(batch \o bytes), Accept(bytes),
         batch' = << >>, UNCHANGED <<pendingSeek, discard>>
  PROVE  WriterIInv'
<1>1. /\ sent' = sent \o At(pos, batch \o bytes) /\ pos' = pos + Len(batch \o bytes)
      /\ accepted' = accepted \o At(userPos, bytes) /\ userPos' = userPos + Len(bytes)
      /\ posAsked' = posAsked /\ seeking' = seeking /\ polled' = <<"write", "ok">>
  BY DEF Send, Accept
<1>2. sent' = accepted' /\ accepted' \in Seq(Nat \X (1 .. MaxBytes))
  BY <1>1, AllArrives
<1>3. pos' \in Nat /\ userPos' = pos'
  <2>1. Len(batch \o bytes) = Len(batch) + Len(bytes) /\ Len(bytes) \in Nat
    <3>1. batch \in Seq(1 .. MaxBytes)
      BY WriterFacts
    <3> QED
      BY <3>1, ConcatProperties
  <2>2. pos \in Nat /\ userPos = pos + Len(batch) /\ Len(batch) \in Nat
    BY WriterFacts
  <2> QED
    BY <1>1, <2>1, <2>2
<1>4. SeeksOK'
  BY <1>1, WriterSeeks, SeeksStay
<1> QED
  BY <1>1, <1>2, <1>3, <1>4, AllSent

LEMMA WriteThroughInv ==
  ASSUME WriterIInv, UNCHANGED discard, NEW n \in Lengths, Len(accepted) + n <= MaxBytes,
         WriteThrough(n)
  PROVE  WriterIInv'
<1>1. Upto(MaxWrite, Bytes(n)) \in Seq(1 .. MaxBytes)
  <2>1. n \in Nat /\ MaxWrite \in Nat
    BY BatchWriterAssumption
  <2>2. Bytes(n) \in Seq(1 .. MaxBytes)
    BY <2>1, WriterFacts, BytesOK
  <2>3. \A S : \A s \in Seq(S), m \in Nat : Upto(m, s) \in Seq(S)
    BY UptoOK
  <2> QED
    BY <2>1, <2>2, <2>3, Zenon
<1>2. batch = << >> /\ Send(Upto(MaxWrite, Bytes(n))) /\ Accept(Upto(MaxWrite, Bytes(n))) /\ UNCHANGED <<batch, pendingSeek>>
  BY DEF WriteThrough, writerVars
<1>3. \A S : \A s \in Seq(S) : << >> \o s = s
  BY ConcatEmptySeq
<1>4. batch \o Upto(MaxWrite, Bytes(n)) = Upto(MaxWrite, Bytes(n))
  BY <1>1, <1>2, <1>3, Zenon
<1>5. Send(batch \o Upto(MaxWrite, Bytes(n)))
  BY <1>2, <1>4, Zenon
<1> QED
  BY <1>1, <1>2, <1>5, WritesGo

LEMMA WriteFilledInv ==
  ASSUME WriterIInv, UNCHANGED discard, NEW n \in Lengths, Len(accepted) + n <= MaxBytes,
         WriteFilled(n)
  PROVE  WriterIInv'
<1>1. Upto(BufferSize - Len(batch), Bytes(n)) \in Seq(1 .. MaxBytes)
  <2>1. n \in Nat
    BY BatchWriterAssumption
  <2>2. BufferSize - Len(batch) \in Nat
    BY BufferSizeOK, WriterFacts DEF WriterIInv, WriterInv, WriterTypeOK
  <2>3. Bytes(n) \in Seq(1 .. MaxBytes)
    BY <2>1, WriterFacts, BytesOK
  <2>4. \A S : \A s \in Seq(S), m \in Nat : Upto(m, s) \in Seq(S)
    BY UptoOK
  <2> QED
    BY <2>2, <2>3, <2>4, Zenon
<1> QED
  BY <1>1, WritesGo DEF WriteFilled

LEMMA WriteBatchedInv ==
  ASSUME WriterIInv, UNCHANGED discard, NEW n \in Lengths, Len(accepted) + n <= MaxBytes,
         WriteBatched(n)
  PROVE  WriterIInv'
<1>1. n \in Nat
  BY BatchWriterAssumption
<1>2. Bytes(n) \in Seq(1 .. MaxBytes) /\ Len(Bytes(n)) = n
  BY <1>1, WriterFacts, BytesOK
<1>3. /\ batch' = batch \o Bytes(n) /\ Len(batch) + n < BufferSize
      /\ pendingSeek' = pendingSeek /\ pos' = pos /\ posAsked' = posAsked /\ sent' = sent
      /\ accepted' = accepted \o At(userPos, Bytes(n)) /\ userPos' = userPos + n
      /\ polled' = <<"write", "ok">> /\ seeking' = seeking
  BY <1>2 DEF WriteBatched, Accept, volumeVars
<1>4. batch' \in Seq(1 .. MaxBytes) /\ Len(batch') = Len(batch) + n
  <2>1. batch \in Seq(1 .. MaxBytes)
    BY WriterFacts
  <2> QED
    BY <1>2, <1>3, <2>1, ConcatProperties
<1>5. sent' \o At(pos', batch') = accepted' /\ accepted' \in Seq(Nat \X (1 .. MaxBytes))
  BY <1>2, <1>3, AllArrives
<1>6. userPos' = pos' + Len(batch') /\ userPos' \in Nat
  <2>1. pos \in Nat /\ Len(batch) \in Nat /\ userPos = pos + Len(batch)
    BY WriterFacts
  <2> QED
    BY <1>1, <1>3, <1>4, <2>1
<1>7. BufferSize' = BufferSize
  BY DEF BufferSize
<1>9. SeeksOK'
  BY <1>3, WriterSeeks, SeeksStay
<1>8. WriterTypeOK'
  BY <1>3, <1>4, <1>5, <1>6, <1>7, <1>9 DEF WriterIInv, WriterInv, WriterTypeOK, SeeksOK
<1> QED
  BY <1>3, <1>5, <1>6, <1>8, <1>9 DEF WriterIInv, WriterInv, NothingLostOrMoved, SyncedIsSent, SeeksOK

\* poll_flush_data with nothing taken from the user.
LEMMA FlushInv ==
  ASSUME WriterIInv, FlushData, UNCHANGED <<pendingSeek, accepted, userPos, seeking, discard>>,
         polled' \in {"write", "flush", "shutdown", "seek"} \X {"ok", "pending", "error"}
  PROVE  WriterIInv'
<1>1. sent' = accepted /\ pos' = userPos /\ posAsked' = posAsked
  <2>1. CASE batch = << >>
    <3>1. sent' = sent /\ pos' = pos /\ posAsked' = posAsked
      BY <2>1 DEF FlushData, volumeVars
    <3>2. At(pos, batch) = << >> /\ Len(batch) = 0
      BY <2>1, AtNothing
    <3>3. sent \o << >> = accepted /\ sent \in Seq(Nat \X (1 .. MaxBytes))
      BY <3>2, WriterFacts
    <3>4. \A S : \A s \in Seq(S) : s \o << >> = s
      BY ConcatEmptySeq
    <3>5. sent = accepted
      BY <3>3, <3>4, Zenon
    <3>6. userPos = pos
      BY <3>2, WriterFacts
    <3> QED
      BY <3>1, <3>5, <3>6
  <2>2. CASE batch # << >>
    BY <2>2, WriterFacts DEF FlushData, Send
  <2> QED
    BY <2>1, <2>2
<1>2. /\ batch' = << >> /\ accepted \in Seq(Nat \X (1 .. MaxBytes)) /\ userPos \in Nat
  BY DEF FlushData, WriterIInv, WriterInv, WriterTypeOK
<1>3. SeeksOK'
  BY <1>1, WriterSeeks, SeeksStay
<1> QED
  BY <1>1, <1>2, <1>3, AllSent

LEMMA StoppedInv ==
  ASSUME WriterIInv, UNCHANGED discard, NEW op \in {"flush", "shutdown", "seek"}, Stopped(op)
  PROVE  WriterIInv'
<1>1. /\ polled' \in {"write", "flush", "shutdown", "seek"} \X {"ok", "pending", "error"}
      /\ polled'[2] # "ok"
      /\ UNCHANGED <<pendingSeek, accepted, userPos, seeking>>
  BY DEF Stopped
<1>2. CASE UNCHANGED <<batch, volumeVars>>
  <2>1. SeeksOK'
    BY <1>1, <1>2, WriterSeeks, SeeksStay DEF volumeVars
  <2> QED
    BY <1>1, <1>2, <2>1, NothingMoves DEF volumeVars
<1>3. CASE FlushData
  BY <1>1, <1>3, FlushInv
<1> QED
  BY <1>2, <1>3 DEF Stopped

LEMMA CompleteInv ==
  ASSUME WriterIInv, UNCHANGED discard, PollComplete
  PROVE  WriterIInv'
<1>1. CASE /\ Arrive
           /\ sent' = sent \o At(pos, batch) /\ batch' = << >>
           /\ pos' = Destination(Due, pos + Len(batch))
           /\ accepted' = accepted
  <2>1. Due \in Seeks \cup {NoSeek}
    BY WriterSeeks DEF SeeksOK, Due
  <2>2. /\ sent' = accepted /\ accepted \in Seq(Nat \X (1 .. MaxBytes))
        /\ userPos \in Nat /\ userPos = pos + Len(batch)
    BY <1>1, WriterFacts
  <2>3. /\ userPos' = Destination(Due, userPos) /\ polled' = <<"seek", "ok">>
        /\ pendingSeek' = NoSeek /\ posAsked' = NoSeek /\ seeking' = NoSeek
    BY <1>1 DEF Arrive
  <2>4. pos' \in Nat /\ userPos' = pos'
    BY <1>1, <2>1, <2>2, <2>3, DestinationOK
  <2>5. SeeksOK'
    BY <2>3 DEF SeeksOK, SeekIsDue, Due
  <2> QED
    BY <1>1, <2>2, <2>3, <2>4, <2>5, AllSent
<1>2. CASE Stopped("seek")
  BY <1>2, StoppedInv
<1> QED
  BY <1>1, <1>2 DEF PollComplete

LEMMA WriterStepInv == WriterIInv /\ [WriterNext]_batchWriterVars => WriterIInv'
<1> SUFFICES ASSUME WriterIInv, [WriterNext]_batchWriterVars PROVE WriterIInv'
  OBVIOUS
<1>0. /\ SeeksOK /\ (UNCHANGED <<pendingSeek, posAsked, seeking>> => SeeksOK')
      /\ polled \in {"write", "flush", "shutdown", "seek"} \X {"ok", "pending", "error"}
  BY WriterSeeks, SeeksStay DEF WriterIInv, WriterInv, WriterTypeOK
<1>1. CASE UNCHANGED batchWriterVars
  BY <1>0, <1>1, NothingMoves DEF batchWriterVars, writerVars, volumeVars, userVars
<1>2. ASSUME UNCHANGED discard, PollWrite
      PROVE  WriterIInv'
  <2>1. PICK n \in Lengths : /\ Len(accepted) + n <= MaxBytes
                             /\ WriteThrough(n) \/ WriteBatched(n) \/ WriteFilled(n) \/ WriteStopped(n)
    BY <1>2 DEF PollWrite
  <2>2. CASE WriteStopped(n)
    BY <1>0, <1>2, <2>2, NothingMoves DEF WriteStopped, writerVars, volumeVars
  <2> QED
    BY <1>2, <2>1, <2>2, WriteThroughInv, WriteBatchedInv, WriteFilledInv
<1>3. ASSUME UNCHANGED discard, PollFlush
      PROVE  WriterIInv'
  <2>1. CASE FlushDiscarded
    BY <1>0, <1>3, <2>1, NothingMoves DEF FlushDiscarded, writerVars, volumeVars
  <2>2. CASE FlushData /\ polled' = <<"flush", "ok">> /\ UNCHANGED <<pendingSeek, accepted, userPos, seeking>>
    BY <1>3, <2>2, FlushInv
  <2>3. CASE Stopped("flush")
    BY <1>3, <2>3, StoppedInv
  <2> QED
    BY <1>3, <2>1, <2>2, <2>3 DEF PollFlush
<1>4. ASSUME UNCHANGED discard, PollShutdown
      PROVE  WriterIInv'
  BY <1>4, FlushInv, StoppedInv DEF PollShutdown
<1>5. ASSUME UNCHANGED discard, StartSeek
      PROVE  WriterIInv'
  <2>1. PICK s \in Seeks :
          \/ /\ posAsked' = s /\ seeking' = s
             /\ UNCHANGED <<pendingSeek, polled>>
          \/ /\ pendingSeek = NoSeek /\ pendingSeek' = s /\ seeking' = s
             /\ UNCHANGED <<posAsked, polled>>
          \/ /\ polled' = <<"seek", "error">>
             /\ UNCHANGED <<pendingSeek, posAsked, seeking>>
    BY <1>5 DEF StartSeek
  <2>2. SeeksOK'
    BY <1>0, <2>1, BatchWriterAssumption DEF SeeksOK, SeekIsDue, Due
  <2>3. UNCHANGED <<batch, pos, sent, accepted, userPos>>
    BY <1>5 DEF StartSeek
  <2>4. polled' = polled \/ polled' = <<"seek", "error">>
    BY <2>1
  <2>5. /\ polled' \in {"write", "flush", "shutdown", "seek"} \X {"ok", "pending", "error"}
        /\ polled' = polled \/ polled'[2] # "ok"
    BY <1>0, <2>4
  <2>6. UNCHANGED <<batch, pos, sent, accepted, userPos, discard>>
    BY <1>5, <2>3
  <2> QED
    BY <2>2, <2>5, <2>6, NothingMoves
<1> QED
  BY <1>1, <1>2, <1>3, <1>4, <1>5, CompleteInv DEF WriterNext

\* Every byte that the command line client took for a volume has gone to the place it
\* was meant for, once and in order, or is in the batch (BatchWriter of utils.rs), for
\* every block size, every write size and whichever polls are given up.
THEOREM WriterSafe == WriterSpec => []WriterInv
<1>1. WriterIInv => WriterInv
  BY DEF WriterIInv
<1> QED
  BY <1>1, WriterInitInv, WriterStepInv, PTL DEF WriterSpec
=============================================================================

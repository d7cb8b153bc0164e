---------------------------- MODULE OidcClient ----------------------------
(***************************************************************************)
(* The access token of a client (boardswarm-client, oidc.rs and            *)
(* authenticator.rs): every request asks for it, one at a time; it is in   *)
(* memory or in a cache file, is refreshed when it has expired, and comes  *)
(* from a login of the user when it cannot be.                             *)
(***************************************************************************)
EXTENDS Integers

CONSTANTS Callers,       \* requests that need the token
          NoCaller,      \* an unlocked mutex
          NoToken,       \* None, or no cache file
          Broken,        \* a cache file that is empty or cut short
          MaxTokens      \* bound: tokens issued

\* access and refresh tokens are numbered; a refresh token 0 is none
Token == [access : 1 .. MaxTokens, refresh : 0 .. MaxTokens, expires : BOOLEAN]

ASSUME OidcClientAssumption ==
  /\ NoCaller \notin Callers
  /\ NoToken # Broken /\ NoToken \notin Token /\ Broken \notin Token
  /\ MaxTokens \in Nat

VARIABLES
  token,      \* token
  cache,      \* the file token_cache
  holder,     \* the mutex of the authenticator
  pc,         \* what each caller does
  saving,     \* local to update_token: the token being saved
  issued,     \* tokens issued by the server
  usable,     \* the refresh token the server accepts, 0 for none
  expired,    \* access tokens that have expired
  received,   \* the last access token that the client knows of
  granted,    \* the last refresh token that it has and can find
  forgotten   \* history: it has lost the refresh token, as LoginIsKept says

serverVars == <<issued, usable, expired>>
clientVars == <<token, cache, holder, saving>>
knownVars == <<received, granted, forgotten>>
vars == <<serverVars, clientVars, knownVars, pc>>

TypeOK ==
  /\ token \in Token \cup {NoToken}
  /\ cache \in Token \cup {NoToken, Broken}
  /\ holder \in Callers \cup {NoCaller}
  /\ pc \in [Callers -> {"idle", "waiting", "load", "check", "refresh", "auth", "save"}]
  /\ saving \in [Callers -> Token \cup {NoToken}]
  /\ issued \in 0 .. MaxTokens /\ usable \in 0 .. issued /\ expired \subseteq 1 .. issued
  /\ received \in 0 .. issued /\ granted \in 0 .. issued
  /\ forgotten \in BOOLEAN

Init ==
  /\ token = NoToken /\ cache = NoToken /\ holder = NoCaller
  /\ pc = [c \in Callers |-> "idle"] /\ saving = [c \in Callers |-> NoToken]
  /\ issued = 0 /\ usable = 0 /\ expired = {}
  /\ received = 0 /\ granted = 0 /\ forgotten = FALSE

Goes(c, to) == pc' = [pc EXCEPT ![c] = to]

-----------------------------------------------------------------------------
(* Time and the server. *)

Expire ==
  /\ \E n \in 1 .. issued : n \notin expired /\ expired' = expired \cup {n}
  /\ UNCHANGED <<issued, usable, clientVars, knownVars, pc>>

Revoke ==
  /\ usable # 0 /\ usable' = 0
  /\ UNCHANGED <<issued, expired, clientVars, knownVars, pc>>

-----------------------------------------------------------------------------
(* access_token *)

Ask(c) ==
  /\ pc[c] = "idle"
  /\ Goes(c, "waiting")
  /\ UNCHANGED <<serverVars, clientVars, knownVars>>

\* A wrong Lock: every request reads the file again.
LockAndLoad(c) ==
  /\ pc[c] = "waiting" /\ holder = NoCaller
  /\ holder' = c
  /\ Goes(c, "load")
  /\ UNCHANGED <<serverVars, knownVars, token, cache, saving>>

Lock(c) ==
  /\ pc[c] = "waiting" /\ holder = NoCaller
  /\ holder' = c
  /\ Goes(c, IF token = NoToken THEN "load" ELSE "check")
  /\ UNCHANGED <<serverVars, knownVars, token, cache, saving>>

Return(c) == Goes(c, "idle") /\ holder' = NoCaller

\* since_epoch_de reads a number, where since_epoch_se writes none if there is
\* no time.
Readable(file) == file \notin {NoToken, Broken} /\ file.expires

Load(c) ==
  /\ pc[c] = "load"
  /\ token' = IF Readable(cache) THEN cache ELSE NoToken
  /\ Goes(c, "check")
  /\ UNCHANGED <<serverVars, knownVars, cache, holder, saving>>

Expired(t) == t.expires /\ t.access \in expired

Check(c) ==
  /\ pc[c] = "check"
  /\ IF token = NoToken THEN Goes(c, "auth") /\ UNCHANGED holder
     ELSE IF ~ Expired(token) THEN Return(c)
     ELSE Goes(c, IF token.refresh # 0 THEN "refresh" ELSE "auth") /\ UNCHANGED holder
  /\ UNCHANGED <<serverVars, knownVars, token, cache, saving>>

\* The server issues a token, with a refresh token in place of the one before
\* or without.
Issue(fresh) ==
  /\ issued < MaxTokens
  /\ issued' = issued + 1
  /\ usable' = IF fresh THEN issued + 1 ELSE usable
  /\ UNCHANGED expired

\* A wrong Update: the refresh token is what the server sent.
UpdateWithoutOld(c, fresh) ==
  /\ \E lifetime \in BOOLEAN :
       saving' = [saving EXCEPT ![c] =
         [access |-> issued', expires |-> lifetime, refresh |-> IF fresh THEN issued' ELSE 0]]
  /\ token' = NoToken
  /\ received' = issued'
  /\ granted' = IF fresh THEN issued' ELSE granted
  /\ UNCHANGED forgotten
  /\ Goes(c, "save")
  /\ UNCHANGED <<cache, holder>>

\* update_token, until it awaits the cache
Update(c, fresh) ==
  /\ \E lifetime \in BOOLEAN :
       saving' = [saving EXCEPT ![c] =
         [access |-> issued', expires |-> lifetime,
          refresh |-> IF fresh THEN issued'
                      ELSE IF token = NoToken THEN 0 ELSE token.refresh]]
  /\ token' = NoToken
  /\ received' = issued'
  /\ granted' = IF fresh THEN issued' ELSE granted
  /\ UNCHANGED forgotten
  /\ Goes(c, "save")
  /\ UNCHANGED <<cache, holder>>

\* The server refuses, or cannot be reached: the user has to log in.
Refresh(c) ==
  /\ pc[c] = "refresh"
  /\ \/ /\ token.refresh = usable
        /\ \E fresh \in BOOLEAN : Issue(fresh) /\ Update(c, fresh)
     \/ Goes(c, "auth") /\ UNCHANGED <<serverVars, clientVars, knownVars>>

\* A wrong FailLogin: the lock is not given back.
FailLoginLocked(c) ==
  /\ Goes(c, "idle")
  /\ UNCHANGED <<serverVars, clientVars, knownVars>>

\* token() has nothing to give, and the request goes out without.
FailLogin(c) ==
  /\ Return(c)
  /\ UNCHANGED <<serverVars, token, cache, saving, knownVars>>

\* auth: the login succeeds or fails
Auth(c) ==
  /\ pc[c] = "auth"
  /\ \/ \E fresh \in BOOLEAN : Issue(fresh) /\ Update(c, fresh)
     \/ FailLogin(c)

\* update_token after the cache, whose errors it ignores
Save(c) ==
  /\ pc[c] = "save"
  /\ cache' \in {saving[c], cache, Broken}
  /\ token' = saving[c]
  /\ saving' = [saving EXCEPT ![c] = NoToken]
  /\ forgotten' = (forgotten /\ saving[c].refresh # granted)
  /\ Return(c)
  /\ UNCHANGED <<serverVars, received, granted>>

\* The request is given up where it awaits, or panics: discovery unwraps.  The
\* server may have done what it was asked.
Abandon(c) ==
  /\ \/ pc[c] = "waiting" /\ UNCHANGED <<cache, holder, saving, issued, usable, forgotten>>
     \/ /\ pc[c] \in {"load", "refresh", "auth"} /\ holder' = NoCaller
        /\ \/ UNCHANGED <<issued, usable>>
           \/ /\ pc[c] = "refresh" /\ token.refresh = usable /\ issued < MaxTokens
              /\ issued' = issued + 1 /\ usable' = issued + 1
        /\ UNCHANGED <<cache, saving, forgotten>>
     \/ /\ pc[c] = "save" /\ holder' = NoCaller
        /\ cache' \in {saving[c], cache, Broken}
        /\ saving' = [saving EXCEPT ![c] = NoToken]
        /\ forgotten' = TRUE
        /\ UNCHANGED <<issued, usable>>
  /\ Goes(c, "idle")
  /\ UNCHANGED <<token, expired, received, granted>>

\* The client is started again: what the cache has not got is forgotten.
Restart ==
  /\ \A c \in Callers : pc[c] = "idle"
  /\ token' = NoToken
  /\ LET found == cache \notin {NoToken, Broken}
     IN  /\ received' = IF found THEN cache.access ELSE 0
         /\ granted' = IF found THEN cache.refresh ELSE 0
         /\ forgotten' = (found /\ ~ Readable(cache))
  /\ UNCHANGED <<serverVars, cache, holder, saving, pc>>

-----------------------------------------------------------------------------
Step(c) == Lock(c) \/ Load(c) \/ Check(c) \/ Refresh(c) \/ Auth(c) \/ Save(c)

Next ==
  \/ Expire \/ Revoke \/ Restart
  \/ \E c \in Callers : Ask(c) \/ Step(c) \/ Abandon(c)

Spec == Init /\ [][Next]_vars

\* Requests are polled; the mutex is fair; the server, the disk and a login,
\* which has a time limit, come to an end.
Fairness ==
  \A c \in Callers :
    /\ SF_vars(Lock(c))
    /\ WF_vars(Load(c) \/ Check(c) \/ Refresh(c) \/ Auth(c) \/ Save(c))

FairSpec == Spec /\ Fairness

-----------------------------------------------------------------------------
(* Properties. *)

\* Between requests the client uses the newest token that it was given (or, when
\* started again, that it had saved), whoever of several callers asked for it.
NewestIsUsed ==
  holder = NoCaller /\ token # NoToken /\ ~ forgotten => token.access = received

\* The mutex keeps the token that all callers share up to date.
TokenInv == TypeOK /\ NewestIsUsed

\* A client that begins a login without trying to refresh, although it was given a
\* refresh token that the server would take.
ForgetsLogin ==
  \E c \in Callers :
    pc[c] = "check" /\ pc'[c] = "auth" /\ granted # 0 /\ granted = usable

\* The user is asked to log in without trying to refresh only if the client was
\* given no refresh token that the server would take, or has lost it in one of two
\* ways: a request was given up while it saved the token, or the client was started
\* again with a token without expires_in in the cache.
LoginIsKept == [][~ forgotten => ~ ForgetsLogin]_vars

\* The same without the exceptions, which does not hold.
LoginIsAlwaysKept == [][~ ForgetsLogin]_vars

\* Every request that waits for the token goes on.
EveryoneGoesOn == \A c \in Callers : pc[c] = "waiting" ~> pc[c] = "idle"
=============================================================================

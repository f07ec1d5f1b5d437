---------------------------- MODULE SigningKeys ----------------------------
(***************************************************************************)
(* app/auth.py: who a request is from.  Handlers are threads, and the key  *)
(* set they verify tokens with is fetched from the identity provider under *)
(* the lock that all of them take.  The document is read in the step in    *)
(* which the fetch ends; a key stands for its id, its algorithm and its    *)
(* signature.  Ages are in ticks and count up to one more than the TTL.    *)
(***************************************************************************)
EXTENDS Integers, FiniteSets

CONSTANTS
  Handlers,
  Keys,          \* the keys the provider may publish
  SharedSecret, Jwks, AuthRequired, \* which of the settings are there
  TTL,           \* jwks_ttl_seconds
  NoToken, NoKid,
  Tokens         \* those presented

ASSUME KeysAssumption ==
  /\ TTL \in Nat /\ NoKid \notin Keys
  /\ \A t \in Tokens \ {NoToken} : t.user # "rejected"

VARIABLES
  published, \* the keys the provider publishes
  since,     \* how long ago it last published each
  keys, age, \* _keys and the time since _keys_fetched_at
  holder,    \* who holds _lock
  at,        \* where each verification stands
  token,     \* what was presented
  principal, \* whom it is from, "anonymous", or "rejected" (401)
  cause      \* history: why a good token may be rejected

keysVars == <<published, since, keys, age, holder, at, token, principal, cause>>

Token(alg, kid, by, good, user) == [alg |-> alg, kid |-> kid, by |-> by, good |-> good, user |-> user]

KeysInit ==
  /\ published = {} /\ since = [k \in Keys |-> TTL + 1]
  /\ keys = {} /\ age = TTL + 1
  /\ holder = {}
  /\ at = [r \in Handlers |-> "idle"]
  /\ token = [r \in Handlers |-> NoToken]
  /\ principal = [r \in Handlers |-> "rejected"]
  /\ cause = [r \in Handlers |-> FALSE]

Configured == SharedSecret \/ Jwks

\* current_principal(), and verify() up to the key set.
Ends(r, a) == at' = [at EXCEPT ![r] = "done"] /\ principal' = [principal EXCEPT ![r] = a]
Verdict(t, valid) == IF valid THEN t.user ELSE "rejected"

Ask(r, t) ==
  /\ at[r] = "idle"
  /\ token' = [token EXCEPT ![r] = t]
  /\ cause' = [cause EXCEPT ![r] = t # NoToken /\ t.by \notin published]
  /\ \/ t = NoToken /\ Ends(r, IF AuthRequired THEN "rejected" ELSE "anonymous")
     \/ /\ t # NoToken /\ Configured /\ t.alg = "signed" /\ Jwks
        /\ at' = [at EXCEPT ![r] = "lock"] /\ UNCHANGED principal
     \/ /\ t # NoToken /\ ~(Configured /\ t.alg = "signed" /\ Jwks)
        /\ Ends(r, Verdict(t, t.alg = "HS256" /\ SharedSecret /\ t.good))
  /\ UNCHANGED <<published, since, keys, age, holder>>

\* What _key_for() returns of the set ks, and what verify() makes of it.
KeyFor(t, ks) ==
  IF t.kid \in ks THEN {t.kid}
  ELSE IF t.kid = NoKid /\ Cardinality(ks) = 1 THEN ks ELSE {}

Settle_NoRefresh(r, ks) ==
  Ends(r, Verdict(token[r], KeyFor(token[r], ks) = {token[r].by} /\ token[r].good))
Settle(r, ks) ==
  LET found == KeyFor(token[r], ks)
  IN  IF found = {} /\ at[r] \in {"lock", "fetch"}
      THEN at' = [at EXCEPT ![r] = "again"] /\ UNCHANGED principal
      ELSE Ends(r, Verdict(token[r], found = {token[r].by} /\ token[r].good))

Stale_Never == FALSE
Stale == age > TTL

LookUp(r) ==
  /\ at[r] \in {"lock", "again"} /\ holder = {}
  /\ IF at[r] = "again" \/ Stale \/ keys = {}
     THEN /\ holder' = {r}
          /\ at' = [at EXCEPT ![r] = IF at[r] = "lock" THEN "fetch" ELSE "refetch"]
          /\ UNCHANGED principal
     ELSE Settle(r, keys) /\ UNCHANGED holder
  /\ UNCHANGED <<published, since, keys, age, token, cause>>

Fetched(r) ==
  /\ at[r] \in {"fetch", "refetch"}
  /\ keys' = published /\ age' = 0
  /\ holder' = {}
  /\ Settle(r, published)
  /\ UNCHANGED <<published, since, token, cause>>

FetchFails_KeepsLock(r) ==
  /\ at[r] \in {"fetch", "refetch"}
  /\ Ends(r, "rejected")
  /\ cause' = [cause EXCEPT ![r] = TRUE]
  /\ UNCHANGED <<published, since, keys, age, holder, token>>
FetchFails(r) ==
  /\ at[r] \in {"fetch", "refetch"}
  /\ holder' = {}
  /\ Ends(r, "rejected")
  /\ cause' = [cause EXCEPT ![r] = TRUE]
  /\ UNCHANGED <<published, since, keys, age, token>>

Verify(r) == LookUp(r) \/ Fetched(r) \/ FetchFails(r)

\* The provider rotates its keys.
Publishes(ks) ==
  /\ ks # published
  /\ published' = ks
  /\ since' = [k \in Keys |-> IF k \in ks THEN 0 ELSE since[k]]
  /\ cause' = [r \in Handlers |-> cause[r] \/ (token[r] # NoToken /\ at[r] # "done" /\ token[r].by \notin ks)]
  /\ UNCHANGED <<keys, age, holder, at, token, principal>>

Older(n) == IF n > TTL THEN n ELSE n + 1
KeysTick ==
  /\ age' = Older(age)
  /\ since' = [k \in Keys |-> IF k \in published THEN 0 ELSE Older(since[k])]
  /\ UNCHANGED <<published, keys, holder, at, token, principal, cause>>

KeysNext ==
  \/ \E r \in Handlers, t \in Tokens : Ask(r, t)
  \/ \E r \in Handlers : Verify(r)
  \/ \E ks \in SUBSET Keys : Publishes(ks)
  \/ KeysTick

\* A thread goes on when it can, and a fetch ends: it has a timeout.
KeysSpec == KeysInit /\ [][KeysNext]_keysVars /\ \A r \in Handlers : WF_keysVars(Verify(r))

-----------------------------------------------------------------------------
(* Properties *)

KeysTypeOK ==
  /\ published \subseteq Keys /\ keys \subseteq Keys
  /\ since \in [Keys -> 0 .. TTL + 1] /\ age \in 0 .. TTL + 1
  /\ at \in [Handlers -> {"idle", "lock", "fetch", "again", "refetch", "done"}]
  /\ token \in [Handlers -> Tokens \cup {NoToken}]
  /\ DOMAIN principal = Handlers /\ cause \in [Handlers -> BOOLEAN]

\* app/auth.py:11-12, "signing keys are fetched once and cached": a key the provider has
\* withdrawn is good for no longer than the TTL, though fetches fail, keys rotate and
\* verifications wait for one another.
KeysAreCurrent ==
  [][\A r \in Handlers :
       at[r] # "done" /\ at'[r] = "done" /\ token'[r] # NoToken /\ token'[r].alg = "signed"
       /\ principal'[r] # "rejected" => since[token'[r].by] <= TTL]_keysVars

\* app/auth.py:16-25, the rules that do not bend, and no more than they ask: a presented token
\* makes the request its user's or is rejected, never taken for none; and a good one of the
\* provider's that names a key published all the while is rejected only if a fetch of its
\* own failed, whatever was cached before.
AnswersForCause ==
  \A r \in Handlers : at[r] = "done" /\ token[r] # NoToken =>
    /\ principal[r] \in {token[r].user, "rejected"}
    /\ principal[r] = "rejected" /\ Jwks /\ token[r].alg = "signed" /\ token[r].good /\ token[r].kid = token[r].by
         => cause[r]

\* app/auth.py:97: the lock is held across a fetch, and every verification comes to an end.
VerificationsEnd == \A r \in Handlers : at[r] # "idle" ~> at[r] = "done"
=============================================================================

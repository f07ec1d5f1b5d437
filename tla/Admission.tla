----------------------------- MODULE Admission -----------------------------
(***************************************************************************)
(* Who may submit a check, and who may read one.                           *)
(*                                                                         *)
(* backend/app/routers/check.py: the handlers of a submission.  They run   *)
(* on one event loop, so what a handler does between two awaits is one     *)
(* step: the gate, up to the first file.read(); and, once the files are    *)
(* read, everything from the comparison to the answer.  With the limiter   *)
(* (app/limits.py) for the anonymous and the ledger (worker/usage.py) for  *)
(* those signed in.  The handler of a poll only reads: it is Readable.     *)
(*                                                                         *)
(* A job is named by the request that made it.  Of its life, which is      *)
(* CheckRunner's, a submission tells apart only whether it has a report.   *)
(***************************************************************************)
EXTENDS Integers, FiniteSets, Sequences, FiniteSetsExt, Functions

CONSTANTS
  Requests,     \* the POST requests of the model, each made once
  Users,        \* those who sign in
  Addresses,    \* client_key() of the anonymous ones
  QuotaChecks, QuotaWindow,  \* quota_checks, 0 for none, and its window
  RateLimit, RateWindow,     \* rate_limit_submissions, 0 for none, and its window
  SweepAt,      \* 1024: the buckets at which the limiter sweeps
  LedgerMayFail, \* the ledger is in Postgres and can be out of reach
  StartMayFail,  \* the system may refuse the pool a thread
  MaxTime,      \* bound of the clock in the model
  None

Callers == Users \cup Addresses

\* In status codes: 202; 400, 402, 404, 413 or 429; 503, or 500 when no check was queued;
\* 500 from the ledger, or when a check was queued.
Answers == {"accepted", "refused", "busy", "failed"}

ASSUME AdmissionAssumption ==
  /\ IsFiniteSet(Requests) /\ IsFiniteSet(Users) /\ IsFiniteSet(Addresses)
  /\ Users \cap Addresses = {}
  /\ None \notin Callers \cup Requests \cup Answers /\ None \notin 0..MaxTime
  /\ QuotaChecks \in Nat /\ QuotaWindow \in Nat /\ RateLimit \in Nat
  /\ RateWindow \in Nat \ {0} /\ SweepAt \in Nat \ {0} /\ MaxTime \in Nat
  /\ LedgerMayFail \in BOOLEAN /\ StartMayFail \in BOOLEAN

VARIABLES
  now,
  buckets,  \* RateLimiter._buckets
  hits,     \* InMemoryUsageLedger._hits: when checks of each user were recorded
  pc,       \* where each handler stands
  caller,   \* who made the request
  answer,   \* what it was told
  status,   \* the job it made: "open" while it has no report (queued, running, error)
  from,     \* the job whose report it is compared with
  passes,   \* history: when the limiter let each address in
  overlap,  \* history: the most requests of a user that were past the gate at once
  queued    \* history: when the check of each request of a user was queued

jobVars == <<status, from>>
vars == <<now, buckets, hits, pc, caller, answer, status, from, passes, overlap, queued>>

Time == 0..MaxTime

TypeOK ==
  /\ now \in Time
  /\ DOMAIN buckets \subseteq Addresses
  /\ \A a \in DOMAIN buckets : buckets[a].start \in 0..now /\ buckets[a].count \in 1..RateLimit
  /\ hits \in [Users -> Seq(Time)]
  /\ pc \in [Requests -> {"unsent", "reading", "done"}]
  /\ caller \in [Requests -> Callers \cup {None}]
  /\ answer \in [Requests -> Answers \cup {None}]
  /\ status \in [Requests -> {"unborn", "open", "done", "gone"}]
  /\ from \in [Requests -> Requests \cup {None}]
  /\ passes \in [Addresses -> Seq(Time)]
  /\ overlap \in [Users -> Nat]
  /\ queued \in [Requests -> Time \cup {None}]

Init ==
  /\ now = 0
  /\ buckets = <<>>
  /\ hits = [u \in Users |-> <<>>]
  /\ pc = [r \in Requests |-> "unsent"]
  /\ caller = [r \in Requests |-> None]
  /\ answer = [r \in Requests |-> None]
  /\ status = [r \in Requests |-> "unborn"]
  /\ from = [r \in Requests |-> None]
  /\ passes = [a \in Addresses |-> <<>>]
  /\ overlap = [u \in Users |-> 0]
  /\ queued = [r \in Requests |-> None]

-----------------------------------------------------------------------------
(* app/limits.py *)

\* The window is over.
Over_Early(w) == now - w.start >= RateWindow - 1
Over(w) == now - w.start >= RateWindow

\* _sweep()
Swept_Never == buckets
Swept == IF Cardinality(DOMAIN buckets) < SweepAt THEN buckets
         ELSE Restrict(buckets, {a \in DOMAIN buckets : ~Over(buckets[a])})

\* check() finds no window of `a`, or one that is over, and begins one.
Begins(a) == a \in DOMAIN Swept => Over(Swept[a])

HasRoom_OffByOne(a) == Swept[a].count <= RateLimit
HasRoom(a) == Swept[a].count < RateLimit

\* check() returns None.
LetIn(a) ==
  IF RateLimit = 0 THEN UNCHANGED buckets
  ELSE \/ /\ Begins(a)
          /\ buckets' = [b \in DOMAIN Swept \cup {a} |->
                           IF b = a THEN [start |-> now, count |-> 1] ELSE Swept[b]]
       \/ /\ ~Begins(a) /\ HasRoom(a)
          /\ buckets' = [Swept EXCEPT ![a].count = @ + 1]

\* check() returns the seconds to wait.
TurnedAway(a) ==
  /\ RateLimit > 0
  /\ ~Begins(a) /\ ~HasRoom(a)
  /\ buckets' = Swept

-----------------------------------------------------------------------------
(* worker/usage.py *)

\* count(owner, since): `since` is one window before now.
UsedSince(u, since) == Cardinality({i \in DOMAIN hits[u] : hits[u][i] >= since})
Used_Today(u) == UsedSince(u, now)
Used(u) == UsedSince(u, now - QuotaWindow)

-----------------------------------------------------------------------------
(* app/routers/check.py *)

InFlight(u) == Cardinality({r \in Requests : caller[r] = u /\ pc[r] = "reading"})

Answered(r, a) ==
  /\ pc' = [pc EXCEPT ![r] = "done"]
  /\ answer' = [answer EXCEPT ![r] = a]

Goes(r) == pc' = [pc EXCEPT ![r] = "reading"] /\ UNCHANGED answer

\* An anonymous request meets the limiter (429).
GateAnonymous(r, a) ==
  /\ pc[r] = "unsent"
  /\ caller' = [caller EXCEPT ![r] = a]
  /\ \/ /\ LetIn(a) /\ Goes(r)
        /\ passes' = [passes EXCEPT ![a] = Append(@, now)]
     \/ /\ TurnedAway(a) /\ Answered(r, "refused")
        /\ UNCHANGED passes
  /\ UNCHANGED <<now, hits, jobVars, overlap, queued>>

\* A signed-in one meets the quota (402): _enforce_quota().
GateSignedIn(r, u) ==
  /\ pc[r] = "unsent"
  /\ caller' = [caller EXCEPT ![r] = u]
  /\ \/ /\ QuotaChecks = 0 \/ Used(u) < QuotaChecks
        /\ Goes(r)
        /\ overlap' = [overlap EXCEPT ![u] = Max({@, InFlight(u) + 1})]
     \/ /\ QuotaChecks > 0 /\ Used(u) >= QuotaChecks
        /\ Answered(r, "refused")
        /\ UNCHANGED overlap
     \/ /\ QuotaChecks > 0 /\ LedgerMayFail
        /\ Answered(r, "failed")
        /\ UNCHANGED overlap
  /\ UNCHANGED <<now, buckets, hits, jobVars, passes, queued>>

\* Something is wrong with the upload (400, 413), before or after any of its reads, or
\* the store fails before it has made a record.
Reject(r) ==
  /\ pc[r] = "reading"
  /\ Answered(r, "refused")
  /\ UNCHANGED <<now, buckets, hits, caller, jobVars, passes, overlap, queued>>

Owner(j) == IF caller[j] \in Users THEN caller[j] ELSE None

\* The record is there and is nobody's, or the caller's own.
Readable(c, j) == status[j] \notin {"unborn", "gone"} /\ Owner(j) \in {None, c}

ComparesWith_AnyOwner(c, j) == status[j] = "done"
ComparesWith(c, j) == Readable(c, j) /\ status[j] = "done"

\* compare_to names a job that is not there for this caller (404).
NothingToCompare(r) ==
  /\ pc[r] = "reading"
  /\ \E j \in Requests : ~ComparesWith(caller[r], j)
  /\ Answered(r, "refused")
  /\ UNCHANGED <<now, buckets, hits, caller, jobVars, passes, overlap, queued>>

\* usage.record(), for a caller who is signed in.
RecordUse(c) == hits' = IF c \in Users THEN [hits EXCEPT ![c] = Append(@, now)] ELSE hits

\* runner.submit() queues the check, and its use is recorded.  If the ledger is out of
\* reach by now, or if the system refuses the pool a thread once the check is in its
\* queue, the handler raises, nothing is recorded, and the check runs all the same.
Accept(r) ==
  /\ pc[r] = "reading"
  /\ \/ UNCHANGED from
     \/ \E j \in Requests : ComparesWith(caller[r], j) /\ from' = [from EXCEPT ![r] = j]
  /\ status' = [status EXCEPT ![r] = "open"]
  /\ queued' = IF caller[r] \in Users THEN [queued EXCEPT ![r] = now] ELSE queued
  /\ \/ RecordUse(caller[r]) /\ Answered(r, "accepted")
     \/ /\ StartMayFail \/ (LedgerMayFail /\ caller[r] \in Users)
        /\ Answered(r, "failed")
        /\ UNCHANGED hits
  /\ UNCHANGED <<now, buckets, caller, passes, overlap>>

Busy_Counted(r) ==
  /\ pc[r] = "reading"
  /\ status' = [status EXCEPT ![r] = "open"]
  /\ RecordUse(caller[r]) /\ Answered(r, "busy")
  /\ UNCHANGED <<now, buckets, caller, from, passes, overlap, queued>>

\* QueueFull (503), or an executor that has been shut down (500): submit() made a record,
\* which never gets a report.
Busy(r) ==
  /\ pc[r] = "reading"
  /\ status' = [status EXCEPT ![r] = "open"]
  /\ Answered(r, "busy")
  /\ UNCHANGED <<now, buckets, hits, caller, from, passes, overlap, queued>>

\* The runner records a report.
Finish(j) ==
  /\ status[j] = "open" /\ answer[j] # "busy"
  /\ status' = [status EXCEPT ![j] = "done"]
  /\ UNCHANGED <<now, buckets, hits, pc, caller, answer, from, passes, overlap, queued>>

\* The store forgets a job.
Forget(j) ==
  /\ status[j] \in {"open", "done"}
  /\ status' = [status EXCEPT ![j] = "gone"]
  /\ UNCHANGED <<now, buckets, hits, pc, caller, answer, from, passes, overlap, queued>>

Tick ==
  /\ now < MaxTime
  /\ now' = now + 1
  /\ UNCHANGED <<buckets, hits, pc, caller, answer, jobVars, passes, overlap, queued>>

Handler(r) ==
  \/ \E a \in Addresses : GateAnonymous(r, a)
  \/ \E u \in Users : GateSignedIn(r, u)
  \/ Reject(r) \/ NothingToCompare(r) \/ Accept(r) \/ Busy(r)

Next ==
  \/ Tick
  \/ \E r \in Requests : Handler(r) \/ Finish(r) \/ Forget(r)

Spec == Init /\ [][Next]_vars

-----------------------------------------------------------------------------
(* Properties *)

\* app/auth.py:25-26 and check.py:109-115: whoever may read a report may also read
\* the one it was compared with, so a comparison never carries one user's passages
\* to another, however the job id came to be known.
NobodySeesAnothers ==
  \A j \in Requests, c \in Callers :
    Readable(c, j) /\ from[j] # None => Owner(from[j]) \in {None, c}

\* The checks of a user that were queued since, and those of them whose client was told
\* that the server failed.
Checks(u, since) ==
  {r \in Requests : caller[r] = u /\ queued[r] # None /\ queued[r] >= since}
Failed(u, since) == {r \in Checks(u, since) : answer[r] = "failed"}

\* settings.py:69, "Checks a signed-in user may submit per window": the gate reads the
\* ledger before the uploads are awaited and the check is recorded after, so requests
\* that are past the gate together may all be accepted; and a check that the server
\* failed to record is never counted.  The checks that run for a user in a window exceed
\* the quota by those of these two kinds and no more: one who waits for each answer, and
\* is not told that the server failed, never exceeds it.
QuotaUpToOverlap ==
  QuotaChecks > 0 =>
    \A u \in Users :
      LET since == now - QuotaWindow
      IN  Cardinality(Checks(u, since)) <=
            QuotaChecks + Max({overlap[u], 1}) - 1 + Cardinality(Failed(u, since))

\* worker/usage.py:4-10, "one row per accepted check", and a check that fails after
\* being queued counts.  From whatever time one counts, the ledger has one entry for each
\* check that was queued, none for a refused request and, unlike these words, none for a
\* check whose client was told that the server failed.
AcceptedIsCounted ==
  \A u \in Users, t \in Time :
    UsedSince(u, t) = Cardinality(Checks(u, t)) - Cardinality(Failed(u, t))

\* limits.py:4, "A fixed-window counter": windows of one client do not overlap, so in
\* any stretch as long as a window, wherever it begins, a client is let in fewer than
\* twice as often as the limit.
FewerThanTwice ==
  RateLimit > 0 =>
    \A a \in Addresses, t \in Time :
      Cardinality({i \in DOMAIN passes[a] : t <= passes[a][i] /\ passes[a][i] < t + RateWindow})
        < 2 * RateLimit

\* limits.py:10-11, "memory stays bounded by the number of distinct clients seen in one
\* window", once there are SweepAt of them: whenever the limiter changes a bucket, the
\* others that it keeps had a client let in during the window before, or are few.
BucketsAreRecent ==
  [][buckets' # buckets =>
       Cardinality(DOMAIN buckets') <=
         Max({SweepAt, Cardinality({a \in Addresses :
                         \E i \in DOMAIN passes'[a] : passes'[a][i] > now - RateWindow})})]_vars
=============================================================================

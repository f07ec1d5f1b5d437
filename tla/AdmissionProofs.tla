-------------------------- MODULE AdmissionProofs --------------------------
(***************************************************************************)
(* For any number of requests, users and addresses, and a quota, limits    *)
(* and clock of any size: that a comparison never carries one user's       *)
(* passages to another, what the ledger and the limiter let in, and when   *)
(* the limiter forgets.  Then whom a request is from, which Admission      *)
(* takes as given: the theorems about SigningKeys.                         *)
(***************************************************************************)
EXTENDS Admission, SigningKeys, FiniteSetTheorems, SequenceTheorems, TLAPS

\* The part of TypeOK that ownership rests on.
HandlersTyped ==
  /\ pc \in [Requests -> {"unsent", "reading", "done"}]
  /\ caller \in [Requests -> Callers \cup {None}]
  /\ status \in [Requests -> {"unborn", "open", "done", "gone"}]
  /\ from \in [Requests -> Requests \cup {None}]

\* Before a request is sent there is no job of its name, and nothing is compared with it.
UnsentIsNothing ==
  \A r \in Requests : pc[r] = "unsent" =>
    /\ status[r] = "unborn" /\ from[r] = None
    /\ \A j \in Requests : from[j] # r

\* A check is compared only with jobs of nobody or of its own caller.
ComparedWithOwn ==
  \A r \in Requests : from[r] # None => Owner(from[r]) \in {None, caller[r]}

IInv == HandlersTyped /\ UnsentIsNothing /\ ComparedWithOwn

\* The invariant holds of a server that has not had a request.
LEMMA InitIInv == Init => IInv
  BY AdmissionAssumption DEF Init, IInv, HandlersTyped, UnsentIsNothing, ComparedWithOwn

\* A gate sets the caller of a request that no job and no comparison knows of yet.
LEMMA GateKeepsIInv ==
  ASSUME IInv, NEW r \in Requests, NEW c \in Callers, pc[r] = "unsent",
         caller' = [caller EXCEPT ![r] = c],
         pc' = [pc EXCEPT ![r] = "reading"] \/ pc' = [pc EXCEPT ![r] = "done"],
         UNCHANGED jobVars
  PROVE  IInv'
<1>1. HandlersTyped'
  BY DEF IInv, HandlersTyped, jobVars
<1>2. UnsentIsNothing'
  BY DEF IInv, HandlersTyped, UnsentIsNothing, jobVars
<1>3. ComparedWithOwn'
  <2> SUFFICES ASSUME NEW j \in Requests, from[j] # None
               PROVE  Owner(from[j])' \in {None, caller'[j]}
    BY DEF ComparedWithOwn, jobVars
  <2>1. j # r /\ from[j] # r /\ from[j] \in Requests
    BY DEF IInv, HandlersTyped, UnsentIsNothing
  <2>2. caller'[j] = caller[j] /\ caller'[from[j]] = caller[from[j]]
    BY <2>1 DEF IInv, HandlersTyped
  <2>3. Owner(from[j]) \in {None, caller[j]}
    BY DEF IInv, ComparedWithOwn
  <2> QED
    BY <2>2, <2>3 DEF Owner, jobVars
<1> QED
  BY <1>1, <1>2, <1>3 DEF IInv

\* A handler that answers without a job changes nothing ownership looks at.
LEMMA AnswerKeepsIInv ==
  ASSUME IInv, NEW r \in Requests, pc[r] = "reading",
         pc' = [pc EXCEPT ![r] = "done"], UNCHANGED <<caller, from>>,
         status' = status \/ status' = [status EXCEPT ![r] = "open"]
  PROVE  IInv'
<1>1. HandlersTyped'
  BY DEF IInv, HandlersTyped
<1>2. UnsentIsNothing'
  BY DEF IInv, HandlersTyped, UnsentIsNothing
<1>3. ComparedWithOwn'
  BY DEF IInv, ComparedWithOwn, Owner
<1> QED
  BY <1>1, <1>2, <1>3 DEF IInv

\* An accepted check is compared with a job that its caller may read, if with any.
LEMMA AcceptKeepsIInv ==
  ASSUME IInv, NEW r \in Requests, Accept(r)
  PROVE  IInv'
<1>1. /\ pc[r] = "reading" /\ pc' = [pc EXCEPT ![r] = "done"] /\ UNCHANGED caller
      /\ status' = [status EXCEPT ![r] = "open"]
  BY DEF Accept, Answered
<1>2. CASE UNCHANGED from
  BY <1>1, <1>2, AnswerKeepsIInv
<1>3. CASE \E j \in Requests : ComparesWith(caller[r], j) /\ from' = [from EXCEPT ![r] = j]
  <2>1. PICK k \in Requests : ComparesWith(caller[r], k) /\ from' = [from EXCEPT ![r] = k]
    BY <1>3
  <2>2. pc[k] # "unsent" /\ Owner(k) \in {None, caller[r]}
    BY <2>1 DEF IInv, UnsentIsNothing, ComparesWith, Readable
  <2>3. HandlersTyped'
    BY <1>1, <2>1 DEF IInv, HandlersTyped
  <2>4. UnsentIsNothing'
    BY <1>1, <2>1, <2>2 DEF IInv, HandlersTyped, UnsentIsNothing
  <2>5. ComparedWithOwn'
    BY <1>1, <2>1, <2>2 DEF IInv, HandlersTyped, ComparedWithOwn, Owner
  <2> QED
    BY <2>3, <2>4, <2>5 DEF IInv
<1> QED
  BY <1>2, <1>3 DEF Accept

\* Every step keeps the invariant.
LEMMA NextKeepsIInv == IInv /\ [Next]_vars => IInv'
<1> SUFFICES ASSUME IInv, [Next]_vars PROVE IInv'
  OBVIOUS
<1>1. ASSUME NEW r \in Requests, NEW a \in Addresses, GateAnonymous(r, a) PROVE IInv'
  <2>1. a \in Callers
    BY DEF Callers
  <2> QED
    BY <1>1, <2>1, GateKeepsIInv DEF GateAnonymous, Goes, Answered
<1>2. ASSUME NEW r \in Requests, NEW u \in Users, GateSignedIn(r, u) PROVE IInv'
  <2>1. u \in Callers
    BY DEF Callers
  <2> QED
    BY <1>2, <2>1, GateKeepsIInv DEF GateSignedIn, Goes, Answered
<1>3. ASSUME NEW r \in Requests, Reject(r) \/ NothingToCompare(r) \/ Busy(r) PROVE IInv'
  BY <1>3, AnswerKeepsIInv DEF Reject, NothingToCompare, Busy, Answered, jobVars
<1>4. ASSUME NEW r \in Requests, Accept(r) PROVE IInv'
  BY <1>4, AcceptKeepsIInv
<1>5. ASSUME NEW r \in Requests, Finish(r) \/ Forget(r) PROVE IInv'
  BY <1>5 DEF Finish, Forget, IInv, HandlersTyped, UnsentIsNothing, ComparedWithOwn, Owner
<1>6. CASE Tick \/ UNCHANGED vars
  BY <1>6 DEF Tick, vars, jobVars, IInv, HandlersTyped, UnsentIsNothing, ComparedWithOwn, Owner
<1> QED
  BY <1>1, <1>2, <1>3, <1>4, <1>5, <1>6 DEF Next, Handler

\* Who may read a report is its owner or, where it has none, anyone; in both cases
\* they may read what it was compared with.
LEMMA OwnershipFollows == IInv => NobodySeesAnothers
<1> SUFFICES ASSUME IInv, NEW j \in Requests, NEW c \in Callers, Readable(c, j), from[j] # None
             PROVE  Owner(from[j]) \in {None, c}
  BY DEF NobodySeesAnothers
<1>1. Owner(from[j]) \in {None, caller[j]} /\ Owner(j) \in {None, c}
  BY DEF IInv, ComparedWithOwn, Readable
<1>2. None \notin Users
  BY AdmissionAssumption DEF Callers
<1>3. CASE Owner(from[j]) = None
  BY <1>3
<1>4. CASE Owner(from[j]) # None
  <2>1. Owner(from[j]) = caller[j] /\ caller[j] \in Users
    BY <1>1, <1>4 DEF Owner
  <2>2. Owner(j) = caller[j]
    BY <2>1 DEF Owner
  <2> QED
    BY <1>1, <1>2, <2>1, <2>2
<1> QED
  BY <1>3, <1>4

\* Through any history of submissions, comparisons, reports and lost jobs, whoever may
\* read a report may read the one it was compared with (check.py:107-115, 162-169).
THEOREM ComparisonsStayWithTheirOwner == Spec => []NobodySeesAnothers
  BY InitIInv, NextKeepsIInv, OwnershipFollows, PTL DEF Spec

-----------------------------------------------------------------------------
(* What the variables hold *)

LEMMA MaxOfTwo ==
  ASSUME NEW a \in Int, NEW b \in Int
  PROVE  Max({a, b}) = IF a >= b THEN a ELSE b
  BY DEF Max

\* A bucket is a record of a start and a count.
BucketsTyped == buckets \in [DOMAIN buckets -> [start : Nat, count : Nat]]

Typed == TypeOK /\ BucketsTyped

\* The limiter leaves buckets that are begun by now and counted up to the limit.
LEMMA LetInTyped ==
  ASSUME Typed, NEW a \in Addresses, LetIn(a), now' = now
  PROVE  /\ BucketsTyped' /\ DOMAIN buckets' \subseteq Addresses
         /\ \A b \in DOMAIN buckets' : buckets'[b].start \in 0..now /\ buckets'[b].count \in 1..RateLimit
<1>1. /\ now \in Nat /\ RateLimit \in Nat
      /\ Swept \in [DOMAIN Swept -> [start : Nat, count : Nat]] /\ DOMAIN Swept \subseteq Addresses
      /\ \A b \in DOMAIN Swept : Swept[b].start \in 0..now /\ Swept[b].count \in 1..RateLimit
  BY AdmissionAssumption DEF Typed, TypeOK, BucketsTyped, Swept, Restrict, Time
<1>2. CASE RateLimit = 0
  BY <1>2 DEF LetIn, Typed, TypeOK, BucketsTyped
<1>3. CASE RateLimit # 0 /\ buckets' = [b \in DOMAIN Swept \cup {a} |->
                               IF b = a THEN [start |-> now, count |-> 1] ELSE Swept[b]]
  BY <1>1, <1>3 DEF BucketsTyped
<1>4. CASE ~Begins(a) /\ HasRoom(a) /\ buckets' = [Swept EXCEPT ![a].count = @ + 1]
  BY <1>1, <1>4 DEF Begins, HasRoom, BucketsTyped
<1> QED
  BY <1>2, <1>3, <1>4 DEF LetIn

LEMMA TurnedAwayTyped ==
  ASSUME Typed, NEW a \in Addresses, TurnedAway(a), now' = now
  PROVE  /\ BucketsTyped' /\ DOMAIN buckets' \subseteq Addresses
         /\ \A b \in DOMAIN buckets' : buckets'[b].start \in 0..now /\ buckets'[b].count \in 1..RateLimit
  BY AdmissionAssumption DEF Typed, TypeOK, BucketsTyped, TurnedAway, Swept, Restrict, Time

LEMMA InFlightIsFinite ==
  ASSUME NEW u
  PROVE  InFlight(u) \in Nat /\ IsFiniteSet({r \in Requests : caller[r] = u /\ pc[r] = "reading"})
<1>1. {r \in Requests : caller[r] = u /\ pc[r] = "reading"} \in SUBSET Requests
  OBVIOUS
<1> QED
  BY <1>1, FS_Subset, FS_CardinalityType, AdmissionAssumption DEF InFlight

LEMMA NextKeepsTyped == Typed /\ [Next]_vars => Typed'
<1> SUFFICES ASSUME Typed, [Next]_vars PROVE Typed'
  OBVIOUS
<1> USE AdmissionAssumption
<1>1. ASSUME NEW r \in Requests, NEW a \in Addresses, GateAnonymous(r, a) PROVE Typed'
  <2>1. now' = now /\ now \in Time /\ a \in Callers
    BY <1>1 DEF GateAnonymous, Typed, TypeOK, Callers
  <2>2. /\ BucketsTyped' /\ DOMAIN buckets' \subseteq Addresses
        /\ \A b \in DOMAIN buckets' : buckets'[b].start \in 0..now /\ buckets'[b].count \in 1..RateLimit
    BY <1>1, <2>1, LetInTyped, TurnedAwayTyped DEF GateAnonymous
  <2>3. passes' \in [Addresses -> Seq(Time)]
    <3>1. passes[a] \in Seq(Time) /\ Append(passes[a], now) \in Seq(Time)
      BY <2>1 DEF Typed, TypeOK
    <3> QED
      BY <1>1, <3>1 DEF GateAnonymous, Typed, TypeOK
  <2>4. /\ pc' \in [Requests -> {"unsent", "reading", "done"}]
        /\ caller' \in [Requests -> Callers \cup {None}]
        /\ answer' \in [Requests -> Answers \cup {None}]
    BY <1>1, <2>1 DEF GateAnonymous, Typed, TypeOK, Goes, Answered, Answers
  <2> QED
    BY <1>1, <2>1, <2>2, <2>3, <2>4 DEF GateAnonymous, Typed, TypeOK, jobVars
<1>2. ASSUME NEW r \in Requests, NEW u \in Users, GateSignedIn(r, u) PROVE Typed'
  <2>1. u \in Callers
    BY DEF Callers
  <2>2. /\ pc' \in [Requests -> {"unsent", "reading", "done"}]
        /\ caller' \in [Requests -> Callers \cup {None}]
        /\ answer' \in [Requests -> Answers \cup {None}]
    BY <1>2, <2>1 DEF GateSignedIn, Typed, TypeOK, Goes, Answered, Answers
  <2>3. overlap' \in [Users -> Nat]
    <3>1. overlap[u] \in Nat /\ InFlight(u) \in Nat
      BY InFlightIsFinite DEF Typed, TypeOK
    <3>2. Max({overlap[u], InFlight(u) + 1}) \in Nat
      BY <3>1, MaxOfTwo
    <3> QED
      BY <1>2, <3>2 DEF GateSignedIn, Typed, TypeOK
  <2> QED
    BY <1>2, <2>2, <2>3 DEF GateSignedIn, Typed, TypeOK, BucketsTyped, jobVars
<1>3. ASSUME NEW r \in Requests, Reject(r) \/ NothingToCompare(r) \/ Busy(r) PROVE Typed'
  BY <1>3 DEF Reject, NothingToCompare, Busy, Answered, Answers, Typed, TypeOK, BucketsTyped, jobVars
<1>4. ASSUME NEW r \in Requests, Accept(r) PROVE Typed'
  <2>1. hits' \in [Users -> Seq(Time)]
    <3>1. caller[r] \in Users =>
            hits[caller[r]] \in Seq(Time) /\ Append(hits[caller[r]], now) \in Seq(Time)
      BY DEF Typed, TypeOK
    <3> QED
      BY <1>4, <3>1 DEF Accept, RecordUse, Typed, TypeOK
  <2>2. /\ pc' \in [Requests -> {"unsent", "reading", "done"}]
        /\ answer' \in [Requests -> Answers \cup {None}]
        /\ status' \in [Requests -> {"unborn", "open", "done", "gone"}]
    <3>1. \/ pc' = [pc EXCEPT ![r] = "done"] /\ answer' = [answer EXCEPT ![r] = "accepted"]
          \/ pc' = [pc EXCEPT ![r] = "done"] /\ answer' = [answer EXCEPT ![r] = "failed"]
      BY <1>4 DEF Accept, Answered
    <3>2. status' = [status EXCEPT ![r] = "open"]
      BY <1>4 DEF Accept
    <3> QED
      BY <3>1, <3>2 DEF Answers, Typed, TypeOK
  <2>3. from' \in [Requests -> Requests \cup {None}]
    <3>1. UNCHANGED from \/ \E j \in Requests : from' = [from EXCEPT ![r] = j]
      BY <1>4 DEF Accept
    <3> QED
      BY <3>1 DEF Typed, TypeOK
  <2>4. queued' \in [Requests -> Time \cup {None}]
    <3>1. now \in Time
      BY DEF Typed, TypeOK
    <3> QED
      BY <1>4, <3>1 DEF Accept, Typed, TypeOK
  <2> QED
    BY <1>4, <2>1, <2>2, <2>3, <2>4 DEF Accept, Typed, TypeOK, BucketsTyped
<1>5. ASSUME NEW r \in Requests, Finish(r) \/ Forget(r) PROVE Typed'
  BY <1>5 DEF Finish, Forget, Typed, TypeOK, BucketsTyped
<1>6. CASE Tick
  <2>1. now' \in Time /\ now \in Nat /\ now' = now + 1
    BY <1>6 DEF Tick, Typed, TypeOK, Time
  <2>2. \A a \in DOMAIN buckets : buckets[a].start \in 0..now'
    BY <2>1 DEF Typed, TypeOK
  <2> QED
    BY <1>6, <2>1, <2>2 DEF Tick, Typed, TypeOK, BucketsTyped, jobVars
<1>7. CASE UNCHANGED vars
  BY <1>7 DEF vars, jobVars, Typed, TypeOK, BucketsTyped
<1> QED
  BY <1>1, <1>2, <1>3, <1>4, <1>5, <1>6, <1>7 DEF Next, Handler

LEMMA InitTyped == Init => Typed
  BY AdmissionAssumption DEF Init, Typed, TypeOK, BucketsTyped, Time

\* Every variable keeps its type: in particular no bucket begins later than now or
\* counts more than the limit (limits.py:77-91).
THEOREM TypeCorrect == Spec => []TypeOK
<1>1. Typed => TypeOK
  BY DEF Typed
<1> QED
  BY <1>1, InitTyped, NextKeepsTyped, PTL DEF Spec

-----------------------------------------------------------------------------
(* Counting times in a list of them *)

From(s, t) == {i \in DOMAIN s : s[i] >= t}
Between(s, t, e) == {i \in DOMAIN s : t <= s[i] /\ s[i] < e}

LEMMA TimesAreNat == Time \subseteq Nat
  BY AdmissionAssumption DEF Time

LEMMA IndicesAreFinite ==
  ASSUME NEW s \in Seq(Time), NEW T \in SUBSET DOMAIN s
  PROVE  IsFiniteSet(T) /\ Cardinality(T) \in Nat /\ Len(s) \in Nat
         /\ \A S \in SUBSET T : IsFiniteSet(S) /\ Cardinality(S) <= Cardinality(T)
<1>1. Len(s) \in Nat /\ DOMAIN s = 1..Len(s)
  OBVIOUS
<1>2. IsFiniteSet(DOMAIN s)
  BY <1>1, FS_Interval
<1>3. IsFiniteSet(T)
  BY <1>2, FS_Subset
<1> QED
  BY <1>1, <1>3, FS_Subset, FS_CardinalityType

\* A time put at the end of a list counts once, for the bounds it is within.
LEMMA AppendCounts ==
  ASSUME NEW s \in Seq(Time), NEW x \in Time, NEW t \in Int, NEW e \in Int
  PROVE  /\ Append(s, x) \in Seq(Time)
         /\ Cardinality(From(Append(s, x), t)) =
              Cardinality(From(s, t)) + (IF x >= t THEN 1 ELSE 0)
         /\ Cardinality(Between(Append(s, x), t, e)) =
              Cardinality(Between(s, t, e)) + (IF t <= x /\ x < e THEN 1 ELSE 0)
<1> DEFINE n == Len(s) + 1
<1>1. /\ Append(s, x) \in Seq(Time) /\ Len(s) \in Nat /\ DOMAIN s = 1..Len(s)
      /\ DOMAIN Append(s, x) = DOMAIN s \cup {n} /\ n \notin DOMAIN s
      /\ Append(s, x)[n] = x /\ \A i \in DOMAIN s : Append(s, x)[i] = s[i]
  OBVIOUS
<1>2. /\ From(Append(s, x), t) = IF x >= t THEN From(s, t) \cup {n} ELSE From(s, t)
      /\ n \notin From(s, t) /\ From(s, t) \in SUBSET DOMAIN s
  BY <1>1 DEF From
<1>3. /\ Between(Append(s, x), t, e) =
           IF t <= x /\ x < e THEN Between(s, t, e) \cup {n} ELSE Between(s, t, e)
      /\ n \notin Between(s, t, e) /\ Between(s, t, e) \in SUBSET DOMAIN s
  BY <1>1 DEF Between
<1> HIDE DEF n
<1>4. IsFiniteSet(From(s, t)) /\ IsFiniteSet(Between(s, t, e))
      /\ Cardinality(From(s, t)) \in Nat /\ Cardinality(Between(s, t, e)) \in Nat
  BY <1>2, <1>3, IndicesAreFinite
<1>5. Cardinality(From(s, t) \cup {n}) = Cardinality(From(s, t)) + 1
  BY <1>2, <1>4, FS_AddElement
<1>6. Cardinality(Between(s, t, e) \cup {n}) = Cardinality(Between(s, t, e)) + 1
  BY <1>3, <1>4, FS_AddElement
<1> QED
  BY <1>1, <1>2, <1>3, <1>4, <1>5, <1>6

-----------------------------------------------------------------------------
(* The ledger *)

Accepted(u) == {r \in Requests : caller[r] = u /\ answer[r] = "accepted"}
Reading(u) == {r \in Requests : caller[r] = u /\ pc[r] = "reading"}

\* The checks the ledger should have counted since, and has.
Counted(u, t) == {r \in Accepted(u) : queued[r] # None /\ queued[r] >= t}

\* What becomes of a request: a check of a user is queued as it is answered, and the
\* answer is that it was accepted or that the server failed.
QueuedInv ==
  \A r \in Requests :
    /\ pc[r] # "done" => answer[r] # "accepted" /\ queued[r] = None
    /\ caller[r] \in Users /\ answer[r] = "accepted" => queued[r] # None
    /\ queued[r] # None => answer[r] \in {"accepted", "failed"}

\* Every check of a user that was accepted was recorded, at its time.
CountInv == \A u \in Users, t \in Int : UsedSince(u, t) = Cardinality(Counted(u, t))

\* What a user has used, with what they have past the gate, is within the quota and
\* the overlap: each of those past the gate was let in below the quota.
QuotaInv ==
  QuotaChecks > 0 =>
    \A u \in Users :
      UsedSince(u, now - QuotaWindow) + InFlight(u) <= QuotaChecks + Max({overlap[u], 1}) - 1

LedgerInv == Typed /\ QueuedInv /\ CountInv /\ QuotaInv

LEMMA RequestSetsAreFinite ==
  ASSUME NEW u
  PROVE  /\ IsFiniteSet(Reading(u)) /\ Cardinality(Reading(u)) \in Nat
         /\ InFlight(u) = Cardinality(Reading(u))
<1>1. Reading(u) \in SUBSET Requests
  BY DEF Reading
<1> QED
  BY <1>1, FS_Subset, FS_CardinalityType, AdmissionAssumption DEF InFlight, Reading

LEMMA CountedIsFinite ==
  ASSUME NEW u, NEW t
  PROVE  IsFiniteSet(Counted(u, t)) /\ Cardinality(Counted(u, t)) \in Nat
<1>1. Counted(u, t) \in SUBSET Requests
  BY DEF Counted, Accepted
<1> QED
  BY <1>1, FS_Subset, FS_CardinalityType, AdmissionAssumption

LEMMA UsedTyped ==
  ASSUME Typed, NEW u \in Users, NEW t \in Int
  PROVE  /\ UsedSince(u, t) = Cardinality(From(hits[u], t)) /\ UsedSince(u, t) \in Nat
         /\ hits[u] \in Seq(Time)
         /\ \A e \in Int : e >= t => UsedSince(u, e) <= UsedSince(u, t)
<1>1. hits[u] \in Seq(Time) /\ From(hits[u], t) \in SUBSET DOMAIN hits[u]
  BY DEF Typed, TypeOK, From
<1>2. \A i \in DOMAIN hits[u] : hits[u][i] \in Nat
  <2> SUFFICES ASSUME NEW i \in DOMAIN hits[u] PROVE hits[u][i] \in Time
    BY TimesAreNat
  <2> QED
    BY <1>1
<1>3. \A e \in Int : e >= t => From(hits[u], e) \in SUBSET From(hits[u], t)
  BY <1>2 DEF From
<1> QED
  BY <1>1, <1>3, IndicesAreFinite DEF From, UsedSince

LEMMA InitLedgerInv == Init => LedgerInv
<1> SUFFICES ASSUME Init PROVE LedgerInv
  OBVIOUS
<1>1. Typed
  BY InitTyped
<1>2. \A u \in Users : Accepted(u) = {} /\ Reading(u) = {} /\ hits[u] = <<>>
  BY AdmissionAssumption DEF Init, Accepted, Reading, Answers
<1>3. CountInv
  <2>1. \A u \in Users, t \in Int : Counted(u, t) = {} /\ From(hits[u], t) = {}
    BY <1>2 DEF Counted, From
  <2>2. \A u \in Users, t \in Int : UsedSince(u, t) = Cardinality(From(hits[u], t))
    BY <1>1, UsedTyped
  <2> QED
    BY <2>1, <2>2 DEF CountInv
<1>5. QueuedInv
  BY AdmissionAssumption DEF QueuedInv, Init, Answers
<1>4. QuotaInv
  <2> SUFFICES ASSUME QuotaChecks > 0, NEW u \in Users
               PROVE  UsedSince(u, now - QuotaWindow) + InFlight(u) <= QuotaChecks + Max({overlap[u], 1}) - 1
    BY DEF QuotaInv
  <2>1. InFlight(u) = 0 /\ UsedSince(u, now - QuotaWindow) = 0
    BY <1>2, FS_EmptySet, RequestSetsAreFinite DEF UsedSince
  <2>2. Max({overlap[u], 1}) = 1
    BY MaxOfTwo DEF Init
  <2> QED
    BY <2>1, <2>2, AdmissionAssumption
<1> QED
  BY <1>1, <1>3, <1>4, <1>5 DEF LedgerInv

\* A step that accepts nothing, records nothing and puts no request of a user past the
\* gate keeps the account: requests may leave, and the window may move on.
LEMMA LeavingKeepsLedgerInv ==
  ASSUME LedgerInv, Typed', UNCHANGED <<hits, overlap>>,
         now' \in Nat, now <= now', QueuedInv',
         \A r \in Requests : answer[r] = "accepted" => queued'[r] = queued[r],
         \A u \in Users : Accepted(u)' = Accepted(u) /\ Reading(u)' \subseteq Reading(u)
  PROVE  LedgerInv'
<1>1. CountInv'
  <2> SUFFICES ASSUME NEW u \in Users, NEW t \in Int
               PROVE  UsedSince(u, t)' = Cardinality(Counted(u, t)')
    BY DEF CountInv
  <2>1. Counted(u, t)' = Counted(u, t)
    BY DEF Counted, Accepted
  <2>2. UsedSince(u, t)' = UsedSince(u, t)
    BY DEF UsedSince
  <2> QED
    BY <2>1, <2>2 DEF LedgerInv, CountInv
<1>2. QuotaInv'
  <2> SUFFICES ASSUME QuotaChecks > 0, NEW u \in Users
               PROVE  UsedSince(u, now - QuotaWindow)' + InFlight(u)' <= QuotaChecks + Max({overlap'[u], 1}) - 1
    BY DEF QuotaInv
  <2>1. now \in Nat /\ QuotaWindow \in Nat /\ QuotaChecks \in Nat /\ overlap[u] \in Nat
    BY AdmissionAssumption, TimesAreNat DEF LedgerInv, Typed, TypeOK
  <2>2. /\ UsedSince(u, now' - QuotaWindow) <= UsedSince(u, now - QuotaWindow)
        /\ UsedSince(u, now' - QuotaWindow) \in Nat /\ UsedSince(u, now - QuotaWindow) \in Nat
    BY <2>1, UsedTyped DEF LedgerInv
  <2>3. UsedSince(u, now - QuotaWindow)' = UsedSince(u, now' - QuotaWindow)
    BY DEF UsedSince
  <2>4. Reading(u)' \in SUBSET Reading(u)
    OBVIOUS
  <2>5. /\ InFlight(u)' = Cardinality(Reading(u)') /\ InFlight(u) = Cardinality(Reading(u))
        /\ Cardinality(Reading(u)') <= Cardinality(Reading(u))
        /\ Cardinality(Reading(u)') \in Nat /\ Cardinality(Reading(u)) \in Nat
    <3>1. InFlight(u)' = Cardinality(Reading(u)') /\ InFlight(u) = Cardinality(Reading(u))
      BY DEF InFlight, Reading
    <3>2. IsFiniteSet(Reading(u)) /\ Cardinality(Reading(u)) \in Nat
      BY RequestSetsAreFinite
    <3>3. IsFiniteSet(Reading(u)') /\ Cardinality(Reading(u)') <= Cardinality(Reading(u))
      BY <2>4, <3>2, FS_Subset
    <3> QED
      BY <3>1, <3>2, <3>3, FS_CardinalityType
  <2>6. UsedSince(u, now - QuotaWindow) + InFlight(u) <= QuotaChecks + Max({overlap[u], 1}) - 1
    BY DEF LedgerInv, QuotaInv
  <2>7. Max({overlap[u], 1}) \in Int
    <3>1. overlap[u] \in Int /\ 1 \in Int
      BY <2>1
    <3> QED
      BY <3>1, MaxOfTwo
  <2> QED
    BY <2>1, <2>2, <2>3, <2>5, <2>6, <2>7
<1> QED
  BY <1>1, <1>2 DEF LedgerInv

\* A request is answered, and its check queued, in one step.
LEMMA AnswerKeepsQueued ==
  ASSUME QueuedInv, Typed, NEW r \in Requests, pc[r] # "done", NEW a, Answered(r, a),
         caller' = caller \/ \E c \in Callers : caller' = [caller EXCEPT ![r] = c],
         \/ queued' = queued /\ (a = "accepted" => caller'[r] \notin Users)
         \/ queued' = [queued EXCEPT ![r] = now] /\ a \in {"accepted", "failed"}
  PROVE  QueuedInv' /\ \A q \in Requests : answer[q] = "accepted" => queued'[q] = queued[q]
<1>1. /\ pc'[r] = "done" /\ answer'[r] = a /\ answer[r] # "accepted" /\ queued[r] = None
      /\ \A q \in Requests \ {r} : pc'[q] = pc[q] /\ answer'[q] = answer[q]
  BY DEF Answered, QueuedInv, Typed, TypeOK
<1>2. \A q \in Requests \ {r} : caller'[q] = caller[q] /\ queued'[q] = queued[q]
  BY DEF Typed, TypeOK
<1>3. now # None
  BY AdmissionAssumption DEF Typed, TypeOK, Time
<1>4. /\ queued'[r] # None => a \in {"accepted", "failed"}
      /\ a = "accepted" /\ caller'[r] \in Users => queued'[r] # None
  BY <1>1, <1>3 DEF Typed, TypeOK
<1> QED
  BY <1>1, <1>2, <1>4 DEF QueuedInv

LEMMA NextKeepsQueued ==
  ASSUME QueuedInv, Typed, [Next]_vars
  PROVE  QueuedInv'
<1>1. ASSUME NEW r \in Requests, NEW c \in Callers, pc[r] = "unsent", caller' = [caller EXCEPT ![r] = c],
             Goes(r), UNCHANGED queued
      PROVE  QueuedInv'
  <2>1. \A q \in Requests : answer'[q] = answer[q] /\ (pc'[q] # "done" => pc[q] # "done")
    BY <1>1 DEF Goes, Typed, TypeOK
  <2>2. \A q \in Requests \ {r} : caller'[q] = caller[q]
    BY <1>1 DEF Typed, TypeOK
  <2>3. answer[r] # "accepted"
    BY <1>1 DEF QueuedInv
  <2> QED
    BY <1>1, <2>1, <2>2, <2>3 DEF QueuedInv
<1>2. ASSUME NEW r \in Requests, NEW a \in Addresses, GateAnonymous(r, a) PROVE QueuedInv'
  <2>1. a \in Callers
    BY DEF Callers
  <2> QED
    BY <1>1, <1>2, <2>1, AnswerKeepsQueued DEF GateAnonymous
<1>3. ASSUME NEW r \in Requests, NEW u \in Users, GateSignedIn(r, u) PROVE QueuedInv'
  <2>1. u \in Callers
    BY DEF Callers
  <2> QED
    BY <1>1, <1>3, <2>1, AnswerKeepsQueued DEF GateSignedIn
<1>4. ASSUME NEW r \in Requests, Reject(r) \/ NothingToCompare(r) \/ Busy(r) PROVE QueuedInv'
  BY <1>4, AnswerKeepsQueued DEF Reject, NothingToCompare, Busy
<1>5. ASSUME NEW r \in Requests, Accept(r) PROVE QueuedInv'
  <2>1. /\ pc[r] # "done" /\ UNCHANGED caller
        /\ queued' = IF caller[r] \in Users THEN [queued EXCEPT ![r] = now] ELSE queued
        /\ Answered(r, "accepted") \/ Answered(r, "failed")
    BY <1>5 DEF Accept
  <2> QED
    BY <2>1, AnswerKeepsQueued
<1>6. CASE UNCHANGED <<pc, caller, answer, queued>>
  BY <1>6 DEF QueuedInv
<1>7. ASSUME NEW r \in Requests, Finish(r) \/ Forget(r) PROVE QueuedInv'
  BY <1>6, <1>7 DEF Finish, Forget
<1>8. CASE Tick \/ UNCHANGED vars
  BY <1>6, <1>8 DEF Tick, vars
<1> QED
  BY <1>2, <1>3, <1>4, <1>5, <1>7, <1>8 DEF Next, Handler

\* Who is let in was below the quota.
LEMMA GateKeepsLedgerInv ==
  ASSUME LedgerInv, Typed', NEW r \in Requests, NEW u \in Users, GateSignedIn(r, u)
  PROVE  LedgerInv'
<1>1. /\ pc[r] = "unsent" /\ caller' = [caller EXCEPT ![r] = u] /\ UNCHANGED <<now, hits>>
      /\ answer[r] # "accepted" /\ now \in Nat /\ UNCHANGED queued /\ QueuedInv'
  BY TimesAreNat, NextKeepsQueued DEF GateSignedIn, LedgerInv, QueuedInv, Typed, TypeOK, Next, Handler
<1>2. CASE (Answered(r, "refused") \/ Answered(r, "failed")) /\ UNCHANGED overlap
  <2>1. \A v \in Users : Accepted(v)' = Accepted(v) /\ Reading(v)' \subseteq Reading(v)
    BY <1>1, <1>2, SMTT(60) DEF Answered, Accepted, Reading, LedgerInv, Typed, TypeOK
  <2> QED
    BY <1>1, <1>2, <2>1, LeavingKeepsLedgerInv
<1>3. CASE /\ QuotaChecks = 0 \/ Used(u) < QuotaChecks
           /\ Goes(r)
           /\ overlap' = [overlap EXCEPT ![u] = Max({@, InFlight(u) + 1})]
  <2>1. /\ \A v \in Users : Accepted(v)' = Accepted(v)
        /\ \A v \in Users \ {u} : Reading(v)' = Reading(v)
        /\ Reading(u)' = Reading(u) \cup {r} /\ r \notin Reading(u)
    BY <1>1, <1>3 DEF Goes, Accepted, Reading, LedgerInv, Typed, TypeOK
  <2>2. CountInv'
    <3> SUFFICES ASSUME NEW v \in Users, NEW t \in Int
                 PROVE  UsedSince(v, t)' = Cardinality(Counted(v, t)')
      BY DEF CountInv
    <3>1. UsedSince(v, t)' = UsedSince(v, t) /\ Counted(v, t)' = Counted(v, t)
      BY <1>1, <2>1 DEF UsedSince, Counted
    <3> QED
      BY <3>1 DEF LedgerInv, CountInv
  <2>3. QuotaInv'
    <3> SUFFICES ASSUME QuotaChecks > 0, NEW v \in Users
                 PROVE  UsedSince(v, now - QuotaWindow)' + InFlight(v)' <= QuotaChecks + Max({overlap'[v], 1}) - 1
      BY DEF QuotaInv
    <3>1. UsedSince(v, now - QuotaWindow)' = UsedSince(v, now - QuotaWindow)
      BY <1>1 DEF UsedSince
    <3>2. InFlight(v)' = Cardinality(Reading(v)') /\ InFlight(v) = Cardinality(Reading(v))
      BY DEF InFlight, Reading
    <3>3. CASE v # u
      BY <1>3, <2>1, <3>1, <3>2, <3>3 DEF LedgerInv, QuotaInv, Typed, TypeOK
    <3>4. CASE v = u
      <4>1. InFlight(u)' = InFlight(u) + 1 /\ InFlight(u) \in Nat
        BY <2>1, <3>2, <3>4, RequestSetsAreFinite, FS_AddElement
      <4>2. overlap[u] \in Int /\ InFlight(u) + 1 \in Int /\ 1 \in Int
        BY <4>1 DEF LedgerInv, Typed, TypeOK
      <4>3. overlap'[u] = Max({overlap[u], InFlight(u) + 1})
        BY <1>3 DEF LedgerInv, Typed, TypeOK
      <4>4. overlap'[u] \in Int /\ overlap'[u] >= InFlight(u) + 1
        <5> DEFINE o == overlap[u]
                   n == InFlight(u) + 1
        <5>1. o \in Int /\ n \in Int /\ overlap'[u] = Max({o, n})
          BY <4>2, <4>3
        <5> HIDE DEF o, n
        <5>2. overlap'[u] \in Int /\ overlap'[u] >= n
          BY <5>1, MaxOfTwo
        <5> QED
          BY <5>2 DEF n
      <4>5. Max({overlap'[u], 1}) \in Int /\ Max({overlap'[u], 1}) >= overlap'[u]
        BY <4>2, <4>4, MaxOfTwo
      <4>6. UsedSince(u, now - QuotaWindow) < QuotaChecks /\ UsedSince(u, now - QuotaWindow) \in Nat
        BY <1>1, <1>3, UsedTyped, AdmissionAssumption DEF Used, LedgerInv
      <4> QED
        BY <3>1, <3>4, <4>1, <4>4, <4>5, <4>6, AdmissionAssumption
    <3> QED
      BY <3>3, <3>4
  <2> QED
    BY <1>1, <2>2, <2>3 DEF LedgerInv
<1> QED
  BY <1>2, <1>3, AdmissionAssumption DEF GateSignedIn

\* What is accepted is recorded as it leaves the gate's count.
LEMMA AcceptKeepsLedgerInv ==
  ASSUME LedgerInv, Typed', NEW r \in Requests, Accept(r)
  PROVE  LedgerInv'
<1>1. /\ pc[r] = "reading" /\ UNCHANGED <<now, caller, overlap>> /\ answer[r] # "accepted"
      /\ now \in Nat /\ now \in Time /\ QueuedInv'
      /\ queued' = IF caller[r] \in Users THEN [queued EXCEPT ![r] = now] ELSE queued
  BY TimesAreNat, NextKeepsQueued DEF Accept, LedgerInv, QueuedInv, Typed, TypeOK, Next, Handler
<1>0. \A q \in Requests : answer[q] = "accepted" => queued'[q] = queued[q]
  BY <1>1 DEF LedgerInv, Typed, TypeOK
<1>2. CASE UNCHANGED hits /\ (caller[r] \notin Users \/ Answered(r, "failed"))
  <2>1. Answered(r, "accepted") \/ Answered(r, "failed")
    BY DEF Accept
  <2>2. \A v \in Users : Accepted(v)' = Accepted(v) /\ Reading(v)' \subseteq Reading(v)
    <3>1. CASE Answered(r, "failed")
      BY <1>1, <3>1 DEF Answered, Accepted, Reading, LedgerInv, Typed, TypeOK
    <3>2. CASE Answered(r, "accepted") /\ caller[r] \notin Users
      BY <1>1, <3>2 DEF Answered, Accepted, Reading, LedgerInv, Typed, TypeOK
    <3> QED
      BY <1>2, <2>1, <3>1, <3>2
  <2> QED
    BY <1>0, <1>1, <1>2, <2>2, LeavingKeepsLedgerInv
<1>3. CASE /\ caller[r] \in Users /\ hits' = [hits EXCEPT ![caller[r]] = Append(@, now)]
           /\ Answered(r, "accepted")
  <2>1. PICK u \in Users : u = caller[r]
    BY <1>3
  <2>2. /\ \A v \in Users \ {u} : Accepted(v)' = Accepted(v) /\ Reading(v)' = Reading(v)
        /\ Reading(u)' = Reading(u) \ {r} /\ r \in Reading(u)
        /\ Accepted(u)' = Accepted(u) \cup {r} /\ r \notin Accepted(u)
    BY <1>1, <1>3, <2>1 DEF Answered, Accepted, Reading, LedgerInv, Typed, TypeOK
  <2>3. /\ hits'[u] = Append(hits[u], now) /\ hits[u] \in Seq(Time)
        /\ \A v \in Users \ {u} : hits'[v] = hits[v]
    BY <1>3, <2>1 DEF LedgerInv, Typed, TypeOK
  <2>4. CountInv'
    <3> SUFFICES ASSUME NEW v \in Users, NEW t \in Int
                 PROVE  UsedSince(v, t)' = Cardinality(Counted(v, t)')
      BY DEF CountInv
    <3>1. UsedSince(v, t) = Cardinality(Counted(v, t))
      BY DEF LedgerInv, CountInv
    <3>2. CASE v # u
      <4>1. UsedSince(v, t)' = UsedSince(v, t)
        BY <2>3, <3>2 DEF UsedSince
      <4>2. Counted(v, t)' = Counted(v, t)
        BY <1>0, <2>2, <3>2 DEF Counted, Accepted
      <4> QED
        BY <3>1, <4>1, <4>2
    <3>3. CASE v = u
      <4>1. queued'[r] = now /\ now # None /\ now \in Int
        BY <1>1, <1>3, AdmissionAssumption DEF LedgerInv, Typed, TypeOK, Time
      <4>2. /\ Counted(u, t)' = IF now >= t THEN Counted(u, t) \cup {r} ELSE Counted(u, t)
            /\ r \notin Counted(u, t)
        BY <1>0, <2>2, <4>1 DEF Counted, Accepted
      <4>3. Cardinality(Counted(u, t)') = Cardinality(Counted(u, t)) + (IF now >= t THEN 1 ELSE 0)
        <5>1. IsFiniteSet(Counted(u, t)) /\ Cardinality(Counted(u, t)) \in Nat
          BY CountedIsFinite
        <5>2. CASE now >= t
          BY <4>2, <5>1, <5>2, FS_AddElement
        <5>3. CASE ~(now >= t)
          BY <4>2, <5>1, <5>3
        <5> QED
          BY <5>2, <5>3
      <4>4. Cardinality(From(Append(hits[u], now), t)) =
              Cardinality(From(hits[u], t)) + (IF now >= t THEN 1 ELSE 0)
        BY <1>1, <2>3, AppendCounts
      <4>5. UsedSince(u, t) = Cardinality(From(hits[u], t))
        BY UsedTyped DEF LedgerInv
      <4>6. UsedSince(u, t)' = Cardinality(From(Append(hits[u], now), t))
        BY <2>3 DEF UsedSince, From
      <4> QED
        BY <3>1, <3>3, <4>3, <4>4, <4>5, <4>6
    <3> QED
      BY <3>2, <3>3
  <2>5. QuotaInv'
    <3> SUFFICES ASSUME QuotaChecks > 0, NEW v \in Users
                 PROVE  UsedSince(v, now - QuotaWindow)' + InFlight(v)' <= QuotaChecks + Max({overlap'[v], 1}) - 1
      BY DEF QuotaInv
    <3>1. InFlight(v)' = Cardinality(Reading(v)') /\ InFlight(v) = Cardinality(Reading(v))
      BY DEF InFlight, Reading
    <3>2. CASE v # u
      <4>1. UsedSince(v, now - QuotaWindow)' = UsedSince(v, now - QuotaWindow)
        BY <1>1, <2>3, <3>2 DEF UsedSince
      <4> QED
        BY <1>1, <2>2, <3>1, <3>2, <4>1 DEF LedgerInv, QuotaInv
    <3>3. CASE v = u
      <4>1. InFlight(u)' = InFlight(u) - 1 /\ InFlight(u) \in Nat
        BY <2>2, <3>1, <3>3, RequestSetsAreFinite, FS_RemoveElement
      <4>2. now - QuotaWindow \in Int /\ QuotaWindow \in Nat
        BY <1>1, AdmissionAssumption
      <4>3. Cardinality(From(Append(hits[u], now), now - QuotaWindow)) =
              Cardinality(From(hits[u], now - QuotaWindow)) + 1
        <5> DEFINE t == now - QuotaWindow
        <5>1. t \in Int /\ t <= now
          BY <1>1, <4>2, TimesAreNat
        <5> HIDE DEF t
        <5>2. Cardinality(From(Append(hits[u], now), t)) = Cardinality(From(hits[u], t)) + 1
          BY <1>1, <2>3, <5>1, AppendCounts
        <5> QED
          BY <5>2 DEF t
      <4>4. /\ UsedSince(u, now - QuotaWindow) = Cardinality(From(hits[u], now - QuotaWindow))
            /\ UsedSince(u, now - QuotaWindow) \in Nat
        BY <2>1, <4>2, UsedTyped DEF LedgerInv
      <4>5. UsedSince(u, now - QuotaWindow)' = Cardinality(From(Append(hits[u], now), now - QuotaWindow))
        BY <1>1, <2>3 DEF UsedSince, From
      <4>6. UsedSince(u, now - QuotaWindow)' + InFlight(u)' = UsedSince(u, now - QuotaWindow) + InFlight(u)
        BY <4>1, <4>3, <4>4, <4>5
      <4> QED
        BY <1>1, <2>1, <3>3, <4>6 DEF LedgerInv, QuotaInv
    <3> QED
      BY <3>2, <3>3
  <2> QED
    BY <1>1, <2>4, <2>5 DEF LedgerInv
<1> QED
  BY <1>2, <1>3 DEF Accept, RecordUse

LEMMA NextKeepsLedgerInv == LedgerInv /\ [Next]_vars => LedgerInv'
<1> SUFFICES ASSUME LedgerInv, [Next]_vars PROVE LedgerInv'
  OBVIOUS
<1>1. Typed' /\ QueuedInv' /\ now \in Nat
  BY NextKeepsTyped, NextKeepsQueued, TimesAreNat DEF LedgerInv, Typed, TypeOK
<1>2. ASSUME NEW r \in Requests, NEW a \in Addresses, GateAnonymous(r, a) PROVE LedgerInv'
  <2>1. a \notin Users /\ answer[r] # "accepted"
    BY <1>2, AdmissionAssumption DEF GateAnonymous, LedgerInv, QueuedInv
  <2>2. caller' = [caller EXCEPT ![r] = a] /\ (Goes(r) \/ Answered(r, "refused")) /\ pc[r] = "unsent"
        /\ UNCHANGED <<now, hits, overlap, queued>>
    BY <1>2 DEF GateAnonymous
  <2>3. \A v \in Users : Accepted(v)' = Accepted(v) /\ Reading(v)' \subseteq Reading(v)
    BY <2>1, <2>2, ZenonT(60) DEF Goes, Answered, Accepted, Reading, LedgerInv, Typed, TypeOK
  <2> QED
    BY <1>1, <2>2, <2>3, LeavingKeepsLedgerInv
<1>3. ASSUME NEW r \in Requests, NEW u \in Users, GateSignedIn(r, u) PROVE LedgerInv'
  BY <1>1, <1>3, GateKeepsLedgerInv
<1>4. ASSUME NEW r \in Requests, Reject(r) \/ NothingToCompare(r) \/ Busy(r) PROVE LedgerInv'
  <2>1. /\ pc[r] = "reading" /\ (Answered(r, "refused") \/ Answered(r, "busy"))
        /\ UNCHANGED <<now, hits, overlap, caller, queued>> /\ answer[r] # "accepted"
    BY <1>4 DEF Reject, NothingToCompare, Busy, LedgerInv, QueuedInv
  <2>2. \A v \in Users : Accepted(v)' = Accepted(v) /\ Reading(v)' \subseteq Reading(v)
    BY <2>1, ZenonT(60) DEF Answered, Accepted, Reading, LedgerInv, Typed, TypeOK
  <2> QED
    BY <1>1, <2>1, <2>2, LeavingKeepsLedgerInv
<1>5. ASSUME NEW r \in Requests, Accept(r) PROVE LedgerInv'
  BY <1>1, <1>5, AcceptKeepsLedgerInv
<1>6. ASSUME UNCHANGED <<hits, overlap, pc, caller, answer, queued>>, now' = now \/ now' = now + 1
      PROVE  LedgerInv'
  <2>1. \A v \in Users : Accepted(v)' = Accepted(v) /\ Reading(v)' \subseteq Reading(v)
    BY <1>6 DEF Accepted, Reading
  <2>2. now' \in Nat /\ now <= now'
    BY <1>1, <1>6
  <2> QED
    BY <1>1, <1>6, <2>1, <2>2, LeavingKeepsLedgerInv
<1>7. ASSUME NEW r \in Requests, Finish(r) \/ Forget(r) PROVE LedgerInv'
  BY <1>6, <1>7 DEF Finish, Forget
<1>8. CASE Tick \/ UNCHANGED vars
  BY <1>6, <1>8 DEF Tick, vars
<1> QED
  BY <1>2, <1>3, <1>4, <1>5, <1>7, <1>8 DEF Next, Handler

\* The checks of a user that were queued are those that were counted and those whose
\* client was told that the server failed.
LEMMA QueuedAreCountedOrFailed ==
  ASSUME LedgerInv, NEW u \in Users, NEW t \in Int
  PROVE  /\ Cardinality(Checks(u, t)) = UsedSince(u, t) + Cardinality(Failed(u, t))
         /\ UsedSince(u, t) \in Nat /\ Cardinality(Failed(u, t)) \in Nat
<1>1. /\ Checks(u, t) = Counted(u, t) \cup Failed(u, t) /\ Counted(u, t) \cap Failed(u, t) = {}
      /\ Counted(u, t) \in SUBSET Requests /\ Failed(u, t) \in SUBSET Requests
  BY DEF Checks, Failed, Counted, Accepted, LedgerInv, QueuedInv
<1>2. /\ IsFiniteSet(Counted(u, t)) /\ IsFiniteSet(Failed(u, t))
      /\ Cardinality(Counted(u, t)) \in Nat /\ Cardinality(Failed(u, t)) \in Nat
  BY <1>1, FS_Subset, FS_CardinalityType, AdmissionAssumption
<1>3. Cardinality(Counted(u, t) \cap Failed(u, t)) = 0
  BY <1>1, FS_EmptySet
<1>4. Cardinality(Checks(u, t)) =
        Cardinality(Counted(u, t)) + Cardinality(Failed(u, t)) - Cardinality(Counted(u, t) \cap Failed(u, t))
  BY <1>1, <1>2, FS_Union
<1> QED
  BY <1>2, <1>3, <1>4 DEF LedgerInv, CountInv

\* From whatever time one counts, the ledger has one entry for each check of a user that
\* was queued, save those whose client was told that the server failed, and none for a
\* refused request (check.py:126-135, usage.py:4-10), for any number of requests and users.
THEOREM LedgerCountsAcceptance == Spec => []AcceptedIsCounted
<1>1. LedgerInv => AcceptedIsCounted
  <2> SUFFICES ASSUME LedgerInv, NEW u \in Users, NEW t \in Time
               PROVE  UsedSince(u, t) = Cardinality(Checks(u, t)) - Cardinality(Failed(u, t))
    BY DEF AcceptedIsCounted
  <2>1. t \in Int
    BY TimesAreNat
  <2> QED
    BY <2>1, QueuedAreCountedOrFailed
<1> QED
  BY <1>1, InitLedgerInv, NextKeepsLedgerInv, PTL DEF Spec

\* However the gates, the uploads and the acceptances of a user's requests fall between
\* one another, and whenever the ledger or the pool fails, the checks that are queued for
\* a user in a window exceed the quota by the requests that were past the gate together
\* and those whose client was told that the server failed, and no more (check.py:64-67,
\* 126-135), for any quota and window.
THEOREM QuotaHoldsUpToOverlap == Spec => []QuotaUpToOverlap
<1>1. LedgerInv => QuotaUpToOverlap
  <2> DEFINE edge == now - QuotaWindow
  <2> SUFFICES ASSUME LedgerInv, QuotaChecks > 0, NEW u \in Users
               PROVE  Cardinality(Checks(u, edge)) <=
                        QuotaChecks + Max({overlap[u], 1}) - 1 + Cardinality(Failed(u, edge))
    BY DEF QuotaUpToOverlap
  <2>1. UsedSince(u, edge) + InFlight(u) <= QuotaChecks + Max({overlap[u], 1}) - 1
    BY DEF LedgerInv, QuotaInv
  <2>2. edge \in Int /\ QuotaChecks \in Int
    BY AdmissionAssumption, TimesAreNat DEF LedgerInv, Typed, TypeOK
  <2>3. UsedSince(u, edge) \in Nat /\ InFlight(u) \in Nat
    BY <2>2, UsedTyped, RequestSetsAreFinite DEF LedgerInv
  <2>4. overlap[u] \in Int /\ 1 \in Int
    BY DEF LedgerInv, Typed, TypeOK
  <2>5. Max({overlap[u], 1}) \in Int
    BY <2>4, MaxOfTwo
  <2>6. /\ Cardinality(Checks(u, edge)) = UsedSince(u, edge) + Cardinality(Failed(u, edge))
        /\ Cardinality(Failed(u, edge)) \in Nat
    BY <2>2, QueuedAreCountedOrFailed
  <2> QED
    BY <2>1, <2>2, <2>3, <2>5, <2>6
<1> QED
  BY <1>1, InitLedgerInv, NextKeepsLedgerInv, PTL DEF Spec

-----------------------------------------------------------------------------
(* The limiter *)

\* A bucket counts what was let in edge its start, which is when one was; nothing was
\* after its window; and where a stretch of one window reaches back before the start, the
\* limit was not used up in the part before.
BucketFits(p, b) ==
  /\ Cardinality(From(p, b.start)) = b.count
  /\ \E i \in DOMAIN p : p[i] = b.start
  /\ \A i \in DOMAIN p : p[i] < b.start + RateWindow
  /\ \A t \in Int : t > b.start - RateWindow => Cardinality(Between(p, t, b.start)) <= RateLimit - 1

\* With no bucket, or one that is over, the limit was not used up in the last window.
Quiet(p, n) ==
  /\ \A i \in DOMAIN p : p[i] < n
  /\ \A t \in Int : t > n - RateWindow => Cardinality(From(p, t)) <= RateLimit - 1

AtMostTwice(p) == \A t \in Int : Cardinality(Between(p, t, t + RateWindow)) < 2 * RateLimit

WindowsInv ==
  RateLimit > 0 =>
    \A a \in Addresses :
      /\ IF a \in DOMAIN buckets THEN BucketFits(passes[a], buckets[a]) ELSE Quiet(passes[a], now)
      /\ AtMostTwice(passes[a])

LimiterInv == Typed /\ WindowsInv

Buckets == [start : Nat, count : Nat]

LEMMA TimesTyped ==
  ASSUME NEW p \in Seq(Time)
  PROVE  Len(p) \in Nat /\ DOMAIN p = 1..Len(p) /\ \A i \in DOMAIN p : p[i] \in Nat
<1>1. /\ Len(p) \in Nat /\ DOMAIN p = 1..Len(p)
      /\ \A i \in DOMAIN p : p[i] \in Time
  OBVIOUS
<1>2. \A i \in DOMAIN p : p[i] \in Nat
  BY <1>1, TimesAreNat
<1> QED
  BY <1>1, <1>2

LEMMA SinceIsFinite ==
  ASSUME NEW p \in Seq(Time), NEW t \in Int
  PROVE  /\ From(p, t) \in SUBSET DOMAIN p
         /\ IsFiniteSet(From(p, t)) /\ Cardinality(From(p, t)) \in Nat
         /\ \A e \in Int :
              /\ Between(p, t, e) \in SUBSET DOMAIN p
              /\ IsFiniteSet(Between(p, t, e)) /\ Cardinality(Between(p, t, e)) \in Nat
              /\ Cardinality(Between(p, t, e)) <= Cardinality(From(p, t))
<1>1. From(p, t) \in SUBSET DOMAIN p
  BY DEF From
<1>2. ASSUME NEW e \in Int
      PROVE  Between(p, t, e) \in SUBSET DOMAIN p /\ Between(p, t, e) \in SUBSET From(p, t)
  BY TimesTyped DEF From, Between
<1> QED
  BY <1>1, <1>2, IndicesAreFinite

LEMMA AppendFacts ==
  ASSUME NEW p \in Seq(Time), NEW n \in Time
  PROVE  /\ n \in Nat /\ RateLimit \in Nat /\ RateWindow \in Nat \ {0} /\ Append(p, n) \in Seq(Time)
         /\ Len(p) \in Nat /\ DOMAIN Append(p, n) = DOMAIN p \cup {Len(p) + 1}
         /\ Append(p, n)[Len(p) + 1] = n
         /\ \A i \in DOMAIN p : Append(p, n)[i] = p[i] /\ p[i] \in Nat
<1>1. /\ Append(p, n) \in Seq(Time) /\ DOMAIN Append(p, n) = DOMAIN p \cup {Len(p) + 1}
      /\ Append(p, n)[Len(p) + 1] = n
      /\ \A i \in DOMAIN p : Append(p, n)[i] = p[i]
  OBVIOUS
<1> QED
  BY <1>1, TimesTyped, TimesAreNat, AdmissionAssumption

\* Once its window is over, a bucket leaves the last window short of the limit: the one
\* let in at its start is not in it.
LEMMA OverIsQuiet ==
  ASSUME NEW p \in Seq(Time), NEW b \in Buckets, NEW n \in Nat, b.count <= RateLimit,
         BucketFits(p, b), n - b.start >= RateWindow
  PROVE  Quiet(p, n)
<1>1. n - b.start >= RateWindow /\ n \in Nat /\ b.start \in Nat /\ b.count \in Nat /\ RateWindow \in Nat
      /\ RateLimit \in Nat
  BY AdmissionAssumption DEF Buckets
<1>2. \A i \in DOMAIN p : p[i] \in Nat
  BY TimesTyped
<1>3. \A i \in DOMAIN p : p[i] < n
  BY <1>1, <1>2 DEF BucketFits
<1>4. ASSUME NEW t \in Int, t > n - RateWindow PROVE Cardinality(From(p, t)) <= RateLimit - 1
  <2>1. PICK i \in DOMAIN p : p[i] = b.start
    BY DEF BucketFits
  <2>2. From(p, t) \in SUBSET (From(p, b.start) \ {i}) /\ i \in From(p, b.start)
    BY <1>1, <1>2, <1>4, <2>1 DEF From
  <2>3. IsFiniteSet(From(p, b.start)) /\ Cardinality(From(p, b.start)) = b.count
    <3>1. b.start \in Int
      BY <1>1
    <3> QED
      BY <3>1, SinceIsFinite DEF BucketFits
  <2>4. /\ IsFiniteSet(From(p, b.start) \ {i})
        /\ Cardinality(From(p, b.start) \ {i}) = b.count - 1
    BY <2>2, <2>3, FS_RemoveElement
  <2>5. Cardinality(From(p, t)) <= b.count - 1 /\ Cardinality(From(p, t)) \in Nat
    <3>1. Cardinality(From(p, t)) <= Cardinality(From(p, b.start) \ {i})
      BY <2>2, <2>4, FS_Subset
    <3> QED
      BY <2>4, <3>1, SinceIsFinite
  <2> QED
    BY <1>1, <2>5
<1> QED
  BY <1>3, <1>4 DEF Quiet

\* A bucket begun after a quiet window.
LEMMA BeginFits ==
  ASSUME RateLimit > 0, NEW p \in Seq(Time), NEW n \in Time, Quiet(p, n), AtMostTwice(p)
  PROVE  BucketFits(Append(p, n), [start |-> n, count |-> 1]) /\ AtMostTwice(Append(p, n))
<1> DEFINE q == Append(p, n)
<1>1. /\ n \in Nat /\ RateLimit \in Nat /\ RateWindow \in Nat \ {0} /\ q \in Seq(Time)
      /\ Len(p) \in Nat /\ DOMAIN q = DOMAIN p \cup {Len(p) + 1} /\ q[Len(p) + 1] = n
      /\ \A i \in DOMAIN p : q[i] = p[i] /\ p[i] \in Nat
  BY AppendFacts
<1>2. Cardinality(From(q, n)) = 1
  <2>1. From(p, n) = {}
    BY <1>1 DEF From, Quiet
  <2>2. n \in Int /\ Cardinality(From(p, n)) = 0
    BY <1>1, <2>1, FS_EmptySet
  <2>3. Cardinality(From(q, n)) = Cardinality(From(p, n)) + (IF n >= n THEN 1 ELSE 0)
    BY <2>2, AppendCounts
  <2> QED
    BY <2>2, <2>3
<1>3. \E i \in DOMAIN q : q[i] = n
  BY <1>1
<1>4. \A i \in DOMAIN q : q[i] < n + RateWindow
  BY <1>1 DEF Quiet
<1>5. ASSUME NEW t \in Int, t > n - RateWindow
      PROVE  \A e \in Int : Cardinality(Between(p, t, e)) \in Nat /\ Cardinality(Between(p, t, e)) <= RateLimit - 1
  <2>1. Cardinality(From(p, t)) <= RateLimit - 1 /\ Cardinality(From(p, t)) \in Nat
    BY <1>5, SinceIsFinite DEF Quiet
  <2>2. ASSUME NEW e \in Int
        PROVE  Cardinality(Between(p, t, e)) \in Nat /\ Cardinality(Between(p, t, e)) <= RateLimit - 1
    <3>1. Cardinality(Between(p, t, e)) \in Nat
          /\ Cardinality(Between(p, t, e)) <= Cardinality(From(p, t))
      BY SinceIsFinite
    <3> QED
      BY <1>1, <2>1, <3>1
  <2> QED
    BY <2>2
<1>6. ASSUME NEW t \in Int, t > n - RateWindow PROVE Cardinality(Between(q, t, n)) <= RateLimit - 1
  BY <1>1, <1>5, <1>6, AppendCounts
<1>7. BucketFits(q, [start |-> n, count |-> 1])
  BY <1>2, <1>3, <1>4, <1>6 DEF BucketFits
<1>8. ASSUME NEW t \in Int PROVE Cardinality(Between(q, t, t + RateWindow)) < 2 * RateLimit
  <2>1. t + RateWindow \in Int /\ Cardinality(Between(p, t, t + RateWindow)) < 2 * RateLimit
    BY <1>1 DEF AtMostTwice
  <2>2. Cardinality(Between(q, t, t + RateWindow)) = Cardinality(Between(p, t, t + RateWindow))
          + (IF t <= n /\ n < t + RateWindow THEN 1 ELSE 0)
    BY <1>1, <2>1, AppendCounts
  <2>3. CASE t <= n /\ n < t + RateWindow
    <3>1. Cardinality(Between(p, t, t + RateWindow)) <= RateLimit - 1
          /\ Cardinality(Between(p, t, t + RateWindow)) \in Nat
      BY <1>1, <1>5, <2>1, <2>3
    <3> QED
      BY <1>1, <2>2, <2>3, <3>1
  <2>4. Cardinality(Between(p, t, t + RateWindow)) \in Int
    BY <2>1, SinceIsFinite
  <2> QED
    BY <2>1, <2>2, <2>3, <2>4
<1> QED
  BY <1>7, <1>8 DEF AtMostTwice

\* One more in a window that has room.
LEMMA CountFits ==
  ASSUME NEW p \in Seq(Time), NEW n \in Time, NEW b \in Buckets, BucketFits(p, b), AtMostTwice(p),
         b.start <= n, n < b.start + RateWindow, b.count < RateLimit
  PROVE  BucketFits(Append(p, n), [b EXCEPT !.count = @ + 1]) /\ AtMostTwice(Append(p, n))
<1> DEFINE q == Append(p, n)
           c == [b EXCEPT !.count = @ + 1]
<1>1. /\ n \in Nat /\ RateLimit \in Nat /\ RateWindow \in Nat \ {0} /\ q \in Seq(Time)
      /\ Len(p) \in Nat /\ DOMAIN q = DOMAIN p \cup {Len(p) + 1} /\ q[Len(p) + 1] = n
      /\ \A i \in DOMAIN p : q[i] = p[i] /\ p[i] \in Nat
  BY AppendFacts
<1>2. b.start \in Nat /\ b.count \in Nat /\ c.start = b.start /\ c.count = b.count + 1
  BY DEF Buckets
<1>3. Cardinality(From(q, b.start)) = b.count + 1
  BY <1>1, <1>2, AppendCounts DEF BucketFits
<1>4. \E i \in DOMAIN q : q[i] = b.start
  BY <1>1 DEF BucketFits
<1>5. \A i \in DOMAIN q : q[i] < b.start + RateWindow
  BY <1>1 DEF BucketFits
<1>6. ASSUME NEW t \in Int, t > b.start - RateWindow
      PROVE  Cardinality(Between(q, t, b.start)) <= RateLimit - 1
  <2>1. b.start \in Int /\ ~(t <= n /\ n < b.start)
    BY <1>1, <1>2
  <2>2. Cardinality(Between(q, t, b.start)) = Cardinality(Between(p, t, b.start)) + 0
    BY <2>1, AppendCounts
  <2>3. Cardinality(Between(p, t, b.start)) \in Nat
    BY <2>1, SinceIsFinite
  <2> QED
    BY <1>6, <2>2, <2>3 DEF BucketFits
<1>7. BucketFits(q, c)
  BY <1>2, <1>3, <1>4, <1>5, <1>6 DEF BucketFits
<1>8. ASSUME NEW t \in Int PROVE Cardinality(Between(q, t, t + RateWindow)) < 2 * RateLimit
  <2> DEFINE B == Between(p, t, t + RateWindow)
             L == Between(p, t, b.start)
             F == From(p, b.start)
  <2>1. t + RateWindow \in Int /\ Cardinality(B) < 2 * RateLimit
    BY <1>1 DEF AtMostTwice
  <2>2. /\ Cardinality(Between(q, t, t + RateWindow)) = Cardinality(B)
             + (IF t <= n /\ n < t + RateWindow THEN 1 ELSE 0)
        /\ Cardinality(B) \in Nat
    <3>1. Cardinality(B) \in Nat
      BY <2>1, SinceIsFinite
    <3> QED
      BY <2>1, <3>1, AppendCounts
  <2>3. CASE t <= n /\ n < t + RateWindow
    <3>1. /\ IsFiniteSet(L) /\ Cardinality(L) \in Nat /\ IsFiniteSet(F) /\ Cardinality(F) \in Nat
          /\ L \in SUBSET DOMAIN p /\ F \in SUBSET DOMAIN p
      <4>1. b.start \in Int
        BY <1>2
      <4> QED
        BY <4>1, SinceIsFinite
    <3>2. Cardinality(F) = b.count
      BY DEF BucketFits
    <3>3. CASE t >= b.start
      <4>1. B \in SUBSET F
        BY <1>1, <1>2, <3>3 DEF Between, From
      <4>2. Cardinality(B) <= b.count
        BY <3>1, <3>2, <4>1, FS_Subset
      <4> QED
        BY <1>1, <1>2, <2>2, <2>3, <4>2
    <3>4. CASE t < b.start
      <4>1. B \in SUBSET (L \cup F) /\ L \cap F = {}
        BY <1>1, <1>2, <3>4 DEF Between, From
      <4>2. IsFiniteSet(L \cup F) /\ Cardinality(L \cup F) = Cardinality(L) + Cardinality(F)
        <5>1. Cardinality(L \cap F) = 0
          BY <4>1, FS_EmptySet
        <5> HIDE DEF L, F
        <5>2. IsFiniteSet(L \cup F)
              /\ Cardinality(L \cup F) = Cardinality(L) + Cardinality(F) - Cardinality(L \cap F)
          BY <3>1, FS_Union
        <5> QED
          BY <3>1, <5>1, <5>2
      <4>3. Cardinality(B) <= Cardinality(L) + Cardinality(F)
        BY <4>1, <4>2, FS_Subset
      <4>4. Cardinality(L) <= RateLimit - 1
        <5>1. t > b.start - RateWindow
          BY <1>1, <1>2, <2>3
        <5> QED
          BY <5>1 DEF BucketFits
      <4> HIDE DEF B, L, F
      <4> QED
        BY <1>1, <1>2, <2>2, <2>3, <3>1, <3>2, <4>3, <4>4
    <3> QED
      BY <1>2, <3>3, <3>4
  <2> QED
    BY <2>1, <2>2, <2>3
<1> QED
  BY <1>7, <1>8 DEF AtMostTwice

\* What the sweep leaves out is over.
LEMMA SweptOrQuiet ==
  ASSUME LimiterInv, RateLimit > 0, NEW a \in Addresses
  PROVE  /\ IF a \in DOMAIN Swept
            THEN a \in DOMAIN buckets /\ Swept[a] = buckets[a] /\ BucketFits(passes[a], Swept[a])
            ELSE Quiet(passes[a], now)
         /\ Begins(a) => Quiet(passes[a], now)
<1>1. passes[a] \in Seq(Time) /\ now \in Nat /\ RateWindow \in Nat
  BY AdmissionAssumption, TimesAreNat DEF LimiterInv, Typed, TypeOK
<1>2. ASSUME a \in DOMAIN buckets, Over(buckets[a]) PROVE Quiet(passes[a], now)
  <2>1. buckets[a] \in Buckets /\ buckets[a].count <= RateLimit /\ BucketFits(passes[a], buckets[a])
    BY <1>2, AdmissionAssumption DEF LimiterInv, WindowsInv, Typed, TypeOK, BucketsTyped, Buckets
  <2> QED
    BY <1>1, <1>2, <2>1, OverIsQuiet DEF Over
<1>3. CASE Cardinality(DOMAIN buckets) < SweepAt
  BY <1>2, <1>3 DEF Swept, Begins, LimiterInv, WindowsInv
<1>4. CASE ~(Cardinality(DOMAIN buckets) < SweepAt)
  BY <1>2, <1>4 DEF Swept, Begins, Restrict, LimiterInv, WindowsInv
<1> QED
  BY <1>3, <1>4

\* A step of the limiter on one address.
LEMMA GateKeepsLimiterInv ==
  ASSUME LimiterInv, Typed', NEW r \in Requests, NEW a \in Addresses, GateAnonymous(r, a)
  PROVE  LimiterInv'
<1> SUFFICES ASSUME RateLimit > 0, NEW b \in Addresses
             PROVE  /\ IF b \in DOMAIN buckets' THEN BucketFits(passes'[b], buckets'[b])
                       ELSE Quiet(passes'[b], now')
                    /\ AtMostTwice(passes'[b])
  BY DEF LimiterInv, WindowsInv
<1>1. /\ now' = now /\ now \in Time /\ passes[b] \in Seq(Time) /\ AtMostTwice(passes[b])
      /\ RateLimit # 0
  BY DEF GateAnonymous, LimiterInv, WindowsInv, Typed, TypeOK
<1>2. CASE TurnedAway(a) /\ UNCHANGED passes
  BY <1>1, <1>2, SweptOrQuiet DEF TurnedAway
<1>3. CASE LetIn(a) /\ passes' = [passes EXCEPT ![a] = Append(@, now)]
  <2>1. passes'[b] = IF b = a THEN Append(passes[b], now) ELSE passes[b]
    BY <1>3 DEF LimiterInv, Typed, TypeOK
  <2>2. CASE /\ Begins(a)
             /\ buckets' = [c \in DOMAIN Swept \cup {a} |->
                              IF c = a THEN [start |-> now, count |-> 1] ELSE Swept[c]]
    <3>1. CASE b = a
      <4>1. Quiet(passes[b], now)
        BY <2>2, <3>1, SweptOrQuiet
      <4>2. b \in DOMAIN buckets' /\ buckets'[b] = [start |-> now, count |-> 1]
        BY <2>2, <3>1
      <4> QED
        BY <1>1, <2>1, <3>1, <4>1, <4>2, BeginFits
    <3>2. CASE b # a
      <4>1. /\ b \in DOMAIN buckets' <=> b \in DOMAIN Swept
            /\ b \in DOMAIN Swept => buckets'[b] = Swept[b]
        BY <2>2, <3>2
      <4> QED
        BY <1>1, <2>1, <3>2, <4>1, SweptOrQuiet
    <3> QED
      BY <3>1, <3>2
  <2>3. CASE ~Begins(a) /\ HasRoom(a) /\ buckets' = [Swept EXCEPT ![a].count = @ + 1]
    <3>1. DOMAIN buckets' = DOMAIN Swept
      BY <2>3
    <3>2. CASE b = a
      <4>1. /\ b \in DOMAIN Swept /\ ~Over(Swept[b]) /\ Swept[b] = buckets[b] /\ b \in DOMAIN buckets
            /\ BucketFits(passes[b], buckets[b])
        BY <2>3, <3>2, SweptOrQuiet DEF Begins
      <4>2. /\ buckets[b] \in Buckets /\ buckets[b].start <= now /\ buckets[b].start \in Nat
            /\ now \in Nat /\ RateWindow \in Nat
        BY <4>1, AdmissionAssumption, TimesAreNat DEF LimiterInv, Typed, TypeOK, BucketsTyped, Buckets
      <4>3. now < buckets[b].start + RateWindow
        BY <4>1, <4>2 DEF Over
      <4>4. buckets'[b] = [buckets[b] EXCEPT !.count = @ + 1]
        BY <2>3, <3>2, <4>1
      <4>5. buckets[b].count < RateLimit
        BY <2>3, <3>2, <4>1 DEF HasRoom
      <4> QED
        BY <1>1, <2>1, <3>1, <3>2, <4>1, <4>2, <4>3, <4>4, <4>5, CountFits
    <3>3. CASE b # a
      <4>1. b \in DOMAIN Swept => buckets'[b] = Swept[b]
        BY <2>3, <3>3
      <4> QED
        BY <1>1, <2>1, <3>1, <3>3, <4>1, SweptOrQuiet
    <3> QED
      BY <3>2, <3>3
  <2> QED
    BY <1>1, <1>3, <2>2, <2>3 DEF LetIn
<1> QED
  BY <1>2, <1>3 DEF GateAnonymous

LEMMA NextKeepsLimiterInv == LimiterInv /\ [Next]_vars => LimiterInv'
<1> SUFFICES ASSUME LimiterInv, [Next]_vars PROVE LimiterInv'
  OBVIOUS
<1>1. Typed' /\ now \in Nat
  BY NextKeepsTyped, TimesAreNat DEF LimiterInv, Typed, TypeOK
<1>2. ASSUME NEW r \in Requests, NEW a \in Addresses, GateAnonymous(r, a) PROVE LimiterInv'
  BY <1>1, <1>2, GateKeepsLimiterInv
<1>3. ASSUME UNCHANGED <<now, buckets, passes>> PROVE LimiterInv'
  BY <1>1, <1>3 DEF LimiterInv, WindowsInv
<1>4. ASSUME NEW r \in Requests,
             \/ \E u \in Users : GateSignedIn(r, u)
             \/ Reject(r) \/ NothingToCompare(r) \/ Accept(r) \/ Busy(r) \/ Finish(r) \/ Forget(r)
      PROVE  LimiterInv'
  BY <1>3, <1>4 DEF GateSignedIn, Reject, NothingToCompare, Accept, Busy, Finish, Forget
<1>5. CASE UNCHANGED vars
  BY <1>3, <1>5 DEF vars
<1>6. CASE Tick
  <2> SUFFICES ASSUME RateLimit > 0, NEW a \in Addresses \ DOMAIN buckets
               PROVE  Quiet(passes[a], now + 1)
    BY <1>1, <1>6 DEF LimiterInv, WindowsInv, Tick
  <2>1. Quiet(passes[a], now) /\ passes[a] \in Seq(Time) /\ RateWindow \in Nat
    BY AdmissionAssumption DEF LimiterInv, WindowsInv, Typed, TypeOK
  <2>2. \A i \in DOMAIN passes[a] : passes[a][i] \in Nat
    BY <2>1, TimesTyped
  <2> QED
    BY <1>1, <2>1, <2>2 DEF Quiet
<1> QED
  BY <1>2, <1>4, <1>5, <1>6 DEF Next, Handler

LEMMA InitLimiterInv == Init => LimiterInv
<1> SUFFICES ASSUME Init, RateLimit > 0, NEW a \in Addresses
             PROVE  Quiet(passes[a], now) /\ AtMostTwice(passes[a])
  BY InitTyped DEF LimiterInv, WindowsInv, Init
<1>1. passes[a] = <<>> /\ RateLimit \in Nat
  BY AdmissionAssumption DEF Init
<1>2. \A t \in Int : From(passes[a], t) = {} /\ \A e \in Int : Between(passes[a], t, e) = {}
  BY <1>1 DEF From, Between
<1>3. RateWindow \in Int
  BY AdmissionAssumption
<1>4. Quiet(passes[a], now)
  <2>1. \A i \in DOMAIN passes[a] : passes[a][i] < now
    BY <1>1
  <2>2. \A t \in Int : Cardinality(From(passes[a], t)) = 0
    BY <1>2, FS_EmptySet
  <2> QED
    BY <1>1, <2>1, <2>2 DEF Quiet
<1>5. \A t \in Int : Cardinality(Between(passes[a], t, t + RateWindow)) = 0
  BY <1>2, <1>3, FS_EmptySet
<1> QED
  BY <1>1, <1>4, <1>5 DEF AtMostTwice

\* In any stretch as long as a window a client is let in fewer than twice as often as
\* the limit, for any limit, window and sweep (limits.py:64-91).
THEOREM WindowsHoldFewerThanTwice == Spec => []FewerThanTwice
<1>1. LimiterInv => FewerThanTwice
  <2> SUFFICES ASSUME LimiterInv, RateLimit > 0, NEW a \in Addresses, NEW t \in Time
               PROVE  Cardinality(Between(passes[a], t, t + RateWindow)) < 2 * RateLimit
    BY DEF FewerThanTwice, Between
  <2> QED
    BY TimesAreNat DEF LimiterInv, WindowsInv, AtMostTwice
<1> QED
  BY <1>1, InitLimiterInv, NextKeepsLimiterInv, PTL DEF Spec

\* A step of the limiter that reaches the sweep keeps only buckets of clients it has let
\* in during the last window.
LEMMA StepKeepsRecent ==
  ASSUME LimiterInv, Typed', NEW r \in Requests, NEW a \in Addresses, GateAnonymous(r, a),
         buckets' # buckets
  PROVE  Cardinality(DOMAIN buckets') <=
           Max({SweepAt, Cardinality({c \in Addresses :
                           \E i \in DOMAIN passes'[c] : passes'[c][i] > now - RateWindow})})
<1> DEFINE R == {c \in Addresses : \E i \in DOMAIN passes'[c] : passes'[c][i] > now - RateWindow}
<1> SUFFICES Cardinality(DOMAIN buckets') <= Max({SweepAt, Cardinality(R)})
  OBVIOUS
<1>1. /\ RateLimit > 0 /\ RateLimit # 0 /\ now \in Time /\ now \in Nat /\ RateWindow \in Nat \ {0}
      /\ SweepAt \in Nat
  BY AdmissionAssumption, TimesAreNat
     DEF GateAnonymous, LetIn, TurnedAway, LimiterInv, Typed, TypeOK
<1>2. IsFiniteSet(R) /\ Cardinality(R) \in Nat
  <2>1. R \in SUBSET Addresses
    OBVIOUS
  <2> QED
    BY <2>1, FS_Subset, FS_CardinalityType, AdmissionAssumption
<1>3. IsFiniteSet(DOMAIN buckets) /\ Cardinality(DOMAIN buckets) \in Nat
  <2>1. DOMAIN buckets \in SUBSET Addresses
    BY DEF LimiterInv, Typed, TypeOK
  <2> QED
    BY <2>1, FS_Subset, FS_CardinalityType, AdmissionAssumption
<1>4. \/ /\ TurnedAway(a) /\ UNCHANGED passes /\ DOMAIN buckets' = DOMAIN Swept /\ a \in DOMAIN Swept
      \/ /\ passes' = [passes EXCEPT ![a] = Append(@, now)]
         /\ DOMAIN buckets' = DOMAIN Swept \cup {a}
  <2>1. CASE TurnedAway(a) /\ UNCHANGED passes
    BY <2>1 DEF TurnedAway, Begins
  <2>2. CASE LetIn(a) /\ passes' = [passes EXCEPT ![a] = Append(@, now)]
    BY <1>1, <2>2 DEF LetIn, Begins
  <2> QED
    BY <2>1, <2>2 DEF GateAnonymous
<1>5. Max({SweepAt, Cardinality(R)}) >= SweepAt /\ Max({SweepAt, Cardinality(R)}) >= Cardinality(R)
      /\ Max({SweepAt, Cardinality(R)}) \in Int
  <2>1. SweepAt \in Int /\ Cardinality(R) \in Int
    BY <1>1, <1>2
  <2> QED
    BY <2>1, MaxOfTwo
<1>6. CASE Cardinality(DOMAIN buckets) < SweepAt
  <2>1. DOMAIN buckets' \in SUBSET (DOMAIN buckets \cup {a})
    BY <1>4, <1>6 DEF Swept
  <2>2. IsFiniteSet(DOMAIN buckets \cup {a}) /\ Cardinality(DOMAIN buckets \cup {a}) \in Nat
        /\ Cardinality(DOMAIN buckets \cup {a}) <= Cardinality(DOMAIN buckets) + 1
    <3>1. /\ IsFiniteSet(DOMAIN buckets \cup {a})
          /\ Cardinality(DOMAIN buckets \cup {a}) =
               IF a \in DOMAIN buckets THEN Cardinality(DOMAIN buckets) ELSE Cardinality(DOMAIN buckets) + 1
      BY <1>3, FS_AddElement
    <3> QED
      BY <1>3, <3>1
  <2>3. /\ Cardinality(DOMAIN buckets') <= Cardinality(DOMAIN buckets \cup {a})
        /\ Cardinality(DOMAIN buckets') \in Nat
    BY <2>1, <2>2, FS_Subset, FS_CardinalityType
  <2> HIDE DEF R
  <2> QED
    BY <1>1, <1>3, <1>5, <1>6, <2>2, <2>3
<1>7. CASE ~(Cardinality(DOMAIN buckets) < SweepAt)
  <2>1. \A c \in DOMAIN Swept : c \in Addresses /\ ~Over(Swept[c]) /\ Swept[c] = buckets[c]
                                /\ c \in DOMAIN buckets
    BY <1>7 DEF Swept, Restrict, LimiterInv, Typed, TypeOK
  <2>2. ASSUME NEW c \in DOMAIN Swept
        PROVE  \E i \in DOMAIN passes[c] : passes[c][i] > now - RateWindow
    <3>1. BucketFits(passes[c], buckets[c]) /\ ~Over(buckets[c]) /\ buckets[c].start \in Nat
      BY <1>1, <2>1, <2>2 DEF LimiterInv, WindowsInv, Typed, TypeOK, BucketsTyped
    <3>2. buckets[c].start > now - RateWindow
      BY <1>1, <3>1 DEF Over
    <3> QED
      BY <3>1, <3>2 DEF BucketFits
  <2>3. \A c \in DOMAIN Swept : c # a => c \in R
    BY <1>4, <2>1, <2>2 DEF LimiterInv, Typed, TypeOK
  <2>4. a \in R
    <3>1. CASE a \in DOMAIN Swept /\ UNCHANGED passes
      BY <2>2, <3>1
    <3>2. CASE passes' = [passes EXCEPT ![a] = Append(@, now)]
      <4>1. passes'[a] = Append(passes[a], now) /\ passes[a] \in Seq(Time)
        BY <3>2 DEF LimiterInv, Typed, TypeOK
      <4>2. \E i \in DOMAIN passes'[a] : passes'[a][i] = now
        BY <1>1, <4>1, AppendFacts
      <4> QED
        BY <1>1, <4>2
    <3> QED
      BY <1>4, <3>1, <3>2
  <2>5. DOMAIN buckets' \in SUBSET R
    BY <1>4, <2>3, <2>4
  <2>6. Cardinality(DOMAIN buckets') <= Cardinality(R) /\ Cardinality(DOMAIN buckets') \in Nat
    BY <1>2, <2>5, FS_Subset, FS_CardinalityType
  <2> HIDE DEF R
  <2> QED
    BY <1>2, <1>5, <2>6
<1> QED
  BY <1>6, <1>7

\* Once there are SweepAt buckets, memory is bounded by the clients let in during one
\* window (limits.py:10-11, 49-62).
THEOREM BucketsStayRecent == Spec => BucketsAreRecent
<1>1. LimiterInv /\ [Next]_vars =>
        [buckets' # buckets =>
           Cardinality(DOMAIN buckets') <=
             Max({SweepAt, Cardinality({a \in Addresses :
                             \E i \in DOMAIN passes'[a] : passes'[a][i] > now - RateWindow})})]_vars
  <2> SUFFICES ASSUME LimiterInv, Next, buckets' # buckets
               PROVE  Cardinality(DOMAIN buckets') <=
                        Max({SweepAt, Cardinality({a \in Addresses :
                               \E i \in DOMAIN passes'[a] : passes'[a][i] > now - RateWindow})})
    OBVIOUS
  <2>1. \E r \in Requests, a \in Addresses : GateAnonymous(r, a)
    BY DEF Next, Handler, Tick, GateSignedIn, Reject, NothingToCompare, Accept, Busy, Finish, Forget
  <2>2. Typed'
    BY NextKeepsTyped DEF LimiterInv
  <2> QED
    BY <2>1, <2>2, StepKeepsRecent
<1> QED
  BY <1>1, InitLimiterInv, NextKeepsLimiterInv, PTL DEF Spec, BucketsAreRecent

-----------------------------------------------------------------------------
(* Who a request is from: SigningKeys, for any number of handlers, keys and *)
(* tokens and any TTL.                                                       *)

\* Every step keeps the types.
LEMMA KeyTypesStep == KeysTypeOK /\ [KeysNext]_keysVars => KeysTypeOK'
<1> SUFFICES ASSUME KeysTypeOK, [KeysNext]_keysVars PROVE KeysTypeOK'
  OBVIOUS
<1> USE KeysAssumption DEF KeysTypeOK
<1>1. ASSUME NEW r \in Handlers, NEW t \in Tokens, Ask(r, t) PROVE KeysTypeOK'
  BY <1>1 DEF Ask, Ends
<1>2. ASSUME NEW r \in Handlers, LookUp(r) PROVE KeysTypeOK'
  BY <1>2 DEF LookUp, Settle, Ends
<1>3. ASSUME NEW r \in Handlers, Fetched(r) PROVE KeysTypeOK'
  BY <1>3 DEF Fetched, Settle, Ends
<1>4. ASSUME NEW r \in Handlers, FetchFails(r) PROVE KeysTypeOK'
  BY <1>4 DEF FetchFails, Ends
<1>5. ASSUME NEW ks \in SUBSET Keys, Publishes(ks) PROVE KeysTypeOK'
  BY <1>5 DEF Publishes
<1>6. CASE KeysTick
  BY <1>6 DEF KeysTick, Older
<1>7. CASE UNCHANGED keysVars
  BY <1>7 DEF keysVars
<1> QED
  BY <1>1, <1>2, <1>3, <1>4, <1>5, <1>6, <1>7 DEF KeysNext, Verify

\* The verifier's variables have their types.
THEOREM KeyTypes == KeysSpec => []KeysTypeOK
<1>1. KeysInit => KeysTypeOK
  BY KeysAssumption DEF KeysInit, KeysTypeOK
<1> QED
  BY <1>1, KeyTypesStep, PTL DEF KeysSpec

-----------------------------------------------------------------------------
(* Withdrawn keys                                                            *)

\* A cached key was published when the set was fetched or since.
CacheIsDated == (\A k \in keys : since[k] <= age) /\ (\A k \in published : since[k] = 0)

\* Time passes for both alike.
LEMMA OlderIsMonotone ==
  ASSUME NEW m \in 0 .. TTL + 1, NEW n \in 0 .. TTL + 1, m <= n PROVE Older(m) <= Older(n)
  BY KeysAssumption DEF Older

LEMMA DatedStep == KeysTypeOK /\ CacheIsDated /\ [KeysNext]_keysVars => CacheIsDated'
<1> SUFFICES ASSUME KeysTypeOK, CacheIsDated, [KeysNext]_keysVars PROVE CacheIsDated'
  OBVIOUS
<1>1. CASE UNCHANGED <<published, since, keys, age>>
  BY <1>1 DEF CacheIsDated
<1>2. ASSUME NEW r \in Handlers, Fetched(r) PROVE CacheIsDated'
  BY <1>2 DEF Fetched, CacheIsDated
<1>3. ASSUME NEW ks \in SUBSET Keys, Publishes(ks) PROVE CacheIsDated'
  BY <1>3 DEF Publishes, CacheIsDated, KeysTypeOK
<1>4. CASE KeysTick
  <2>1. ASSUME NEW k \in keys PROVE since'[k] <= age'
    <3>1. k \in Keys /\ since[k] \in 0 .. TTL + 1 /\ age \in 0 .. TTL + 1 /\ since[k] <= age
      BY DEF KeysTypeOK, CacheIsDated
    <3>2. Older(since[k]) <= Older(age) /\ 0 <= Older(age)
      BY <3>1, OlderIsMonotone, KeysAssumption DEF Older
    <3> QED
      BY <1>4, <3>1, <3>2 DEF KeysTick
  <2>2. \A k \in published' : since'[k] = 0
    BY <1>4 DEF KeysTick, KeysTypeOK
  <2> QED
    BY <1>4, <2>1, <2>2 DEF CacheIsDated, KeysTick
<1> QED
  BY <1>1, <1>2, <1>3, <1>4 DEF KeysNext, Ask, Verify, LookUp, FetchFails, keysVars

\* What decides is a key of the set that was looked at.
LEMMA KeyIsOfTheSet ==
  ASSUME NEW t, NEW ks, NEW k, KeyFor(t, ks) = {k} PROVE k \in ks
<1>1. KeyFor(t, ks) \subseteq ks
  BY DEF KeyFor
<1> QED
  BY <1>1

\* What a step that ends a verification has shown of the key.
LEMMA AcceptedKeyIsCurrent ==
  ASSUME KeysTypeOK, CacheIsDated, [KeysNext]_keysVars, NEW r \in Handlers,
         at[r] # "done", at'[r] = "done", token'[r] # NoToken, token'[r].alg = "signed", principal'[r] # "rejected"
  PROVE  since[token'[r].by] <= TTL
<1>1. ASSUME NEW q \in Handlers, NEW t \in Tokens, Ask(q, t) PROVE FALSE
  <2>1. q = r /\ token'[r] = t
    BY <1>1 DEF Ask, Ends, KeysTypeOK
  <2> QED
    BY <1>1, <2>1 DEF Ask, Ends, Verdict, KeysTypeOK
<1>2. ASSUME NEW q \in Handlers, LookUp(q) PROVE since[token'[r].by] <= TTL
  <2>1. q = r /\ token' = token
    BY <1>2 DEF LookUp, Settle, Ends, KeysTypeOK
  <2>2. age <= TTL /\ Settle(r, keys)
    BY <1>2, <2>1, KeysAssumption DEF LookUp, Stale, KeysTypeOK
  <2>3. KeyFor(token[r], keys) = {token[r].by}
    BY <2>2 DEF Settle, Ends, Verdict, KeysTypeOK
  <2>4. token[r].by \in keys
    BY <2>3, KeyIsOfTheSet
  <2> QED
    BY <2>1, <2>2, <2>4, KeysAssumption DEF CacheIsDated, KeysTypeOK
<1>3. ASSUME NEW q \in Handlers, Fetched(q) PROVE since[token'[r].by] <= TTL
  <2>1. q = r /\ token' = token /\ Settle(r, published)
    BY <1>3 DEF Fetched, Settle, Ends, KeysTypeOK
  <2>2. KeyFor(token[r], published) = {token[r].by}
    BY <2>1 DEF Settle, Ends, Verdict, KeysTypeOK
  <2>3. token[r].by \in published
    BY <2>2, KeyIsOfTheSet
  <2> QED
    BY <2>1, <2>3, KeysAssumption DEF CacheIsDated
<1>4. ASSUME NEW q \in Handlers, FetchFails(q) PROVE FALSE
  BY <1>4 DEF FetchFails, Ends, KeysTypeOK
<1>5. CASE UNCHANGED <<at, token, principal>>
  BY <1>5
<1> QED
  BY <1>1, <1>2, <1>3, <1>4, <1>5 DEF KeysNext, Verify, Publishes, KeysTick, keysVars

\* A key the provider has withdrawn is good for no longer than the TTL.
THEOREM WithdrawnKeysExpire == KeysSpec => KeysAreCurrent
<1>1. KeysInit => CacheIsDated
  BY DEF KeysInit, CacheIsDated
<1>2. KeysTypeOK /\ CacheIsDated /\ [KeysNext]_keysVars =>
        [\A r \in Handlers :
           at[r] # "done" /\ at'[r] = "done" /\ token'[r] # NoToken /\ token'[r].alg = "signed"
           /\ principal'[r] # "rejected" => since[token'[r].by] <= TTL]_keysVars
  BY AcceptedKeyIsCurrent
<1> QED
  BY <1>1, <1>2, KeyTypes, DatedStep, PTL DEF KeysSpec, KeysAreCurrent

-----------------------------------------------------------------------------
(* Rejections                                                                *)

\* The provider publishes the key of a verification that has no cause to be rejected.
UnderWay == {"lock", "fetch", "again", "refetch"}
StillPublished ==
  \A r \in Handlers : at[r] \in UnderWay =>
    token[r] # NoToken /\ (cause[r] \/ token[r].by \in published)

LEMMA StillPublishedStep == KeysTypeOK /\ StillPublished /\ [KeysNext]_keysVars => StillPublished'
<1> SUFFICES ASSUME KeysTypeOK, StillPublished, [KeysNext]_keysVars, NEW r \in Handlers, at'[r] \in UnderWay
             PROVE  token'[r] # NoToken /\ (cause'[r] \/ token'[r].by \in published')
  BY DEF StillPublished
<1> USE DEF KeysTypeOK, StillPublished, UnderWay
<1>1. ASSUME NEW q \in Handlers, NEW t \in Tokens, Ask(q, t)
      PROVE  token'[r] # NoToken /\ (cause'[r] \/ token'[r].by \in published')
  BY <1>1 DEF Ask, Ends
<1>2. ASSUME NEW q \in Handlers, LookUp(q) \/ Fetched(q)
      PROVE  token'[r] # NoToken /\ (cause'[r] \/ token'[r].by \in published')
  BY <1>2 DEF LookUp, Fetched, Settle, Ends
<1>3. ASSUME NEW q \in Handlers, FetchFails(q)
      PROVE  token'[r] # NoToken /\ (cause'[r] \/ token'[r].by \in published')
  BY <1>3 DEF FetchFails, Ends
<1>4. ASSUME NEW ks \in SUBSET Keys, Publishes(ks)
      PROVE  token'[r] # NoToken /\ (cause'[r] \/ token'[r].by \in published')
  BY <1>4 DEF Publishes
<1>5. CASE UNCHANGED <<at, token, cause, published>>
  BY <1>5
<1> QED
  BY <1>1, <1>2, <1>3, <1>4, <1>5 DEF KeysNext, Verify, KeysTick, keysVars

\* The answer of a request to its token, of which nothing else is asked.
Justified(r) ==
  /\ principal[r] \in {token[r].user, "rejected"}
  /\ principal[r] = "rejected" /\ Jwks /\ token[r].alg = "signed" /\ token[r].good /\ token[r].kid = token[r].by
       => cause[r]

\* A good token whose key is in the set that is looked at is accepted.
LEMMA NamedKeyIsFound ==
  ASSUME NEW t, NEW ks, t.kid \in ks PROVE KeyFor(t, ks) = {t.kid}
  BY DEF KeyFor
\* One that names a published key is not taken for one without a name.
LEMMA NamedKeyOrNone ==
  ASSUME NEW t, NEW ks, t.kid \in Keys, t.kid \notin ks PROVE KeyFor(t, ks) = {}
  BY KeysAssumption DEF KeyFor

LEMMA JustifiedStep == KeysTypeOK /\ StillPublished /\ AnswersForCause /\ [KeysNext]_keysVars => AnswersForCause'
<1> SUFFICES ASSUME KeysTypeOK, StillPublished, AnswersForCause, [KeysNext]_keysVars,
                    NEW r \in Handlers, at'[r] = "done", token'[r] # NoToken
             PROVE  Justified(r)'
  BY DEF AnswersForCause, Justified
<1>1. ASSUME at[r] = "done", principal'[r] = principal[r], token'[r] = token[r], cause[r] => cause'[r]
      PROVE  Justified(r)'
  BY <1>1 DEF AnswersForCause, Justified
<1>2. ASSUME NEW q \in Handlers, NEW t \in Tokens, Ask(q, t) PROVE Justified(r)'
  <2>1. CASE q = r
    <3>1. token'[r] = t /\ t # NoToken /\ ~(Configured /\ t.alg = "signed" /\ Jwks)
      BY <1>2, <2>1 DEF Ask, KeysTypeOK
    <3>2. principal'[r] = Verdict(t, t.alg = "HS256" /\ SharedSecret /\ t.good)
      BY <1>2, <2>1, <3>1 DEF Ask, Ends, KeysTypeOK
    <3>3. ~(Jwks /\ t.alg = "signed")
      BY <3>1 DEF Configured
    <3> QED
      BY <3>1, <3>2, <3>3 DEF Justified, Verdict
  <2>2. CASE q # r
    BY <1>1, <1>2, <2>2 DEF Ask, Ends, KeysTypeOK
  <2> QED
    BY <2>1, <2>2
<1>3. ASSUME NEW q \in Handlers, LookUp(q) PROVE Justified(r)'
  <2>1. CASE q = r
    <3>1. at[r] = "lock" /\ Settle(r, keys) /\ UNCHANGED <<token, cause>>
      BY <1>3, <2>1 DEF LookUp, KeysTypeOK
    <3> DEFINE found == KeyFor(token[r], keys)
    <3>2. found # {} /\ principal'[r] = Verdict(token[r], found = {token[r].by} /\ token[r].good)
      BY <3>1 DEF Settle, Ends, KeysTypeOK
    <3>3. token[r].good /\ token[r].kid = token[r].by /\ ~cause[r] => found = {token[r].by}
      BY <3>1, <3>2, NamedKeyIsFound, NamedKeyOrNone DEF StillPublished, UnderWay, KeysTypeOK
    <3> HIDE DEF found
    <3>4. token' = token /\ cause' = cause /\ token[r].user # "rejected"
      BY <3>1, KeysAssumption DEF KeysTypeOK, StillPublished, UnderWay
    <3> QED
      BY <3>2, <3>3, <3>4 DEF Justified, Verdict
  <2>2. CASE q # r
    BY <1>1, <1>3, <2>2 DEF LookUp, Settle, Ends, KeysTypeOK
  <2> QED
    BY <2>1, <2>2
<1>4. ASSUME NEW q \in Handlers, Fetched(q) PROVE Justified(r)'
  <2>1. CASE q = r
    <3>1. at[r] \in {"fetch", "refetch"} /\ Settle(r, published) /\ UNCHANGED <<token, cause>>
      BY <1>4, <2>1 DEF Fetched
    <3> DEFINE found == KeyFor(token[r], published)
    <3>2. principal'[r] = Verdict(token[r], found = {token[r].by} /\ token[r].good)
      BY <3>1 DEF Settle, Ends, KeysTypeOK
    <3>3. token[r].kid = token[r].by /\ ~cause[r] => found = {token[r].by}
      BY <3>1, NamedKeyIsFound DEF StillPublished, UnderWay
    <3> HIDE DEF found
    <3>4. token' = token /\ cause' = cause /\ token[r].user # "rejected"
      BY <3>1, KeysAssumption DEF KeysTypeOK, StillPublished, UnderWay
    <3> QED
      BY <3>2, <3>3, <3>4 DEF Justified, Verdict
  <2>2. CASE q # r
    BY <1>1, <1>4, <2>2 DEF Fetched, Settle, Ends, KeysTypeOK
  <2> QED
    BY <2>1, <2>2
<1>5. ASSUME NEW q \in Handlers, FetchFails(q) PROVE Justified(r)'
  BY <1>1, <1>5 DEF FetchFails, Ends, KeysTypeOK, Justified
<1>6. CASE UNCHANGED <<at, token, principal>> /\ (cause[r] => cause'[r])
  BY <1>1, <1>6
<1>7. ASSUME NEW ks \in SUBSET Keys, Publishes(ks) PROVE Justified(r)'
  BY <1>6, <1>7 DEF Publishes
<1> QED
  BY <1>2, <1>3, <1>4, <1>5, <1>6, <1>7 DEF KeysNext, Verify, KeysTick, keysVars

\* A token makes the request its user's or is rejected, and a good one not without cause.
THEOREM TokensAreAnswered == KeysSpec => []AnswersForCause
<1>1. KeysInit => StillPublished /\ AnswersForCause
  BY DEF KeysInit, StillPublished, UnderWay, AnswersForCause
<1> QED
  BY <1>1, KeyTypes, StillPublishedStep, JustifiedStep, PTL DEF KeysSpec
=============================================================================

------------------------- MODULE CheckRunnerProofs -------------------------
(***************************************************************************)
(* Theorems about CheckRunner, for any number of jobs, threads, places in  *)
(* the backlog, the store and the cache, over either store; and, at the    *)
(* end, about CheckPage, the client that submits the jobs and polls them.  *)
(***************************************************************************)
EXTENDS CheckRunner, CheckPage, SequenceTheorems, FiniteSetTheorems, TLAPS

\* A job the pool has was accepted or could not start a thread, one _run has touched
\* is known to the pool, one it has returned from is at its end.
Queued == {"accepted", "undo", "raised"}

PoolKnowsAccepted ==
  /\ \A i \in 1..Len(queue) : sub[queue[i]] \in Queued
  /\ \A j \in Jobs : work[j] # "none" => sub[j] \in Queued
  /\ \A j \in Jobs : step[j] # "mark" => work[j] # "none"
  /\ \A j \in Jobs : work[j] \in {"leaving", "finished"} => step[j] = "end"
  /\ \A j \in Jobs : loop = j => sub[j] \in {"new", "counted", "undo", "refused"}

\* Before its first update nothing is computed and no update of the job has raised.
NothingYet == \A j \in Jobs : step[j] = "mark" => made[j] = None /\ (Refused(j) \/ lost[j] = {})

\* What the record of a job says, by how far submit() and _run have got and which
\* updates have raised.
AtEnd(j) ==
  {"done", "error"} \cup (IF "error" \in lost[j] THEN {"running"} ELSE {})
    \cup (IF made[j] = None /\ lost[j] = {"running"} THEN {"queued"} ELSE {})

Told(j) ==
  IF Refused(j) THEN {"error"} \cup (IF lost[j] = {"error"} THEN {"queued"} ELSE {})
  ELSE IF step[j] = "mark" THEN {"queued"}
  ELSE IF step[j] = "end" THEN AtEnd(j)
  ELSE {"running"}

RecordFollows ==
  \A j \in Jobs : rec[j] # S!Absent => rec[j].status \in Told(j) /\ Submitted(j)

\* A result on its way to the record belongs to the job's own bytes, and so does
\* every entry of the cache.
MadeIsOwn ==
  /\ \A j \in Jobs : step[j] \in {"save", "record"} => made[j] \in Jobs
  /\ \A j \in Jobs : made[j] \in Jobs => KeyOf(made[j]) = KeyOf(j)
  /\ \A k \in Keys : data[k] # C!NoEntry => KeyOf(data[k].value) = k

\* The inductive invariant.
IInv == TypeOK /\ PoolKnowsAccepted /\ NothingYet /\ RecordFollows /\ MadeIsOwn /\ ResultIsOwn

USE DEF Idle

-----------------------------------------------------------------------------
(* The operators of the store and of the cache. *)

\* create() leaves of each old record what it was or nothing, and of the new one
\* a queued record or nothing.
LEMMA CreateEffect ==
  ASSUME TypeOK, NEW j \in Jobs, S!Create(j)
  PROVE  /\ S!TypeOK'
         /\ \A i \in Jobs \ {j} : rec'[i] \in {rec[i], S!Absent}
         /\ rec'[j] # S!Absent => rec'[j].status = "queued"
<1> DEFINE new == [rec EXCEPT ![j] = [status |-> "queued", created |-> now, updated |-> now,
                                      birth |-> births, result |-> None]]
           live == {i \in S!Present : ~S!Expired(i)} \cup {j}
<1>1. PICK K \in S!Kept(live, new) : rec' = [i \in Jobs |-> IF i \in K THEN new[i] ELSE S!Absent]
  BY DEF S!Create
<1>2. K \subseteq live
  BY <1>1 DEF S!Kept
<1>3. now \in Nat /\ births \in Nat /\ rec \in [Jobs -> S!Record \cup {S!Absent}]
  BY RunnerAssumption DEF TypeOK, S!TypeOK
<1>4. [status |-> "queued", created |-> now, updated |-> now,
       birth |-> births, result |-> None] \in S!Record
  BY <1>3 DEF S!Record, S!RecStatus
<1>5. new \in [Jobs -> S!Record \cup {S!Absent}]
  BY <1>3, <1>4
<1>6. rec' \in [Jobs -> S!Record \cup {S!Absent}] /\ births' \in Nat
  BY <1>1, <1>3, <1>5 DEF S!Create
<1>7. \A i \in Jobs \ {j} : rec'[i] \in {rec[i], S!Absent}
  BY <1>1, <1>3
<1>8. rec'[j] # S!Absent => rec'[j].status = "queued"
  BY <1>1, <1>3
<1> QED BY <1>6, <1>7, <1>8 DEF S!TypeOK

\* update() touches one record, and only if it is there.
LEMMA UpdateEffect ==
  ASSUME TypeOK, NEW j \in Jobs, NEW st \in S!RecStatus, NEW res \in Results \cup {None},
         S!Update(j, st, res)
  PROVE  /\ S!TypeOK'
         /\ \A i \in Jobs \ {j} : rec'[i] = rec[i]
         /\ rec[j] = S!Absent => rec'[j] = S!Absent
         /\ rec'[j] # S!Absent => rec'[j].status = st /\ rec'[j].result = res
<1>1. now \in Nat /\ births \in Nat /\ rec \in [Jobs -> S!Record \cup {S!Absent}]
  BY RunnerAssumption DEF TypeOK, S!TypeOK
<1>2. CASE rec[j] = S!Absent
  BY <1>1, <1>2 DEF S!Update, S!TypeOK
<1>3. CASE rec[j] # S!Absent
  <2>1. rec[j] \in S!Record
    BY <1>1, <1>3
  <2>2. rec' = [rec EXCEPT ![j] = [rec[j] EXCEPT !.status = st, !.result = res, !.updated = now]]
    BY <1>1, <1>3 DEF S!Update
  <2>3. [rec[j] EXCEPT !.status = st, !.result = res, !.updated = now] \in S!Record
    BY <1>1, <2>1 DEF S!Record
  <2> QED BY <1>1, <1>3, <2>1, <2>2, <2>3 DEF S!TypeOK, S!Update, S!Record
<1> QED BY <1>2, <1>3

\* The deletion of an expired record.
LEMMA DropEffect ==
  ASSUME TypeOK, NEW j \in Jobs, S!Drop(j)
  PROVE  /\ S!TypeOK'
         /\ \A i \in Jobs \ {j} : rec'[i] = rec[i]
         /\ rec'[j] = S!Absent
BY DEF TypeOK, S!TypeOK, S!Drop

\* Taking a key out of the order of use leaves an order of use.
LEMMA WithoutType == ASSUME NEW s \in Seq(Keys), NEW k \in Keys PROVE C!Without(s, k) \in Seq(Keys)
<1>1. CASE \E i \in 1..Len(s) : s[i] = k
  <2> DEFINE n == CHOOSE i \in 1..Len(s) : s[i] = k
  <2>1. n \in 1..Len(s)
    BY <1>1
  <2>2. SubSeq(s, 1, n - 1) \in Seq(Keys) /\ SubSeq(s, n + 1, Len(s)) \in Seq(Keys)
    <3> HIDE DEF n
    <3>1. \A i \in 1..Len(s) : s[i] \in Keys
      OBVIOUS
    <3> QED BY <2>1, <3>1, SubSeqProperties
  <2>3. C!Without(s, k) = SubSeq(s, 1, n - 1) \o SubSeq(s, n + 1, Len(s))
    BY <1>1 DEF C!Without
  <2> HIDE DEF n
  <2> QED BY <2>2, <2>3
<1>2. CASE ~\E i \in 1..Len(s) : s[i] = k
  BY <1>2 DEF C!Without
<1> QED BY <1>1, <1>2

LEMMA KeyInKeys == ASSUME NEW j \in Jobs PROVE KeyOf(j) \in Keys
BY DEF Keys

\* get() brings in no entry.
LEMMA GetEffect ==
  ASSUME TypeOK, NEW k \in Keys, C!Hit(k) \/ C!Miss(k)
  PROVE  C!TypeOK' /\ \A x \in Keys : data'[x] \in {data[x], C!NoEntry}
<1>0. order \in Seq(Keys) /\ data \in [Keys -> C!Entry \cup {C!NoEntry}]
  BY DEF TypeOK, C!TypeOK
<1>1. Append(C!Without(order, k), k) \in Seq(Keys) /\ C!Without(order, k) \in Seq(Keys)
  BY <1>0, WithoutType
<1>2. CASE C!Hit(k)
  <2>1. order' = Append(C!Without(order, k), k) /\ data' = data
    BY <1>2 DEF C!Hit
  <2> QED BY <1>0, <1>1, <2>1 DEF C!TypeOK
<1>3. CASE C!Miss(k)
  <2>1. order' = C!Without(order, k) /\ data' = [data EXCEPT ![k] = C!NoEntry]
    BY <1>3 DEF C!Miss
  <2>2. data' \in [Keys -> C!Entry \cup {C!NoEntry}]
    BY <1>0, <2>1
  <2>3. \A x \in Keys : data'[x] \in {data[x], C!NoEntry}
    BY <1>0, <2>1
  <2> QED BY <1>1, <2>1, <2>2, <2>3 DEF C!TypeOK
<1> QED BY <1>2, <1>3

\* put() brings in one.
LEMMA PutEffect ==
  ASSUME TypeOK, NEW k \in Keys, NEW v \in Jobs, C!Put(k, v)
  PROVE  /\ C!TypeOK'
         /\ \A x \in Keys : \/ data'[x] \in {data[x], C!NoEntry}
                            \/ x = k /\ data'[x] = [at |-> now, value |-> v]
<1> DEFINE used == Append(C!Without(order, k), k)
           drop == IF Len(used) > CacheSize THEN Len(used) - CacheSize ELSE 0
           entry == [at |-> now, value |-> v]
<1>0. order \in Seq(Keys) /\ data \in [Keys -> C!Entry \cup {C!NoEntry}] /\ now \in Nat
  BY RunnerAssumption DEF TypeOK, C!TypeOK
<1>1. used \in Seq(Keys)
  BY <1>0, WithoutType
<1>2. drop \in Nat
  BY <1>1, RunnerAssumption
<1>3. order' = SubSeq(used, drop + 1, Len(used))
  BY DEF C!Put
<1>4. order' \in Seq(Keys)
  <2> HIDE DEF drop, used
  <2> QED BY <1>1, <1>2, <1>3
<1>5. data' = [x \in Keys |-> IF \E i \in 1..drop : used[i] = x THEN C!NoEntry
                              ELSE IF x = k THEN entry ELSE data[x]]
  BY DEF C!Put
<1>6. entry \in C!Entry
  BY <1>0 DEF C!Entry
<1> HIDE DEF drop, used
<1>7. \A x \in Keys : data'[x] \in {data[x], C!NoEntry} \/ (x = k /\ data'[x] = entry)
  <2> HIDE DEF entry
  <2> QED BY <1>5
<1>8. data' \in [Keys -> C!Entry \cup {C!NoEntry}]
  <2> HIDE DEF entry
  <2> QED BY <1>0, <1>5, <1>6
<1> QED BY <1>4, <1>7, <1>8 DEF C!TypeOK

\* The executor's own theorems, read in this module.
P == INSTANCE BoundedExecutorProofs WITH Tasks <- Jobs

\* The two instances of the executor are one.
LEMMA SameExecutor ==
  /\ P!ExecutorAssumption
  /\ X!Init <=> P!Init
  /\ X!TypeOK <=> P!TypeOK
  /\ X!HardCapIfClean <=> P!HardCapIfClean
  /\ [X!Next]_(X!vars) <=> [P!Next]_(P!vars)
<1>1. P!ExecutorAssumption
  BY RunnerAssumption DEF P!ExecutorAssumption, IsFiniteSet, P!IsFiniteSet
<1>2. X!TypeOK <=> P!TypeOK
  BY DEF X!TypeOK, P!TypeOK, X!SubState, P!SubState, X!WorkState, P!WorkState
<1>3. X!HardCapIfClean <=> P!HardCapIfClean
  BY DEF X!HardCapIfClean, P!HardCapIfClean, X!CleanRaises, P!CleanRaises, X!HardCap, P!HardCap, X!Waiting, P!Waiting, X!Cardinality, P!Cardinality, X!IsFiniteSet, P!IsFiniteSet
<1>4. [X!Next]_(X!vars) <=> [P!Next]_(P!vars)
  BY DEF X!Next, P!Next, X!SubmitStep, P!SubmitStep, X!PoolStep, P!PoolStep, X!Admit, P!Admit, X!Refuse, P!Refuse, X!Enqueue, P!Enqueue, X!EnqueueNoThread, P!EnqueueNoThread, X!EnqueueFails, P!EnqueueFails, X!Undo, P!Undo, X!Take, P!Take, X!Begin, P!Begin, X!Return, P!Return, X!Finish, P!Finish, X!Shutdown, P!Shutdown, X!NeedsThread, P!NeedsThread, X!Busy, P!Busy, X!vars, P!vars, X!Cardinality, P!Cardinality, X!IsFiniteSet, P!IsFiniteSet
<1>5. X!Init <=> P!Init
  BY DEF X!Init, P!Init
<1> QED BY <1>1, <1>2, <1>3, <1>4, <1>5

-----------------------------------------------------------------------------
(* The runner is a user of the executor. *)

\* Every step of the service is a step of the executor or leaves it alone.
LEMMA ExecutorStep == [Next]_vars => [X!Next]_(X!vars)
<1> SUFFICES ASSUME [Next]_vars PROVE [X!Next]_(X!vars)
  OBVIOUS
<1> DEFINE Alone == UNCHANGED executorVars
<1>0. Alone => [X!Next]_(X!vars)
  BY DEF executorVars, X!vars
<1>1. ASSUME NEW j \in Jobs, NEW p \in Jobs \cup {None}, CreateRecord(j, p) PROVE Alone
  BY <1>1 DEF CreateRecord
<1>2. ASSUME NEW j \in Jobs, SubmitStep(j) PROVE Alone \/ X!Next
  BY <1>2 DEF SubmitStep, Admit, Enqueue, NoThread, MarkBusy, X!Next, X!SubmitStep
<1>3. ASSUME NEW j \in Jobs, WorkerStep(j) PROVE Alone \/ X!Next
  BY <1>3 DEF WorkerStep, TakeOne, MarkRunning, Lookup, Compute, Save, RecordDone, RecordError,
              Leave, X!Next, X!PoolStep
<1>4. ASSUME NEW j \in Jobs, PollExpired(j) \/ PollSelect(j) \/ PollDelete(j) PROVE Alone
  BY <1>4 DEF PollExpired, PollSelect, PollDelete
<1>5. CASE Tick \/ CloseStore \/ UNCHANGED vars
  BY <1>0, <1>5 DEF Tick, CloseStore, vars, executorVars
<1>6. CASE Shutdown
  BY <1>6 DEF Shutdown, X!Next
<1> QED BY <1>0, <1>1, <1>2, <1>3, <1>4, <1>5, <1>6 DEF Next

\* The executor's cap holds in the service, which submits from the event loop while
\* pool threads run and shuts down at any time between two requests: until a thread
\* could not be started, never more than max_pending checks wait to begin.
THEOREM ServiceBacklogIsCapped == Spec => []X!HardCapIfClean
<1>1. P!SafeSpec => []P!HardCapIfClean
  BY SameExecutor, P!CapIfCleanIsSafe
<1>2. Init => P!Init
  BY SameExecutor DEF Init
<1>3. [Next]_vars => [P!Next]_(P!vars)
  BY SameExecutor, ExecutorStep
<1>4. P!HardCapIfClean => X!HardCapIfClean
  BY SameExecutor
<1> QED BY <1>1, <1>2, <1>3, <1>4, PTL DEF Spec, P!SafeSpec

-----------------------------------------------------------------------------
(* The inductive invariant. *)

\* A client never sees the placeholder of a missing record as a record.
LEMMA RecordIsThere == ASSUME NEW r \in S!Record PROVE r # S!Absent /\ r.status \in S!RecStatus
BY DEF S!Record, S!Absent, S!RecStatus

LEMMA InitIInv == Init => IInv
<1> SUFFICES ASSUME Init PROVE IInv
  OBVIOUS
<1> USE DEF Init, X!Init, S!Init, C!Init
<1>1. X!TypeOK
  BY RunnerAssumption DEF X!TypeOK, X!SubState, X!WorkState
<1>2. S!TypeOK /\ C!TypeOK
  BY DEF S!TypeOK, C!TypeOK
<1>3. TypeOK
  BY <1>1, <1>2, RunnerAssumption DEF TypeOK, Step
<1>4. PoolKnowsAccepted
  BY RunnerAssumption DEF PoolKnowsAccepted, Queued
<1>6. NothingYet
  BY DEF NothingYet
<1>5. RecordFollows /\ MadeIsOwn /\ ResultIsOwn
  BY RunnerAssumption DEF RecordFollows, MadeIsOwn, ResultIsOwn, S!Present
<1> QED BY <1>3, <1>4, <1>5, <1>6 DEF IInv

\* store.create() brings in one queued record, of a job nothing was known of.
LEMMA CreateKeepsIInv ==
  ASSUME IInv, NEW j \in Jobs, NEW p \in Jobs \cup {None}, CreateRecord(j, p), X!TypeOK'
  PROVE  IInv'
<1> USE DEF IInv
<1>1. /\ loop = None /\ loop' = j /\ sub[j] = "new"
      /\ UNCHANGED <<pending, running, queue, threads, sub, work, pool, now, order, data,
                     step, made, dropping, conn, lost>>
      /\ prev' = [prev EXCEPT ![j] = p]
  BY DEF CreateRecord, executorVars, cacheVars
<1>2. /\ S!TypeOK'
      /\ \A i \in Jobs \ {j} : rec'[i] \in {rec[i], S!Absent}
      /\ rec'[j] # S!Absent => rec'[j].status = "queued"
  BY CreateEffect DEF CreateRecord
<1>3. TypeOK'
  BY <1>1, <1>2 DEF TypeOK, C!TypeOK
<1>4. step[j] = "mark"
  BY <1>1 DEF PoolKnowsAccepted, Queued
<1>5. PoolKnowsAccepted' /\ NothingYet'
  BY <1>1, RunnerAssumption DEF PoolKnowsAccepted, NothingYet, Refused
<1>6. RecordFollows'
  <2> SUFFICES ASSUME NEW i \in Jobs, rec'[i] # S!Absent
               PROVE  rec'[i].status \in Told(i)' /\ Submitted(i)'
    BY DEF RecordFollows
  <2>1. CASE i = j
    BY <1>1, <1>2, <1>4, <2>1 DEF Told, Refused, Submitted
  <2>2. CASE i # j
    BY <1>1, <1>2, <2>2, RunnerAssumption DEF RecordFollows, Told, AtEnd, Refused, Submitted
  <2> QED BY <2>1, <2>2
<1>7. MadeIsOwn'
  BY <1>1 DEF MadeIsOwn
<1>8. ResultIsOwn'
  <2> SUFFICES ASSUME NEW i \in Jobs, rec'[i] # S!Absent, rec'[i].status = "done"
               PROVE  /\ rec'[i].result # None
                      /\ Key(RequestOf[rec'[i].result.by]) = Key(RequestOf[i])
                      /\ rec'[i].result.recheck = prev'[i]
    BY DEF ResultIsOwn, S!Present
  <2>1. i # j
    BY <1>2
  <2> QED BY <1>1, <1>2, <2>1 DEF ResultIsOwn, S!Present, TypeOK
<1> QED BY <1>3, <1>5, <1>6, <1>7, <1>8

\* The executor's part of submit() touches no record; MarkBusy closes the one of
\* the refused check.
LEMMA SubmitKeepsIInv ==
  ASSUME IInv, NEW j \in Jobs, SubmitStep(j), X!TypeOK'
  PROVE  IInv'
<1> USE DEF IInv
<1>1. ASSUME Admit(j) PROVE IInv'
  <2>1. /\ sub[j] = "new" /\ loop = j
        /\ sub' = [sub EXCEPT ![j] = "counted"] \/ sub' = [sub EXCEPT ![j] = "refused"]
        /\ UNCHANGED <<queue, work, rec, births, now, order, data, loop, prev, step, made, dropping, conn, lost>>
    BY <1>1 DEF Admit, X!Admit, X!Refuse, storeVars, cacheVars, runVars
  <2>2. TypeOK' /\ MadeIsOwn' /\ ResultIsOwn'
    BY <2>1 DEF TypeOK, S!TypeOK, C!TypeOK, MadeIsOwn, ResultIsOwn, S!Present
  <2>3. \A i \in Jobs : i # j => sub'[i] = sub[i]
    BY <2>1 DEF TypeOK, X!TypeOK
  <2>4. sub'[j] \in {"counted", "refused"}
    BY <2>1 DEF TypeOK, X!TypeOK
  <2>5. \A i \in 1..Len(queue) : queue[i] \in Jobs /\ queue[i] # j
    BY <2>1 DEF TypeOK, X!TypeOK, PoolKnowsAccepted, Queued
  <2>6. PoolKnowsAccepted'
    BY <2>1, <2>3, <2>4, <2>5 DEF PoolKnowsAccepted, Queued
  <2>7. RecordFollows' /\ NothingYet'
    BY <2>1, <2>3, <2>4 DEF RecordFollows, Told, AtEnd, Refused, Submitted, NothingYet
  <2> QED BY <2>2, <2>6, <2>7
<1>2. ASSUME Enqueue(j) PROVE IInv'
  <2>1. /\ sub[j] = "counted" /\ loop = j /\ loop' = None
        /\ sub' = [sub EXCEPT ![j] = "accepted"] /\ work' = [work EXCEPT ![j] = "queued"]
        /\ queue' = Append(queue, j)
        /\ UNCHANGED <<rec, births, now, order, data, prev, step, made, dropping, conn, lost>>
    BY <1>2 DEF Enqueue, X!Enqueue, storeVars, cacheVars, runVars
  <2>2. TypeOK' /\ MadeIsOwn' /\ ResultIsOwn'
    BY <2>1 DEF TypeOK, S!TypeOK, C!TypeOK, MadeIsOwn, ResultIsOwn, S!Present
  <2>3. \A i \in Jobs : i # j => sub'[i] = sub[i] /\ work'[i] = work[i]
    BY <2>1 DEF TypeOK, X!TypeOK
  <2>4. sub'[j] = "accepted" /\ work'[j] = "queued"
    BY <2>1 DEF TypeOK, X!TypeOK
  <2>5. \A i \in 1..Len(queue') : queue'[i] = j \/ (i \in 1..Len(queue) /\ queue'[i] = queue[i])
    BY <2>1 DEF TypeOK, X!TypeOK
  <2>6. \A i \in 1..Len(queue) : queue[i] \in Jobs
    BY DEF TypeOK, X!TypeOK
  <2>7. \A i \in 1..Len(queue') : sub'[queue'[i]] \in Queued
    BY <2>3, <2>4, <2>5, <2>6 DEF PoolKnowsAccepted, Queued
  <2>8. PoolKnowsAccepted'
    BY <2>1, <2>3, <2>4, <2>7, RunnerAssumption DEF PoolKnowsAccepted, Queued
  <2>9. RecordFollows' /\ NothingYet'
    BY <2>1, <2>3, <2>4, RunnerAssumption DEF RecordFollows, Told, AtEnd, Refused, Submitted, NothingYet
  <2> QED BY <2>2, <2>8, <2>9
<1>4. ASSUME NoThread(j) PROVE IInv'
  <2>1. /\ loop = j
        /\ UNCHANGED <<rec, births, now, order, data, prev, step, made, dropping, conn, lost>>
    BY <1>4 DEF NoThread, storeVars, cacheVars, runVars
  <2>2. ASSUME loop' \in Jobs \cup {None} PROVE TypeOK' /\ MadeIsOwn' /\ ResultIsOwn'
    BY <2>1, <2>2 DEF TypeOK, S!TypeOK, C!TypeOK, MadeIsOwn, ResultIsOwn, S!Present
  <2>3. CASE X!EnqueueNoThread(j) /\ loop' = loop
    <3>1. /\ sub[j] = "counted"
          /\ sub' = [sub EXCEPT ![j] = "undo"] /\ work' = [work EXCEPT ![j] = "queued"]
          /\ queue' = Append(queue, j)
      BY <2>3 DEF X!EnqueueNoThread
    <3>2. \A i \in Jobs : i # j => sub'[i] = sub[i] /\ work'[i] = work[i]
      BY <3>1 DEF TypeOK, X!TypeOK
    <3>3. sub'[j] = "undo" /\ work'[j] = "queued"
      BY <3>1 DEF TypeOK, X!TypeOK
    <3>4. \A i \in 1..Len(queue') : queue'[i] = j \/ (i \in 1..Len(queue) /\ queue'[i] = queue[i])
      BY <3>1 DEF TypeOK, X!TypeOK
    <3>5. \A i \in 1..Len(queue) : queue[i] \in Jobs
      BY DEF TypeOK, X!TypeOK
    <3>6. \A i \in 1..Len(queue') : sub'[queue'[i]] \in Queued
      BY <3>2, <3>3, <3>4, <3>5 DEF PoolKnowsAccepted, Queued
    <3>7. PoolKnowsAccepted'
      BY <2>1, <2>3, <3>2, <3>3, <3>6 DEF PoolKnowsAccepted, Queued
    <3>8. RecordFollows' /\ NothingYet'
      BY <2>1, <2>3, <3>1, <3>2, <3>3 DEF RecordFollows, Told, AtEnd, Refused, Submitted, NothingYet
    <3>9. loop' \in Jobs \cup {None}
      BY <2>3 DEF TypeOK
    <3> QED BY <2>2, <3>7, <3>8, <3>9
  <2>4. CASE X!Undo(j) /\ loop' = None
    <3>1. /\ sub[j] = "undo" /\ sub' = [sub EXCEPT ![j] = "raised"]
          /\ UNCHANGED <<queue, work>>
      BY <2>4 DEF X!Undo
    <3>2. \A i \in Jobs : sub'[i] = IF i = j THEN "raised" ELSE sub[i]
      BY <3>1 DEF TypeOK, X!TypeOK
    <3>3. \A i \in 1..Len(queue) : queue[i] \in Jobs
      BY DEF TypeOK, X!TypeOK
    <3>4. PoolKnowsAccepted'
      BY <2>1, <2>4, <3>1, <3>2, <3>3, RunnerAssumption DEF PoolKnowsAccepted, Queued
    <3>5. RecordFollows' /\ NothingYet'
      BY <2>1, <2>4, <3>1, <3>2, RunnerAssumption DEF RecordFollows, Told, AtEnd, Refused, Submitted, NothingYet
    <3> QED BY <2>2, <2>4, <3>4, <3>5
  <2> QED BY <1>4, <2>3, <2>4 DEF NoThread
<1>3. ASSUME MarkBusy(j) PROVE IInv'
  <2>1. /\ sub[j] = "refused" /\ loop = j /\ loop' = None
        /\ UNCHANGED <<pending, running, queue, threads, sub, work, pool, now, order, data,
                       prev, step, made, dropping, conn>>
    BY <1>3 DEF MarkBusy, executorVars, cacheVars, runVars
  <2>2. step[j] = "mark" /\ lost[j] = {} /\ Refused(j)' /\ ~Refused(j)
    BY <2>1, RunnerAssumption DEF PoolKnowsAccepted, Queued, NothingYet, Refused
  <2>3. /\ S!TypeOK'
        /\ \A i \in Jobs \ {j} : rec'[i] = rec[i] /\ lost'[i] = lost[i]
        /\ rec'[j] # S!Absent => \/ rec'[j].status = "error"
                                 \/ rec'[j] = rec[j] /\ lost'[j] = {"error"}
        /\ lost' \in [Jobs -> SUBSET {"running", "done", "error"}]
    <3>1. CASE Written(j, "error", None)
      <4>1. UNCHANGED lost
        BY <3>1 DEF Written
      <4> QED BY <3>1, <4>1, UpdateEffect DEF Written, S!RecStatus, TypeOK
    <3>2. CASE Raises(j, "error")
      BY <2>2, <3>2 DEF Raises, storeVars, TypeOK, S!TypeOK
    <3> QED BY <1>3, <3>1, <3>2 DEF MarkBusy
  <2>4. TypeOK' /\ MadeIsOwn'
    BY <2>1, <2>3 DEF TypeOK, C!TypeOK, MadeIsOwn
  <2>5. PoolKnowsAccepted' /\ NothingYet'
    BY <2>1, <2>2, <2>3, RunnerAssumption DEF PoolKnowsAccepted, NothingYet, Refused
  <2>6. RecordFollows'
    <3> SUFFICES ASSUME NEW i \in Jobs, rec'[i] # S!Absent
                 PROVE  rec'[i].status \in Told(i)' /\ Submitted(i)'
      BY DEF RecordFollows
    <3>1. CASE i = j
      BY <2>1, <2>2, <2>3, <3>1 DEF RecordFollows, Told, Submitted
    <3>2. CASE i # j
      BY <2>1, <2>3, <3>2, RunnerAssumption DEF RecordFollows, Told, AtEnd, Refused, Submitted
    <3> QED BY <3>1, <3>2
  <2>7. ResultIsOwn'
    BY <2>1, <2>3 DEF ResultIsOwn, S!Present
  <2> QED BY <2>4, <2>5, <2>6, <2>7
<1> QED BY <1>1, <1>2, <1>3, <1>4 DEF SubmitStep

\* The pool's own moves: only an accepted job is at the head of the queue.
LEMMA PoolKeepsIInv ==
  ASSUME IInv, NEW j \in Jobs, TakeOne(j) \/ Leave(j), X!TypeOK'
  PROVE  IInv'
<1> USE DEF IInv
<1>1. UNCHANGED <<sub, rec, births, now, order, data, loop, prev, step, made, dropping, conn, lost>>
  BY DEF TakeOne, Leave, X!Take, X!Begin, X!Return, X!Finish, storeVars, cacheVars, runVars
<1>2. TypeOK' /\ MadeIsOwn' /\ ResultIsOwn' /\ RecordFollows' /\ NothingYet'
  BY <1>1 DEF TypeOK, S!TypeOK, C!TypeOK, MadeIsOwn, ResultIsOwn, S!Present, RecordFollows, Told, AtEnd,
     Refused, Submitted, NothingYet
<1>3. ASSUME X!Take(j) PROVE PoolKnowsAccepted'
  <2>1. Len(queue) >= 1 /\ queue[1] = j /\ queue' = Tail(queue) /\ work' = [work EXCEPT ![j] = "taken"]
    BY <1>3 DEF X!Take, TypeOK, X!TypeOK
  <2>2. sub[j] \in Queued
    BY <2>1 DEF PoolKnowsAccepted, TypeOK, X!TypeOK
  <2>3. \A i \in 1..Len(queue') : i + 1 \in 1..Len(queue) /\ queue'[i] = queue[i + 1]
    BY <2>1 DEF TypeOK, X!TypeOK
  <2> QED BY <1>1, <2>1, <2>2, <2>3 DEF PoolKnowsAccepted, TypeOK, X!TypeOK
<1>4. ASSUME X!Begin(j) \/ Leave(j) PROVE PoolKnowsAccepted'
  <2>1. /\ work[j] # "none" /\ queue' = queue
        /\ \/ work' = [work EXCEPT ![j] = "running"]
           \/ step[j] = "end" /\ \E w \in {"leaving", "finished"} : work' = [work EXCEPT ![j] = w]
    BY <1>4 DEF X!Begin, X!Return, X!Finish, Leave, At, PoolKnowsAccepted
  <2> QED BY <1>1, <2>1 DEF PoolKnowsAccepted, TypeOK, X!TypeOK
<1> QED BY <1>2, <1>3, <1>4 DEF TakeOne

\* The steps of _run that leave the records alone: the cache and the pipeline.
LEMMA ComputeKeepsIInv ==
  ASSUME IInv, NEW j \in Jobs, Lookup(j) \/ Compute(j) \/ Save(j), X!TypeOK'
  PROVE  IInv'
<1> USE DEF IInv
<1>1. /\ UNCHANGED <<pending, running, queue, threads, sub, work, pool, rec, births, now,
                     loop, prev, dropping, conn, lost>>
      /\ work[j] = "running" /\ step[j] \in {"lookup", "compute", "save"}
      /\ \E s \in {"compute", "save", "record", "fail"} : step' = [step EXCEPT ![j] = s]
  BY DEF Lookup, Compute, Save, At, Goto, executorVars, storeVars
<1>2. \A i \in Jobs : i # j => step'[i] = step[i]
  BY <1>1 DEF TypeOK
<1>3. step'[j] \in {"compute", "save", "record", "fail"}
  BY <1>1 DEF TypeOK
<1>4. PoolKnowsAccepted'
  BY <1>1, <1>2, <1>3 DEF PoolKnowsAccepted
<1>14. \A i \in Jobs : i # j => made'[i] = made[i]
  BY DEF Lookup, Compute, Save, TypeOK
<1>15. NothingYet'
  BY <1>1, <1>2, <1>3, <1>14 DEF NothingYet, Refused
<1>5. RecordFollows'
  <2>1. sub[j] \in Queued
    BY <1>1 DEF PoolKnowsAccepted
  <2>2. \A i \in Jobs : Told(i)' = Told(i)
    BY <1>1, <1>2, <1>3, <1>14, <2>1 DEF Told, AtEnd, Refused, Queued
  <2> QED BY <1>1, <2>2 DEF RecordFollows, Submitted
<1>6. ResultIsOwn'
  BY <1>1 DEF ResultIsOwn, S!Present
<1>7. step' \in [Jobs -> Step]
  BY <1>1 DEF TypeOK, Step
<1>8. S!TypeOK'
  BY <1>1 DEF TypeOK, S!TypeOK
<1>9. ASSUME C!TypeOK', made' \in [Jobs -> Jobs \cup {None}] PROVE TypeOK'
  BY <1>1, <1>7, <1>8, <1>9 DEF TypeOK
<1>10. KeyOf(j) \in Keys
  BY KeyInKeys
<1>11. CASE Lookup(j)
  <2>1. C!TypeOK' /\ \A x \in Keys : data'[x] \in {data[x], C!NoEntry}
    BY <1>10, <1>11, GetEffect DEF Lookup
  <2>2. CASE C!Hit(KeyOf(j)) /\ made' = [made EXCEPT ![j] = data[KeyOf(j)].value]
    <3>1. data[KeyOf(j)] # C!NoEntry /\ data[KeyOf(j)] \in C!Entry
      BY <2>2, <1>10 DEF C!Hit, C!Fresh, C!Present, TypeOK, C!TypeOK
    <3>2. data[KeyOf(j)].value \in Jobs /\ KeyOf(data[KeyOf(j)].value) = KeyOf(j)
      BY <3>1, <1>10 DEF C!Entry, MadeIsOwn
    <3>3. made' \in [Jobs -> Jobs \cup {None}] /\ made'[j] = data[KeyOf(j)].value
          /\ \A i \in Jobs : i # j => made'[i] = made[i]
      BY <2>2, <3>2 DEF TypeOK
    <3>4. MadeIsOwn'
      <4> HIDE DEF IInv
      <4> QED BY <1>2, <2>1, <3>2, <3>3 DEF MadeIsOwn, IInv
    <3> QED BY <1>4, <1>15, <1>5, <1>6, <1>9, <2>1, <3>3, <3>4
  <2>3. CASE C!Miss(KeyOf(j)) /\ UNCHANGED made /\ Goto(j, "compute")
    <3>1. step'[j] = "compute"
      BY <2>3 DEF Goto, TypeOK
    <3>2. MadeIsOwn'
      BY <1>2, <2>1, <2>3, <3>1 DEF MadeIsOwn
    <3> QED BY <1>4, <1>15, <1>5, <1>6, <1>9, <2>1, <2>3, <3>2 DEF TypeOK
  <2> QED BY <1>11, <2>2, <2>3 DEF Lookup
<1>12. CASE Compute(j)
  <2>1. UNCHANGED <<order, data>>
    BY <1>12 DEF Compute, cacheVars
  <2>2. C!TypeOK'
    BY <1>1, <2>1 DEF TypeOK, C!TypeOK
  <2>3. (made' = [made EXCEPT ![j] = j]) \/ (UNCHANGED made /\ step'[j] = "fail")
    BY <1>12 DEF Compute, Goto, TypeOK
  <2>4. made' \in [Jobs -> Jobs \cup {None}]
    BY <2>3 DEF TypeOK
  <2>5. MadeIsOwn'
    BY <1>2, <2>1, <2>3 DEF MadeIsOwn, TypeOK
  <2> QED BY <1>4, <1>15, <1>5, <1>6, <1>9, <2>2, <2>4, <2>5
<1>13. CASE Save(j)
  <2>1. made[j] \in Jobs /\ KeyOf(made[j]) = KeyOf(j) /\ UNCHANGED made
    BY <1>13 DEF Save, At, MadeIsOwn
  <2>2. /\ C!TypeOK'
        /\ \A x \in Keys : \/ data'[x] \in {data[x], C!NoEntry}
                           \/ x = KeyOf(j) /\ data'[x] = [at |-> now, value |-> made[j]]
    BY <1>10, <1>13, <2>1, PutEffect DEF Save
  <2>3. MadeIsOwn'
    BY <1>2, <1>13, <2>1, <2>2 DEF MadeIsOwn, Save, At
  <2> QED BY <1>4, <1>15, <1>5, <1>6, <1>9, <2>1, <2>2, <2>3 DEF TypeOK
<1> QED BY <1>11, <1>12, <1>13

\* The steps of _run that write the record.
LEMMA RecordKeepsIInv ==
  ASSUME IInv, NEW j \in Jobs, MarkRunning(j) \/ RecordDone(j) \/ RecordError(j), X!TypeOK'
  PROVE  IInv'
<1> USE DEF IInv
<1>1. /\ UNCHANGED <<pending, running, queue, threads, sub, work, pool, now, order, data,
                     loop, prev, made, dropping, conn>>
      /\ work[j] = "running" /\ step[j] \in {"mark", "record", "fail"}
      /\ \E s \in {"lookup", "fail", "end"} : step' = [step EXCEPT ![j] = s]
  BY DEF MarkRunning, RecordDone, RecordError, At, Goto, executorVars, cacheVars
<1>2. \A i \in Jobs : i # j => step'[i] = step[i]
  BY <1>1 DEF TypeOK
<1>3. step'[j] \in {"lookup", "fail", "end"}
  BY <1>1 DEF TypeOK
<1>4. sub[j] \in Queued /\ ~Refused(j) /\ ~Refused(j)'
  BY <1>1 DEF PoolKnowsAccepted, Queued, Refused
\* What the step may do to the record and to the count of what was lost.
<1> DEFINE Wrote == /\ \A i \in Jobs \ {j} : rec'[i] = rec[i] /\ lost'[i] = lost[i]
                    /\ lost' \in [Jobs -> SUBSET {"running", "done", "error"}]
                    /\ rec[j] = S!Absent => rec'[j] = S!Absent
                    /\ rec'[j] # S!Absent =>
                         \/ rec'[j] = rec[j] /\ step[j] = "record" /\ step'[j] = "fail"
                         \/ rec'[j] = rec[j] /\ step[j] = "mark" /\ step'[j] = "end" /\ lost'[j] = {"running"}
                         \/ rec'[j] = rec[j] /\ step[j] = "fail" /\ step'[j] = "end" /\ "error" \in lost'[j]
                         \/ rec'[j].status = "running" /\ step'[j] = "lookup"
                         \/ rec'[j].status = "error" /\ step'[j] = "end"
                         \/ /\ rec'[j].status = "done" /\ step'[j] = "end"
                            /\ rec'[j].result = ResultOf(j) /\ made[j] \in Jobs
<1>6. S!TypeOK' /\ Wrote
  <2>1. ASSUME MarkRunning(j) PROVE S!TypeOK' /\ Wrote
    <3>0. lost[j] = {} /\ step[j] = "mark"
      BY <1>4, <2>1 DEF MarkRunning, At, NothingYet
    <3>1. CASE Written(j, "running", None) /\ Goto(j, "lookup")
      <4>1. step'[j] = "lookup" /\ lost' = lost
        BY <3>1 DEF Goto, Written, TypeOK
      <4> QED BY <3>1, <4>1, UpdateEffect DEF S!RecStatus, Written, TypeOK
    <3>2. CASE Raises(j, "running") /\ Goto(j, "end")
      <4>1. step'[j] = "end" /\ UNCHANGED <<rec, births>>
        BY <3>2 DEF Goto, Raises, TypeOK, storeVars
      <4>2. lost' = [lost EXCEPT ![j] = @ \cup {"running"}]
        BY <3>2 DEF Raises
      <4>3. lost'[j] = {"running"} /\ lost' \in [Jobs -> SUBSET {"running", "done", "error"}]
        BY <3>0, <4>2 DEF TypeOK
      <4>4. \A i \in Jobs \ {j} : lost'[i] = lost[i]
        BY <4>2 DEF TypeOK
      <4> QED BY <3>0, <4>1, <4>3, <4>4 DEF TypeOK, S!TypeOK
    <3> QED BY <2>1, <3>1, <3>2 DEF MarkRunning
  <2>2. ASSUME RecordDone(j) PROVE S!TypeOK' /\ Wrote
    <3>0. made[j] \in Jobs /\ step[j] = "record"
      BY <2>2 DEF RecordDone, At, MadeIsOwn
    <3>1. CASE Written(j, "done", ResultOf(j)) /\ Goto(j, "end")
      <4>1. step'[j] = "end" /\ lost' = lost /\ S!Update(j, "done", ResultOf(j))
        BY <3>1 DEF Goto, Written, TypeOK
      <4>2. ResultOf(j) \in Results
        BY <3>0 DEF ResultOf, Results, TypeOK
      <4>3. /\ S!TypeOK'
            /\ \A i \in Jobs \ {j} : rec'[i] = rec[i]
            /\ rec[j] = S!Absent => rec'[j] = S!Absent
            /\ rec'[j] # S!Absent => rec'[j].status = "done" /\ rec'[j].result = ResultOf(j)
        BY <4>1, <4>2, UpdateEffect DEF S!RecStatus
      <4> QED BY <3>0, <4>1, <4>3 DEF TypeOK
    <3>2. CASE Goto(j, "fail") /\ UNCHANGED storeVars /\ (UNCHANGED lost \/ Raises(j, "done"))
      <4>1. step'[j] = "fail" /\ UNCHANGED <<rec, births>>
        BY <3>2 DEF Goto, TypeOK, storeVars
      <4>2. lost' = lost \/ lost' = [lost EXCEPT ![j] = @ \cup {"done"}]
        BY <3>2 DEF Raises
      <4>3. /\ lost' \in [Jobs -> SUBSET {"running", "done", "error"}]
            /\ \A i \in Jobs \ {j} : lost'[i] = lost[i]
        BY <4>2 DEF TypeOK
      <4> QED BY <3>0, <4>1, <4>3 DEF TypeOK, S!TypeOK
    <3> QED BY <2>2, <3>1, <3>2 DEF RecordDone, Raises
  <2>3. ASSUME RecordError(j) PROVE S!TypeOK' /\ Wrote
    <3>1. step[j] = "fail" /\ step'[j] = "end"
      BY <2>3 DEF RecordError, At, Goto, TypeOK
    <3>2. CASE Written(j, "error", None)
      <4>1. lost' = lost /\ S!Update(j, "error", None)
        BY <3>2 DEF Written
      <4> QED BY <3>1, <4>1, UpdateEffect DEF S!RecStatus, TypeOK
    <3>3. CASE Raises(j, "error")
      <4>1. UNCHANGED <<rec, births>> /\ lost' = [lost EXCEPT ![j] = @ \cup {"error"}]
        BY <3>3 DEF Raises, storeVars
      <4>2. /\ lost' \in [Jobs -> SUBSET {"running", "done", "error"}]
            /\ "error" \in lost'[j]
            /\ \A i \in Jobs \ {j} : lost'[i] = lost[i]
        BY <4>1 DEF TypeOK
      <4> QED BY <3>1, <4>1, <4>2 DEF TypeOK, S!TypeOK
    <3> QED BY <2>3, <3>2, <3>3 DEF RecordError
  <2> QED BY <2>1, <2>2, <2>3
<1>5. PoolKnowsAccepted' /\ MadeIsOwn' /\ NothingYet'
  BY <1>1, <1>2, <1>3, <1>6 DEF PoolKnowsAccepted, MadeIsOwn, NothingYet, Refused
<1>7. TypeOK'
  BY <1>1, <1>6 DEF TypeOK, C!TypeOK, Step
<1>8. RecordFollows'
  <2> SUFFICES ASSUME NEW i \in Jobs, rec'[i] # S!Absent
               PROVE  rec'[i].status \in Told(i)' /\ Submitted(i)'
    BY DEF RecordFollows
  <2>1. CASE i = j
    <3>1. Submitted(j)'
      BY <1>1, <1>4 DEF Submitted, Queued
    <3>2. rec'[j].status \in S!RecStatus
      BY <1>6, <2>1, RecordIsThere DEF S!TypeOK
    <3>3. rec[j].status \in Told(j)
      BY <1>6, <2>1 DEF RecordFollows
    <3>4. made[j] = None \/ step[j] # "mark"
      BY DEF NothingYet
    <3>5. rec'[j].status \in Told(j)'
      <4> HIDE DEF IInv
      <4> QED BY <1>1, <1>3, <1>4, <1>6, <2>1, <3>2, <3>3, <3>4 DEF Told, AtEnd
    <3> QED BY <2>1, <3>1, <3>5
  <2>2. CASE i # j
    BY <1>1, <1>2, <1>6, <2>2 DEF RecordFollows, Told, AtEnd, Refused, Submitted
  <2> QED BY <2>1, <2>2
<1>9. ResultIsOwn'
  <2> SUFFICES ASSUME NEW i \in Jobs, rec'[i] # S!Absent, rec'[i].status = "done"
               PROVE  /\ rec'[i].result # None
                      /\ Key(RequestOf[rec'[i].result.by]) = Key(RequestOf[i])
                      /\ rec'[i].result.recheck = prev'[i]
    BY DEF ResultIsOwn, S!Present
  <2>1. CASE rec'[i] = rec[i]
    BY <1>1, <2>1 DEF ResultIsOwn, S!Present
  <2>2. CASE rec'[i] # rec[i]
    <3>1. i = j /\ rec'[j].result = ResultOf(j) /\ made[j] \in Jobs
      BY <1>6, <2>2
    <3>2. ResultOf(j).by = made[j] /\ ResultOf(j).recheck = prev[j] /\ ResultOf(j) \in Results
      BY <3>1 DEF ResultOf, Results, TypeOK
    <3>3. KeyOf(made[j]) = KeyOf(j)
      BY <3>1 DEF MadeIsOwn
    <3>4. rec'[j].result # None
      BY <3>1, <3>2, RunnerAssumption
    <3> QED BY <1>1, <3>1, <3>2, <3>3, <3>4 DEF KeyOf
  <2> QED BY <2>1, <2>2
<1> QED BY <1>5, <1>7, <1>8, <1>9

\* A poll of an expired record can only take the record away.
LEMMA PollKeepsIInv ==
  ASSUME IInv, NEW j \in Jobs, PollExpired(j) \/ PollSelect(j) \/ PollDelete(j), X!TypeOK'
  PROVE  IInv'
<1> USE DEF IInv
<1>1. /\ UNCHANGED <<pending, running, queue, threads, sub, work, pool, now, order, data,
                     loop, prev, step, made, conn, lost>>
      /\ S!Drop(j) \/ UNCHANGED <<rec, births>>
      /\ dropping' \subseteq dropping \cup {j}
  BY DEF PollExpired, PollSelect, PollDelete, executorVars, storeVars, cacheVars, runVars
<1>2. /\ S!TypeOK'
      /\ \A i \in Jobs : rec'[i] \in {rec[i], S!Absent}
  <2>1. CASE S!Drop(j)
    BY <2>1, DropEffect
  <2>2. CASE UNCHANGED <<rec, births>>
    BY <2>2 DEF TypeOK, S!TypeOK
  <2> QED BY <1>1, <2>1, <2>2
<1>3. TypeOK' /\ PoolKnowsAccepted' /\ MadeIsOwn' /\ NothingYet'
  BY <1>1, <1>2 DEF TypeOK, C!TypeOK, PoolKnowsAccepted, MadeIsOwn, NothingYet, Refused
<1>4. RecordFollows'
  BY <1>1, <1>2 DEF RecordFollows, Told, AtEnd, Refused, Submitted
<1>5. ResultIsOwn'
  BY <1>1, <1>2 DEF ResultIsOwn, S!Present
<1> QED BY <1>3, <1>4, <1>5

\* The clock, shutdown() and close() write no record.
LEMMA RestKeepsIInv ==
  ASSUME IInv, Tick \/ Shutdown \/ CloseStore \/ UNCHANGED vars, X!TypeOK'
  PROVE  IInv'
<1> USE DEF IInv
<1>1. /\ UNCHANGED <<sub, rec, births, order, data, loop, prev, step, made, dropping, lost>>
      /\ conn' = conn \/ conn' = "closed"
      /\ now' \in 0..MaxTime
  BY RunnerAssumption DEF Tick, Shutdown, X!Shutdown, CloseStore, vars, executorVars, storeVars, cacheVars,
     runVars, TypeOK
<1>2. TypeOK' /\ MadeIsOwn' /\ ResultIsOwn' /\ NothingYet'
  BY <1>1 DEF TypeOK, S!TypeOK, C!TypeOK, MadeIsOwn, ResultIsOwn, S!Present, NothingYet, Refused
<1>3. PoolKnowsAccepted'
  <2>1. CASE UNCHANGED <<queue, work>>
    BY <1>1, <2>1 DEF PoolKnowsAccepted
  <2>2. CASE Shutdown
    <3>1. queue' = <<>> /\ work' = [t \in Jobs |-> IF work[t] = "queued" THEN "cancelled" ELSE work[t]]
      BY <2>2 DEF Shutdown, X!Shutdown
    <3> QED BY <1>1, <3>1 DEF PoolKnowsAccepted
  <2> QED BY <2>1, <2>2 DEF Tick, CloseStore, vars, executorVars
<1>4. RecordFollows'
  <2> SUFFICES ASSUME NEW i \in Jobs, rec[i] # S!Absent
               PROVE  rec[i].status \in Told(i)' /\ Submitted(i)'
    BY <1>1 DEF RecordFollows
  <2>1. rec[i].status \in S!RecStatus
    BY RecordIsThere DEF TypeOK, S!TypeOK
  <2> QED BY <1>1, <2>1 DEF RecordFollows, Told, AtEnd, Refused, Submitted
<1> QED BY <1>2, <1>3, <1>4

LEMMA StepIInv == IInv /\ [Next]_vars => IInv'
<1> SUFFICES ASSUME IInv, [Next]_vars PROVE IInv'
  OBVIOUS
<1>1. X!TypeOK'
  <2>1. P!TypeOK /\ [P!Next]_(P!vars) => P!TypeOK'
    BY SameExecutor, P!TypeStep
  <2>2. X!TypeOK
    BY DEF IInv, TypeOK
  <2>3. P!TypeOK' => X!TypeOK'
    BY DEF X!TypeOK, P!TypeOK, X!SubState, P!SubState, X!WorkState, P!WorkState
  <2> QED BY <2>1, <2>2, <2>3, SameExecutor, ExecutorStep
<1>2. ASSUME NEW j \in Jobs, SubmitStep(j) PROVE IInv'
  BY <1>1, <1>2, SubmitKeepsIInv
<1>3. ASSUME NEW j \in Jobs, WorkerStep(j) PROVE IInv'
  BY <1>1, <1>3, PoolKeepsIInv, ComputeKeepsIInv, RecordKeepsIInv DEF WorkerStep
<1> QED
  BY <1>1, <1>2, <1>3, CreateKeepsIInv, PollKeepsIInv, RestKeepsIInv DEF Next

LEMMA InvariantHolds == Spec => []IInv
BY InitIInv, StepIInv, PTL DEF Spec

-----------------------------------------------------------------------------
(* Theorems *)

\* Every variable of the service keeps its type, over either store.
THEOREM TypeCorrect == Spec => []TypeOK
BY InvariantHolds, PTL DEF IInv

\* A finished check never shows the result of other bytes or another flag than
\* its own, nor a comparison it did not ask for, whatever the cache evicts,
\* expires and serves in between.
THEOREM ResultsAreOwn == Spec => []ResultIsOwn
BY InvariantHolds, PTL DEF IInv

\* A check that is over tells how it ended, or is left "running" or "queued" by an
\* update that raised and nothing else, wherever in submit() or _run it did.
THEOREM OutcomesAreRecorded == Spec => []OutcomeRecorded
<1>1. IInv => OutcomeRecorded
  <2> SUFFICES ASSUME IInv, NEW j \in Jobs, rec[j] # S!Absent, Over(j)
               PROVE  \/ rec[j].status \in {"done", "error"}
                      \/ rec[j].status = "running" /\ "error" \in lost[j]
                      \/ /\ rec[j].status = "queued" /\ made[j] = None
                         /\ lost[j] = IF Refused(j) THEN {"error"} ELSE {"running"}
    BY DEF OutcomeRecorded, S!Present
  <2>1. rec[j].status \in Told(j)
    BY DEF IInv, RecordFollows
  <2>2. CASE Refused(j)
    <3>1. step[j] = "mark" /\ made[j] = None
      BY <2>2 DEF IInv, PoolKnowsAccepted, NothingYet, Queued, Refused
    <3> QED BY <2>1, <2>2, <3>1 DEF Told
  <2>3. CASE ~Refused(j)
    <3>1. step[j] = "end"
      BY <2>3 DEF Over, IInv, PoolKnowsAccepted
    <3>2. rec[j].status \in AtEnd(j)
      BY <2>1, <2>3, <3>1 DEF Told
    <3> QED BY <2>3, <3>2 DEF AtEnd
  <2> QED BY <2>2, <2>3
<1> QED BY <1>1, InvariantHolds, PTL

\* The in-memory store's update never raises.
LEMMA MemoryLosesNothing == ASSUME Durable = FALSE PROVE Spec => [](lost = [j \in Jobs |-> {}])
<1>1. Init => lost = [j \in Jobs |-> {}]
  BY DEF Init
<1>2. lost = [j \in Jobs |-> {}] /\ [Next]_vars => (lost = [j \in Jobs |-> {}])'
  <2> SUFFICES ASSUME [Next]_vars PROVE UNCHANGED lost
    OBVIOUS
  <2>1. ASSUME NEW j \in Jobs, NEW p \in Jobs \cup {None}, CreateRecord(j, p) PROVE UNCHANGED lost
    BY <2>1 DEF CreateRecord
  <2>2. ASSUME NEW j \in Jobs, SubmitStep(j) PROVE UNCHANGED lost
    BY <2>2 DEF SubmitStep, Admit, Enqueue, NoThread, MarkBusy, Written, Raises
  <2>3. ASSUME NEW j \in Jobs, WorkerStep(j) PROVE UNCHANGED lost
    BY <2>3 DEF WorkerStep, TakeOne, MarkRunning, Lookup, Compute, Save, RecordDone, RecordError, Leave,
                Written, Raises
  <2>4. ASSUME NEW j \in Jobs, PollExpired(j) \/ PollSelect(j) \/ PollDelete(j) PROVE UNCHANGED lost
    BY <2>4 DEF PollExpired, PollSelect, PollDelete
  <2>5. CASE Tick \/ Shutdown \/ CloseStore \/ UNCHANGED vars
    BY <2>5 DEF Tick, Shutdown, CloseStore, vars
  <2> QED BY <2>1, <2>2, <2>3, <2>4, <2>5 DEF Next
<1> QED BY <1>1, <1>2, PTL DEF Spec

\* With the in-memory store a check that is over tells how it ended as long as its
\* record is kept, whatever in the check raised.
THEOREM MemoryRecordsOutcomes ==
  ASSUME Durable = FALSE
  PROVE  Spec => [](\A j \in S!Present : Over(j) => rec[j].status \in {"done", "error"})
<1>1. OutcomeRecorded /\ lost = [j \in Jobs |-> {}]
        => \A j \in S!Present : Over(j) => rec[j].status \in {"done", "error"}
  BY DEF OutcomeRecorded, S!Present
<1> QED BY <1>1, MemoryLosesNothing, OutcomesAreRecorded, PTL

\* What the invariant says of the life of a job.
LEMMA LifeOf ==
  ASSUME IInv, NEW j \in Jobs
  PROVE  /\ rec[j] # S!Absent => lifeOf[j] = rec[j].status /\ rec[j].status \in S!RecStatus
         /\ rec[j] = S!Absent => lifeOf[j] = IF Submitted(j) THEN "gone" ELSE "unborn"
BY RecordIsThere DEF IInv, RecordFollows, lifeOf, TypeOK, S!TypeOK

\* The life of one job moves along one edge at a time.
LEMMA LifeMoves ==
  ASSUME IInv, IInv', NEW j \in Jobs, Submitted(j) => Submitted(j)',
         \/ rec'[j] = S!Absent
         \/ rec[j] # S!Absent /\ rec'[j].status = rec[j].status
         \/ rec[j] # S!Absent /\ <<rec[j].status, rec'[j].status>> \in Life!Edges
         \/ ~Submitted(j) /\ rec'[j].status = "queued"
  PROVE  lifeOf'[j] = lifeOf[j] \/ <<lifeOf[j], lifeOf'[j]>> \in Life!Edges
<1>1. /\ rec'[j] # S!Absent => lifeOf'[j] = rec'[j].status
      /\ rec'[j] = S!Absent => lifeOf'[j] = IF Submitted(j)' THEN "gone" ELSE "unborn"
  BY DEF IInv, RecordFollows, lifeOf
<1>2. ~Submitted(j) => rec[j] = S!Absent
  BY DEF IInv, RecordFollows
<1> QED BY <1>1, <1>2, LifeOf DEF Life!Edges, S!RecStatus

\* A write of a record, of a job the invariant places: which edge it takes.
LEMMA WriteMoves ==
  ASSUME IInv, NEW j \in Jobs, NEW st \in S!RecStatus, NEW res \in Results \cup {None},
         S!Update(j, st, res), Submitted(j), NEW from, Told(j) = {from}, <<from, st>> \in Life!Edges
  PROVE  \A i \in Jobs : \/ rec'[i] = S!Absent
                         \/ rec[i] # S!Absent /\ rec'[i].status = rec[i].status
                         \/ rec[i] # S!Absent /\ <<rec[i].status, rec'[i].status>> \in Life!Edges
<1>1. /\ \A i \in Jobs \ {j} : rec'[i] = rec[i]
      /\ rec[j] = S!Absent => rec'[j] = S!Absent
      /\ rec'[j] # S!Absent => rec'[j].status = st
  BY UpdateEffect DEF IInv
<1>2. rec[j] # S!Absent => rec[j].status = from
  BY DEF IInv, RecordFollows
<1>3. ASSUME rec[j] # S!Absent, rec'[j] # S!Absent PROVE <<rec[j].status, rec'[j].status>> \in Life!Edges
  BY <1>1, <1>2, <1>3
<1>4. \A i \in Jobs \ {j} : rec'[i] = S!Absent \/ (rec[i] # S!Absent /\ rec'[i].status = rec[i].status)
  BY <1>1
<1> QED BY <1>1, <1>3, <1>4

\* A submission is not taken back.
LEMMA SubmittedStays ==
  ASSUME IInv, [Next]_vars, NEW i \in Jobs, Submitted(i)
  PROVE  Submitted(i)'
<1> USE DEF Submitted
<1>1. CASE UNCHANGED <<sub, loop>>
  BY <1>1
<1>2. ASSUME NEW j \in Jobs, NEW p \in Jobs \cup {None}, CreateRecord(j, p) PROVE Submitted(i)'
  BY <1>2, RunnerAssumption DEF CreateRecord, executorVars
<1>3. ASSUME NEW j \in Jobs, SubmitStep(j) PROVE Submitted(i)'
  BY <1>3 DEF SubmitStep, Admit, X!Admit, X!Refuse, Enqueue, X!Enqueue, NoThread, X!EnqueueNoThread, X!Undo,
              MarkBusy, executorVars,
              IInv, TypeOK, X!TypeOK
<1>4. ASSUME NEW j \in Jobs, WorkerStep(j) PROVE UNCHANGED <<sub, loop>>
  BY <1>4 DEF WorkerStep, TakeOne, MarkRunning, Lookup, Compute, Save, RecordDone, RecordError, Leave,
              X!Take, X!Begin, X!Return, X!Finish, executorVars
<1>5. ASSUME NEW j \in Jobs, PollExpired(j) \/ PollSelect(j) \/ PollDelete(j)
      PROVE  UNCHANGED <<sub, loop>>
  BY <1>5 DEF PollExpired, PollSelect, PollDelete, executorVars
<1>6. CASE Tick \/ Shutdown \/ CloseStore \/ UNCHANGED vars
  BY <1>6 DEF Tick, Shutdown, X!Shutdown, CloseStore, vars, executorVars
<1> QED BY <1>1, <1>2, <1>3, <1>4, <1>5, <1>6 DEF Next

\* Every step of the service moves every job along an edge, or leaves it.
LEMMA LifeStep == IInv /\ IInv' /\ [Next]_vars => [Life!Next]_lifeOf
<1> SUFFICES ASSUME IInv, IInv', [Next]_vars PROVE Life!Next
  OBVIOUS
<1> DEFINE Moved(i) == \/ rec'[i] = S!Absent
                       \/ rec[i] # S!Absent /\ rec'[i].status = rec[i].status
                       \/ rec[i] # S!Absent /\ <<rec[i].status, rec'[i].status>> \in Life!Edges
                       \/ ~Submitted(i) /\ rec'[i].status = "queued"
<1>0. UNCHANGED rec => \A i \in Jobs : Moved(i)
  OBVIOUS
<1>1. ASSUME NEW j \in Jobs, NEW p \in Jobs \cup {None}, CreateRecord(j, p)
      PROVE  (\A i \in Jobs : Moved(i)) /\ sub' = sub /\ loop = None
  <2>1. /\ \A i \in Jobs \ {j} : rec'[i] \in {rec[i], S!Absent}
        /\ rec'[j] # S!Absent => rec'[j].status = "queued"
    BY <1>1, CreateEffect DEF CreateRecord, IInv
  <2>2. ~Submitted(j) /\ sub' = sub /\ loop = None
    BY <1>1, RunnerAssumption DEF CreateRecord, Submitted, executorVars
  <2> QED BY <2>1, <2>2
<1>2. ASSUME NEW j \in Jobs, SubmitStep(j) PROVE \A i \in Jobs : Moved(i)
  <2>1. CASE UNCHANGED rec
    BY <1>0, <2>1
  <2>2. CASE MarkBusy(j) /\ S!Update(j, "error", None)
    <3>1. Told(j) = {"queued"} /\ Submitted(j)
      BY <2>2 DEF MarkBusy, Told, Refused, Submitted, IInv, PoolKnowsAccepted, Queued
    <3>2. <<"queued", "error">> \in Life!Edges /\ "error" \in S!RecStatus
      BY DEF Life!Edges, S!RecStatus
    <3> QED BY <2>2, <3>1, <3>2, WriteMoves
  <2> QED BY <1>2, <2>1, <2>2 DEF SubmitStep, Admit, Enqueue, NoThread, MarkBusy, Written, Raises, storeVars
<1>3. ASSUME NEW j \in Jobs, WorkerStep(j) PROVE \A i \in Jobs : Moved(i)
  <2>1. CASE UNCHANGED rec
    BY <1>0, <2>1
  <2>2. ASSUME work[j] = "running" PROVE Submitted(j) /\ ~Refused(j)
    BY <2>2 DEF IInv, PoolKnowsAccepted, Submitted, Refused, Queued
  <2>3. CASE MarkRunning(j) /\ S!Update(j, "running", None)
    <3>1. Told(j) = {"queued"} /\ Submitted(j)
      BY <2>2, <2>3 DEF MarkRunning, At, Told
    <3>2. <<"queued", "running">> \in Life!Edges /\ "running" \in S!RecStatus
      BY DEF Life!Edges, S!RecStatus
    <3> QED BY <2>3, <3>1, <3>2, WriteMoves
  <2>4. CASE RecordDone(j) /\ S!Update(j, "done", ResultOf(j))
    <3>1. Told(j) = {"running"} /\ Submitted(j)
      BY <2>2, <2>4 DEF RecordDone, At, Told
    <3>2. <<"running", "done">> \in Life!Edges /\ "done" \in S!RecStatus
      BY DEF Life!Edges, S!RecStatus
    <3>3. ResultOf(j) \in Results
      BY <2>4 DEF RecordDone, At, ResultOf, Results, IInv, MadeIsOwn, TypeOK
    <3> QED BY <2>4, <3>1, <3>2, <3>3, WriteMoves
  <2>5. CASE RecordError(j) /\ S!Update(j, "error", None)
    <3>1. Told(j) = {"running"} /\ Submitted(j)
      BY <2>2, <2>5 DEF RecordError, At, Told
    <3>2. <<"running", "error">> \in Life!Edges /\ "error" \in S!RecStatus
      BY DEF Life!Edges, S!RecStatus
    <3> QED BY <2>5, <3>1, <3>2, WriteMoves
  <2> QED BY <1>3, <2>1, <2>3, <2>4, <2>5 DEF WorkerStep, TakeOne, MarkRunning, Lookup, Compute,
             Save, RecordDone, RecordError, Leave, Written, Raises, storeVars
<1>4. ASSUME NEW j \in Jobs, PollExpired(j) \/ PollSelect(j) \/ PollDelete(j) PROVE \A i \in Jobs : Moved(i)
  <2>1. CASE UNCHANGED rec
    BY <1>0, <2>1
  <2>2. CASE S!Drop(j)
    BY <2>2, DropEffect DEF IInv
  <2> QED BY <1>4, <2>1, <2>2 DEF PollExpired, PollSelect, PollDelete, storeVars
<1>5. ASSUME Tick \/ Shutdown \/ CloseStore \/ UNCHANGED vars PROVE \A i \in Jobs : Moved(i)
  BY <1>0, <1>5 DEF Tick, Shutdown, CloseStore, storeVars, vars
<1>6. \A i \in Jobs : Moved(i)
  BY <1>1, <1>2, <1>3, <1>4, <1>5 DEF Next
<1>7. \A i \in Jobs : Submitted(i) => Submitted(i)'
  BY SubmittedStays
<1>8. \A i \in Jobs : lifeOf'[i] = lifeOf[i] \/ <<lifeOf[i], lifeOf'[i]>> \in Life!Edges
  BY <1>6, <1>7, LifeMoves
<1>9. lifeOf' \in [Jobs -> Life!Status]
  <2>1. \A i \in Jobs : rec'[i] # S!Absent => rec'[i].status \in S!RecStatus
    BY RecordIsThere DEF IInv, TypeOK, S!TypeOK
  <2> QED BY <2>1 DEF lifeOf, Life!Status, S!RecStatus
<1> QED BY <1>8, <1>9 DEF Life!Next

\* Whatever clients, threads, clocks and shutdowns do, over either store, every
\* job lives the life JobLifecycle promises.
THEOREM ServiceImplementsLifecycle == Spec => ImplementsLifecycle
<1>1. Init => Life!Init
  BY RunnerAssumption DEF Init, X!Init, S!Init, lifeOf, Life!Init, Submitted
<1> QED BY <1>1, LifeStep, InvariantHolds, PTL DEF Spec, ImplementsLifecycle, Life!Spec

-----------------------------------------------------------------------------
(* What the store forgets. *)

\* The order of insertion is the order of age.
AgesInOrder ==
  /\ \A i \in S!Present : rec[i].birth < births /\ rec[i].created <= now
  /\ \A i, k \in S!Present : rec[i].birth < rec[k].birth => rec[i].created <= rec[k].created

\* What a step may do to the store.
LEMMA StoreSteps ==
  ASSUME IInv, [Next]_vars
  PROVE  /\ now \in Nat /\ now' \in Nat /\ now <= now'
         /\ \/ UNCHANGED storeVars
            \/ \E j \in Jobs : rec[j] = S!Absent /\ S!Create(j) /\ now' = now
            \/ \E j \in Jobs, st \in S!RecStatus, res \in Results \cup {None} :
                 S!Update(j, st, res) /\ now' = now
            \/ \E j \in Jobs : S!Drop(j) /\ now' = now /\ (j \in dropping \/ S!Expired(j))
<1>0. now \in Nat
  BY RunnerAssumption DEF IInv, TypeOK
<1>1. ASSUME NEW j \in Jobs, NEW p \in Jobs \cup {None}, CreateRecord(j, p)
      PROVE  rec[j] = S!Absent /\ S!Create(j) /\ now' = now
  BY <1>1, RunnerAssumption DEF CreateRecord, IInv, RecordFollows, Submitted
<1>2. ASSUME NEW j \in Jobs, SubmitStep(j)
      PROVE  now' = now /\ (UNCHANGED storeVars \/ S!Update(j, "error", None))
  BY <1>2 DEF SubmitStep, Admit, Enqueue, NoThread, MarkBusy, Written, Raises
<1>3. ASSUME NEW j \in Jobs, WorkerStep(j)
      PROVE  /\ now' = now
             /\ \/ UNCHANGED storeVars
                \/ \E st \in S!RecStatus, res \in Results \cup {None} : S!Update(j, st, res)
  <2>1. "running" \in S!RecStatus /\ "error" \in S!RecStatus /\ "done" \in S!RecStatus
    BY DEF S!RecStatus
  <2>2. CASE MarkRunning(j) \/ RecordError(j)
    BY <2>1, <2>2 DEF MarkRunning, RecordError, Written, Raises
  <2>3. CASE RecordDone(j)
    <3>1. ResultOf(j) \in Results
      BY <2>3 DEF RecordDone, At, ResultOf, Results, IInv, MadeIsOwn, TypeOK
    <3> QED BY <2>1, <2>3, <3>1 DEF RecordDone, Written, Raises
  <2> QED BY <1>3, <2>2, <2>3 DEF WorkerStep, TakeOne, Lookup, Compute, Save, Leave
<1>4. ASSUME NEW j \in Jobs, PollExpired(j) \/ PollSelect(j) \/ PollDelete(j)
      PROVE  /\ now' = now
             /\ UNCHANGED storeVars \/ (S!Drop(j) /\ (j \in dropping \/ S!Expired(j)))
  BY <1>4 DEF PollExpired, PollSelect, PollDelete
<1>5. ASSUME Tick \/ Shutdown \/ CloseStore \/ UNCHANGED vars
      PROVE  UNCHANGED storeVars /\ (now' = now \/ now' = now + 1)
  BY <1>5 DEF Tick, Shutdown, CloseStore, storeVars, vars
<1>6. now' = now \/ now' = now + 1
  BY <1>1, <1>2, <1>3, <1>4, <1>5 DEF Next
<1>7. now' \in Nat /\ now <= now'
  BY <1>0, <1>6
<1>8. "error" \in S!RecStatus /\ None \in Results \cup {None}
  BY DEF S!RecStatus
<1> QED BY <1>0, <1>1, <1>2, <1>3, <1>4, <1>5, <1>7, <1>8 DEF Next

LEMMA AgesStayInOrder ==
  ASSUME IInv, AgesInOrder, [Next]_vars
  PROVE  AgesInOrder'
<1>0. /\ now \in Nat /\ now' \in Nat /\ now <= now' /\ births \in Nat
      /\ rec \in [Jobs -> S!Record \cup {S!Absent}]
      /\ \A i \in S!Present : rec[i].birth \in Nat /\ rec[i].created \in Nat /\ rec[i] \in S!Record
  BY StoreSteps DEF IInv, TypeOK, S!TypeOK, S!Present, S!Record
<1>1. CASE UNCHANGED storeVars
  BY <1>0, <1>1 DEF AgesInOrder, S!Present, storeVars
<1>2. ASSUME NEW j \in Jobs, rec[j] = S!Absent, S!Create(j), now' = now
      PROVE  AgesInOrder'
  <2> DEFINE new == [status |-> "queued", created |-> now, updated |-> now,
                     birth |-> births, result |-> None]
  <2>1. /\ births' = births + 1
        /\ \A i \in Jobs : rec'[i] \in {(IF i = j THEN new ELSE rec[i]), S!Absent}
    BY <1>0, <1>2 DEF S!Create
  <2>2. \A i \in Jobs : rec'[i] # S!Absent =>
          IF i = j THEN rec'[i] = new ELSE i \in S!Present /\ rec'[i] = rec[i]
    BY <2>1 DEF S!Present
  <2>3. new.created = now /\ new.birth = births
    OBVIOUS
  <2> HIDE DEF new
  <2> QED BY <1>0, <1>2, <2>1, <2>2, <2>3 DEF AgesInOrder, S!Present
<1>3. ASSUME NEW j \in Jobs, NEW st \in S!RecStatus, NEW res \in Results \cup {None},
             S!Update(j, st, res), now' = now
      PROVE  AgesInOrder'
  <2>1. \A i \in Jobs : /\ rec'[i] # S!Absent => i \in S!Present
                        /\ i \in S!Present => rec'[i].birth = rec[i].birth /\ rec'[i].created = rec[i].created
    <3>1. CASE rec[j] = S!Absent
      BY <1>3, <3>1 DEF S!Update, S!Present
    <3>2. CASE rec[j] # S!Absent
      <4>1. rec[j] \in S!Record
        BY <1>0, <3>2
      <4>2. rec' = [rec EXCEPT ![j] = [rec[j] EXCEPT !.status = st, !.result = res, !.updated = now]]
        BY <1>0, <1>3, <3>2 DEF S!Update
      <4>3. \A i \in Jobs : i # j => rec'[i] = rec[i]
        BY <1>0, <4>2
      <4>4. rec'[j].birth = rec[j].birth /\ rec'[j].created = rec[j].created
        BY <1>0, <4>1, <4>2 DEF S!Record
      <4> QED BY <3>2, <4>3, <4>4 DEF S!Present
    <3> QED BY <3>1, <3>2
  <2> QED BY <1>0, <1>3, <2>1 DEF AgesInOrder, S!Present, S!Update
<1>4. ASSUME NEW j \in Jobs, S!Drop(j), now' = now PROVE AgesInOrder'
  BY <1>0, <1>4 DEF AgesInOrder, S!Present, S!Drop
<1> QED BY <1>1, <1>2, <1>3, <1>4, StoreSteps

\* The store's counting is that of this module.
LEMMA SameCount == ASSUME NEW T PROVE S!Cardinality(T) = Cardinality(T)
BY DEF S!Cardinality, Cardinality

\* create() leaves out a record that has not expired only when it keeps max_jobs records,
\* none of them older.
LEMMA PushedOutByLater ==
  ASSUME IInv, AgesInOrder, NEW j \in Jobs, rec[j] = S!Absent, S!Create(j),
         NEW i \in S!Present, rec'[i] = S!Absent, ~S!Expired(i)
  PROVE  Cardinality({k \in Jobs : rec'[k] # S!Absent /\ rec'[k].created >= rec[i].created}) = MaxJobs
<1> DEFINE new  == [rec EXCEPT ![j] = [status |-> "queued", created |-> now, updated |-> now,
                                       birth |-> births, result |-> None]]
           live == {k \in S!Present : ~S!Expired(k)} \cup {j}
<1>1. PICK K \in S!Kept(live, new) : rec' = [k \in Jobs |-> IF k \in K THEN new[k] ELSE S!Absent]
  BY DEF S!Create
<1>2. /\ K \subseteq live /\ live \subseteq Jobs /\ i \in live /\ i # j /\ i \in Jobs
      /\ Cardinality(K) = IF Cardinality(live) < MaxJobs THEN Cardinality(live) ELSE MaxJobs
      /\ \A x \in live \ K, y \in K : S!NoLaterThan(x, y, new)
  <2>1. live \subseteq Jobs /\ i \in live /\ i # j /\ i \in Jobs
    BY DEF S!Present
  <2> HIDE DEF live, new
  <2>2. /\ K \in SUBSET live
        /\ Cardinality(K) = IF Cardinality(live) < MaxJobs THEN Cardinality(live) ELSE MaxJobs
        /\ \A x \in live \ K, y \in K : S!NoLaterThan(x, y, new)
    BY <1>1, SameCount DEF S!Kept
  <2> QED BY <2>1, <2>2
<1>3. /\ now \in Nat /\ births \in Nat /\ rec \in [Jobs -> S!Record \cup {S!Absent}]
      /\ \A k \in S!Present : rec[k].created \in Nat /\ rec[k].birth \in Nat
  BY RunnerAssumption DEF IInv, TypeOK, S!TypeOK, S!Present, S!Record
<1>4. /\ new[j].created = now /\ new[j].birth = births /\ new[j].status = "queued"
      /\ \A k \in Jobs : k # j => new[k] = rec[k]
  BY <1>3
<1>5. \A k \in K : new[k] # S!Absent /\ rec'[k] = new[k] /\ k \in Jobs /\ (k = j \/ k \in S!Present)
  <2>1. S!Absent.status = "absent"
    BY DEF S!Absent
  <2> QED BY <1>1, <1>2, <1>4, <2>1 DEF S!Present
<1>6. i \notin K
  BY <1>2, <1>5
<1>7. \A k \in K : new[k].created >= rec[i].created
  <2> SUFFICES ASSUME NEW k \in K PROVE new[k].created >= rec[i].created
    OBVIOUS
  <2>1. S!NoLaterThan(i, k, new) /\ new[i] = rec[i]
    BY <1>2, <1>4, <1>6
  <2>2. CASE k = j
    BY <1>3, <1>4, <2>2 DEF AgesInOrder
  <2>3. CASE k # j
    BY <1>3, <1>4, <1>5, <2>1, <2>3 DEF AgesInOrder, S!NoLaterThan
  <2> QED BY <2>2, <2>3
<1>8. {k \in Jobs : rec'[k] # S!Absent /\ rec'[k].created >= rec[i].created} = K
  <2>1. \A k \in Jobs \ K : rec'[k] = S!Absent
    BY <1>1
  <2> QED BY <1>5, <1>7, <2>1
<1>9. Cardinality(K) = MaxJobs
  <2>1. IsFiniteSet(live)
    <3>1. live \in SUBSET Jobs
      BY <1>2
    <3> QED BY <3>1, FS_Subset, RunnerAssumption
  <2>2. Cardinality(live) # Cardinality(K)
    <3>1. K \in SUBSET live /\ K # live
      BY <1>2, <1>6
    <3> QED BY <2>1, <3>1, FS_Subset
  <2> QED BY <1>2, <2>2
<1> QED BY <1>8, <1>9

\* The store, whichever it is, forgets a record only for its age, or because a read found
\* it expired, or because max_jobs records no older than it are kept (store.py:73-100,
\* postgres_store.py).
THEOREM NothingIsForgottenWithoutCause == Spec => ForgottenForCause
<1> DEFINE Cause(j) ==
             \/ now - rec[j].updated > TTL
             \/ j \in dropping
             \/ Cardinality({i \in Jobs : rec'[i] # S!Absent /\ rec'[i].created >= rec[j].created}) = MaxJobs
<1>1. IInv /\ AgesInOrder /\ [Next]_vars => [\A j \in S!Present : rec'[j] = S!Absent => Cause(j)]_vars
  <2> SUFFICES ASSUME IInv, AgesInOrder, [Next]_vars, NEW i \in S!Present, rec'[i] = S!Absent
               PROVE  Cause(i)
    OBVIOUS
  <2>1. CASE UNCHANGED storeVars
    BY <2>1 DEF storeVars, S!Present
  <2>2. ASSUME NEW j \in Jobs, rec[j] = S!Absent, S!Create(j) PROVE Cause(i)
    BY <2>2, PushedOutByLater DEF S!Expired
  <2>3. ASSUME NEW j \in Jobs, NEW st \in S!RecStatus, NEW res \in Results \cup {None}, S!Update(j, st, res)
        PROVE  FALSE
    <3>1. rec \in [Jobs -> S!Record \cup {S!Absent}] /\ i \in Jobs /\ rec[i] # S!Absent
      BY DEF IInv, TypeOK, S!TypeOK, S!Present
    <3>2. rec[j] # S!Absent /\ rec[j] \in S!Record /\ i = j
      BY <2>3, <3>1 DEF S!Update
    <3>3. rec'[j] = [rec[j] EXCEPT !.status = st, !.result = res, !.updated = now]
      BY <2>3, <3>1, <3>2 DEF S!Update
    <3>4. rec'[j].status = st
      BY <3>2, <3>3 DEF S!Record
    <3> QED BY <3>2, <3>4 DEF S!Absent, S!RecStatus
  <2>4. ASSUME NEW j \in Jobs, S!Drop(j), j \in dropping \/ S!Expired(j) PROVE Cause(i)
    <3>1. i = j
      BY <2>4 DEF S!Drop, S!Present, IInv, TypeOK, S!TypeOK
    <3> QED BY <2>4, <3>1 DEF S!Expired
  <2> HIDE DEF Cause
  <2> QED BY <2>1, <2>2, <2>3, <2>4, StoreSteps
<1>2. Init => AgesInOrder
  BY DEF Init, S!Init, AgesInOrder, S!Present
<1>3. IInv /\ AgesInOrder /\ [Next]_vars => AgesInOrder'
  BY AgesStayInOrder
<1> QED BY <1>1, <1>2, <1>3, InvariantHolds, PTL DEF Spec, ForgottenForCause

-----------------------------------------------------------------------------
(* The page that runs checks: what it compares with is one of its own, for  *)
(* any number of files, ids, users and ticks.                                *)

\* Every step keeps the types.
LEMMA PageTypesStep == PageTypeOK /\ [PageNext]_pageVars => PageTypeOK'
<1> SUFFICES ASSUME PageTypeOK, [PageNext]_pageVars PROVE PageTypeOK'
  OBVIOUS
<1> USE PageAssumption DEF PageTypeOK, Nothing
<1>1. ASSUME NEW p \in Files \cup {Null}, Choose(p) PROVE PageTypeOK'
  BY <1>1 DEF Choose, memory, shown
<1>2. ASSUME NEW u \in Users \cup {Null}, SignIn(u) PROVE PageTypeOK'
  BY <1>2 DEF SignIn, memory, shown
<1>3. CASE Reset
  BY <1>3 DEF Reset
<1>4. CASE Click
  BY <1>4 DEF Click, CompareTo, authorVars, memory, shown
<1>5. CASE SubmitRefused
  BY <1>5 DEF SubmitRefused, Fails, authorVars, memory
<1>6. CASE Accepted
  <2>1. PICK j \in Ids :
          /\ jobs' = [jobs EXCEPT ![j] = [is |-> "open", paper |-> sent.paper, owner |-> asking,
                                          changed |-> paper # sent.paper]]
          /\ \/ Fails("failed")
             \/ /\ lastJob' = j /\ lastPaper' = paper
                /\ phase' = "sleep"
                /\ sent' = [sent EXCEPT !.compare = Null, !.job = j]
                /\ UNCHANGED <<authorVars, asking, shown, waited>>
    BY <1>6 DEF Accepted
  <2>2. jobs' \in [Ids -> [is : {"unborn", "open", "done", "failed", "gone"}, paper : Files \cup {Null},
                            owner : Users \cup {Null}, changed : BOOLEAN]]
    BY <2>1
  <2>3. CASE Fails("failed")
    BY <1>6, <2>2, <2>3 DEF Accepted, Fails, authorVars, memory, shown
  <2>4. CASE /\ lastJob' = j /\ lastPaper' = paper
             /\ phase' = "sleep"
             /\ sent' = [sent EXCEPT !.compare = Null, !.job = j]
             /\ UNCHANGED <<authorVars, asking, shown, waited>>
    <3>1. sent' \in [paper : Files \cup {Null}, compare : Ids \cup {Null}, job : Ids \cup {Null}]
      BY <2>4
    <3> QED
      BY <2>2, <2>4, <3>1 DEF authorVars, shown
  <2> QED
    BY <2>1, <2>3, <2>4
<1>7. CASE Wake
  BY <1>7 DEF Wake, authorVars, memory, shown
<1>8. CASE Open
  BY <1>8 DEF Open, authorVars, memory, shown
<1>9. CASE Done
  BY <1>9 DEF Done, authorVars, memory
<1>10. CASE NotDone
  BY <1>10 DEF NotDone, Fails, authorVars, memory
<1>11. CASE PageTick
  BY <1>11 DEF PageTick, authorVars, memory, shown
<1>12. ASSUME NEW j \in Ids, NEW s \in {"done", "failed", "gone"}, Becomes(j, s) PROVE PageTypeOK'
  BY <1>12 DEF Becomes, authorVars, memory, shown
<1>13. CASE UNCHANGED pageVars
  BY <1>13 DEF pageVars, authorVars, memory, shown
<1> QED
  BY <1>1, <1>2, <1>3, <1>4, <1>5, <1>6, <1>7, <1>8, <1>9, <1>10, <1>11, <1>12, <1>13 DEF PageNext, Page

\* The page's variables have their types.
THEOREM PageTypes == PageSpec => []PageTypeOK
<1>1. PageInit => PageTypeOK
  BY PageAssumption DEF PageInit, Nothing, PageTypeOK
<1> QED
  BY <1>1, PageTypesStep, PTL DEF PageSpec

\* What the page remembers of its last check is true of that job.
Remembered ==
  lastJob # Null =>
    /\ jobs[lastJob].is # "unborn"
    /\ jobs[lastJob].paper = lastPaper \/ jobs[lastJob].changed

\* A job that was given out keeps its paper.
LEMMA JobsKeepTheirPaper ==
  ASSUME PageTypeOK, [PageNext]_pageVars, NEW j \in Ids, jobs[j].is # "unborn"
  PROVE  jobs'[j].is # "unborn" /\ jobs'[j].paper = jobs[j].paper /\ jobs'[j].changed = jobs[j].changed
<1>1. CASE Accepted
  BY <1>1 DEF Accepted, PageTypeOK
<1>2. CASE \E i \in Ids, s \in {"done", "failed", "gone"} : Becomes(i, s)
  BY <1>2 DEF Becomes, PageTypeOK
<1>3. CASE UNCHANGED jobs
  BY <1>3
<1> QED
  BY <1>1, <1>2, <1>3 DEF PageNext, Page, Choose, SignIn, Reset, Click, SubmitRefused, Wake, Open, Done, NotDone, PageTick, pageVars

\* Every step keeps what is remembered, and with it what is compared.
LEMMA ComparesStep ==
  PageTypeOK /\ Remembered /\ ComparesItsOwn /\ [PageNext]_pageVars => Remembered' /\ ComparesItsOwn'
<1> SUFFICES ASSUME PageTypeOK, Remembered, ComparesItsOwn, [PageNext]_pageVars PROVE Remembered' /\ ComparesItsOwn'
  OBVIOUS
<1> USE PageAssumption
<1>1. lastJob # Null => jobs'[lastJob].is # "unborn" /\ (jobs'[lastJob].paper = lastPaper \/ jobs'[lastJob].changed)
  BY JobsKeepTheirPaper DEF PageTypeOK, Remembered
<1>2. sent.compare # Null =>
        jobs'[sent.compare].is # "unborn" /\ (jobs'[sent.compare].paper = sent.paper \/ jobs'[sent.compare].changed)
  BY JobsKeepTheirPaper DEF PageTypeOK, ComparesItsOwn
<1>3. CASE UNCHANGED <<lastJob, lastPaper, sent>>
  BY <1>1, <1>2, <1>3 DEF Remembered, ComparesItsOwn
<1>4. CASE UNCHANGED <<lastJob, lastPaper>> /\ sent' = Nothing
  BY <1>1, <1>4 DEF Remembered, ComparesItsOwn, Nothing
<1>5. CASE Reset
  BY <1>2, <1>5 DEF Reset, Remembered, ComparesItsOwn
<1>6. CASE Click
  BY <1>1, <1>6 DEF Click, CompareTo, Remembered, ComparesItsOwn, memory
<1>7. CASE Accepted
  <2>1. PICK j \in Ids :
          /\ jobs' = [jobs EXCEPT ![j] = [is |-> "open", paper |-> sent.paper, owner |-> asking,
                                          changed |-> paper # sent.paper]]
          /\ \/ Fails("failed")
             \/ /\ lastJob' = j /\ lastPaper' = paper
                /\ sent' = [sent EXCEPT !.compare = Null, !.job = j]
    BY <1>7 DEF Accepted
  <2>2. CASE Fails("failed")
    BY <1>4, <2>2 DEF Fails, memory
  <2>3. CASE lastJob' = j /\ lastPaper' = paper /\ sent' = [sent EXCEPT !.compare = Null, !.job = j]
    <3>1. jobs'[j].is # "unborn" /\ jobs'[j].paper = sent.paper /\ jobs'[j].changed = (paper # sent.paper)
      BY <2>1 DEF PageTypeOK
    <3>2. sent'.compare = Null
      BY <2>3 DEF PageTypeOK
    <3> QED
      BY <2>3, <3>1, <3>2 DEF Remembered, ComparesItsOwn
  <2> QED
    BY <2>1, <2>2, <2>3
<1> QED
  BY <1>3, <1>4, <1>5, <1>6, <1>7
  DEF PageNext, Page, Choose, SignIn, SubmitRefused, Fails, Wake, Open, Done, NotDone, PageTick, Becomes, pageVars, memory

\* What the page asks the server to compare with is a check of its own of that file.
THEOREM PageComparesItsOwn == PageSpec => []ComparesItsOwn
<1>1. PageInit => Remembered /\ ComparesItsOwn
  BY DEF PageInit, Nothing, Remembered, ComparesItsOwn
<1> QED
  BY <1>1, PageTypes, ComparesStep, PTL DEF PageSpec
=============================================================================

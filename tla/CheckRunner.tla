---------------------------- MODULE CheckRunner ----------------------------
(***************************************************************************)
(* backend/worker/runner.py over the executor, the job store and the       *)
(* result cache: the life of an originality check, from the POST that      *)
(* submits it to the record a client polls.                                *)
(*                                                                         *)
(* One event loop runs the request handlers of app/routers/check.py.       *)
(* runner.submit() has no await in it, so the loop carries one submission  *)
(* at a time from store.create() to the answer, while the pool's threads   *)
(* run _run and clients poll.  An action is one call into the store, the   *)
(* cache or the executor, each atomic under its own lock, or the pipeline. *)
(***************************************************************************)
EXTENDS Integers, FiniteSets, Sequences

CONSTANTS
  Jobs,        \* one submission each, under the id of its record
  RequestOf,   \* what was uploaded: [name, text, academic] for each job
  MaxWorkers, MaxPending,           \* worker_threads, max_pending_jobs
  StartMayFail,                     \* the system may refuse the pool a new thread
  MaxJobs, TTL, Durable,            \* max_jobs, job_ttl_seconds, database_url is set
  CacheSize, CacheTTL,              \* result_cache_size, result_cache_ttl_seconds
  MaxTime,     \* bound of the clock in the model
  None

Idle == None

\* What CheckRequest.content_hash() tells apart: the academic flag and the bytes
\* it hashes, and not the file's name.  `text` stands for those bytes as the hash
\* joins and frames them (runner.py:44-51); two texts are two digests.
Key(r) == [text |-> r.text, academic |-> r.academic]
KeyOf_NoFlag(j) == [text |-> RequestOf[j].text]
KeyOf(j) == Key(RequestOf[j])
Keys == {KeyOf(j) : j \in Jobs}

\* A finished check's result: the job whose pipeline run it is (its own, or an
\* earlier one's through the cache) and the job it was compared with.
Results == [by : Jobs, recheck : Jobs \cup {None}]

ASSUME RunnerAssumption ==
  /\ IsFiniteSet(Jobs)
  /\ None \notin Jobs /\ None \notin Results
  /\ MaxWorkers \in Nat \ {0}
  /\ MaxPending \in Nat /\ MaxJobs \in Nat /\ TTL \in Nat
  /\ StartMayFail \in BOOLEAN
  /\ Durable \in BOOLEAN
  /\ MaxTime \in Nat
  /\ CacheSize \in Nat \ {0}
  /\ CacheTTL \in Nat

VARIABLES
  pending, running, queue, threads, sub, work, pool,   \* the executor
  rec, births, now,                                    \* the job store, the clock
  order, data,                                         \* the result cache
  loop,      \* the job whose submission the event loop is handling, or Idle
  prev,      \* the job each check is compared with (`compare_to`), or None
  step,      \* where _run stands for a job
  made,      \* _run's `result`: the job whose pipeline run it holds
  dropping,  \* expired rows that a get() of the Postgres store is about to delete
  conn,      \* the Postgres store's connection pool
  lost       \* auxiliary: which updates of a job's record have raised

executorVars == <<pending, running, queue, threads, sub, work, pool>>
storeVars    == <<rec, births>>
cacheVars    == <<order, data>>
runVars      == <<prev, step, made>>
vars == <<pending, running, queue, threads, sub, work, pool, rec, births, now,
          order, data, loop, prev, step, made, dropping, conn, lost>>

X == INSTANCE BoundedExecutor WITH Tasks <- Jobs
S == INSTANCE JobStore WITH NoResult <- None
C == INSTANCE TTLCache WITH Values <- Jobs, MaxSize <- CacheSize, TTL <- CacheTTL

Step == {"mark", "lookup", "compute", "save", "record", "fail", "end"}

TypeOK ==
  /\ X!TypeOK
  /\ S!TypeOK
  /\ C!TypeOK
  /\ now \in 0..MaxTime
  /\ loop \in Jobs \cup {Idle}
  /\ prev \in [Jobs -> Jobs \cup {None}]
  /\ step \in [Jobs -> Step]
  /\ made \in [Jobs -> Jobs \cup {None}]
  /\ dropping \subseteq Jobs
  /\ conn \in {"open", "closed"}
  /\ lost \in [Jobs -> SUBSET {"running", "done", "error"}]

Init ==
  /\ X!Init
  /\ S!Init
  /\ C!Init
  /\ now = 0
  /\ loop = Idle
  /\ prev = [j \in Jobs |-> None]
  /\ step = [j \in Jobs |-> "mark"]
  /\ made = [j \in Jobs |-> None]
  /\ dropping = {}
  /\ conn = "open"
  /\ lost = [j \in Jobs |-> {}]

-----------------------------------------------------------------------------
(* The event loop: CheckRunner.submit(). *)

\* Earlier checks a submission may be compared with: finished, not expired.
Comparable == {p \in Jobs : S!Readable(p) /\ rec[p].status = "done"}

\* store.update().  The in-memory one writes.  The Postgres one writes, or raises,
\* always once it is closed and at any time before (no connection free in time, a
\* connection lost): it then has written nothing, a commit whose answer alone was
\* lost being left out.
Written(j, st, res) == conn = "open" /\ S!Update(j, st, res) /\ UNCHANGED lost
Raises(j, st) == Durable /\ lost' = [lost EXCEPT ![j] = @ \cup {st}] /\ UNCHANGED storeVars

\* store.create() for a new check, compared with p or with nothing.  One that
\* raises is rolled back and ends the request with nothing changed.
CreateRecord(j, p) ==
  /\ loop = Idle /\ pool = "open" /\ sub[j] = "new"
  /\ p \in Comparable \cup {None}
  /\ S!Create(j)
  /\ loop' = j
  /\ prev' = [prev EXCEPT ![j] = p]
  /\ UNCHANGED <<executorVars, now, cacheVars, step, made, dropping, conn, lost>>

\* executor.submit(): counted among the pending, or QueueFull.
Admit(j) ==
  /\ loop = j
  /\ X!Admit(j) \/ X!Refuse(j)
  /\ UNCHANGED <<storeVars, now, cacheVars, loop, runVars, dropping, conn, lost>>

\* executor.submit(): the pool has the task, the client its 202.
Enqueue(j) ==
  /\ loop = j
  /\ X!Enqueue(j)
  /\ loop' = Idle
  /\ UNCHANGED <<storeVars, now, cacheVars, runVars, dropping, conn, lost>>

\* QueueFull: the record created for the refused check says so, the client
\* gets its 503; if that update raises, a 500.
MarkBusy(j) ==
  /\ loop = j /\ sub[j] = "refused"
  /\ Written(j, "error", None) \/ Raises(j, "error")
  /\ loop' = Idle
  /\ UNCHANGED <<executorVars, now, cacheVars, runVars, dropping, conn>>

\* "can't start new thread" is not QueueFull: the executor takes its count back,
\* the request ends with a 500, and the record stays as it is though the task is
\* in the pool's queue.
NoThread(j) ==
  /\ loop = j
  /\ \/ X!EnqueueNoThread(j) /\ UNCHANGED loop
     \/ X!Undo(j) /\ loop' = Idle
  /\ UNCHANGED <<storeVars, now, cacheVars, runVars, dropping, conn, lost>>

-----------------------------------------------------------------------------
(* A pool thread: CheckRunner._run(). *)

TakeOne(j) ==
  /\ X!Take(j) \/ X!Begin(j)
  /\ UNCHANGED <<storeVars, now, cacheVars, loop, runVars, dropping, conn, lost>>

At(j, s) == work[j] = "running" /\ step[j] = s
Goto(j, s) == step' = [step EXCEPT ![j] = s]

\* store.update(status="running"), before the try: an exception ends _run.
MarkRunning(j) ==
  /\ At(j, "mark")
  /\ \/ Written(j, "running", None) /\ Goto(j, "lookup")
     \/ Raises(j, "running") /\ Goto(j, "end")
  /\ UNCHANGED <<executorVars, now, cacheVars, loop, prev, made, dropping, conn>>

\* cache.get(key)
Lookup(j) ==
  /\ At(j, "lookup")
  /\ \/ /\ C!Hit(KeyOf(j))
        /\ made' = [made EXCEPT ![j] = data[KeyOf(j)].value]
        /\ Goto(j, "record")
     \/ C!Miss(KeyOf(j)) /\ Goto(j, "compute") /\ UNCHANGED made
  /\ UNCHANGED <<executorVars, storeVars, now, loop, prev, dropping, conn, lost>>

\* _compute(): the pipeline returns a result, or raises.
Compute(j) ==
  /\ At(j, "compute")
  /\ \/ made' = [made EXCEPT ![j] = j] /\ Goto(j, "save")
     \/ Goto(j, "fail") /\ UNCHANGED made
  /\ UNCHANGED <<executorVars, storeVars, now, cacheVars, loop, prev, dropping, conn, lost>>

\* cache.put(key, result)
Save(j) ==
  /\ At(j, "save")
  /\ C!Put(KeyOf(j), made[j])
  /\ Goto(j, "record")
  /\ UNCHANGED <<executorVars, storeVars, now, loop, prev, made, dropping, conn, lost>>

\* The cached or computed result, with the comparison the request asked for.
ResultOf(j) == [by |-> made[j], recheck |-> prev[j]]

\* compare() if asked for, then store.update(status="done"), both inside the try:
\* an exception of either is a failure.
RecordDone(j) ==
  /\ At(j, "record")
  /\ \/ Written(j, "done", ResultOf(j)) /\ Goto(j, "end")
     \/ Raises(j, "done") /\ Goto(j, "fail")
     \/ prev[j] # None /\ Goto(j, "fail") /\ UNCHANGED <<storeVars, lost>>
  /\ UNCHANGED <<executorVars, now, cacheVars, loop, prev, made, dropping, conn>>

RecordError_Swallowed(j) ==
  /\ At(j, "fail")
  /\ Goto(j, "end") /\ UNCHANGED storeVars
  /\ UNCHANGED <<executorVars, now, cacheVars, loop, prev, made, dropping, conn, lost>>

\* store.update(status="error") of either except branch; nothing catches its own
\* exception, which ends _run.
RecordError(j) ==
  /\ At(j, "fail")
  /\ Written(j, "error", None) \/ Raises(j, "error")
  /\ Goto(j, "end")
  /\ UNCHANGED <<executorVars, now, cacheVars, loop, prev, made, dropping, conn>>

\* _run returns to the executor's wrapper, whose finally block follows.
Leave(j) ==
  /\ (At(j, "end") /\ X!Return(j)) \/ X!Finish(j)
  /\ UNCHANGED <<storeVars, now, cacheVars, loop, runVars, dropping, conn, lost>>

-----------------------------------------------------------------------------
(* Clients, the clock, the end of the process. *)

\* store.get() of an expired record.  In memory it is deleted under the lock;
\* the handler runs on the event loop.
PollExpired(j) ==
  /\ ~Durable /\ loop = Idle
  /\ rec[j] # S!Absent /\ S!Expired(j)
  /\ S!Drop(j)
  /\ UNCHANGED <<executorVars, now, cacheVars, loop, runVars, dropping, conn, lost>>

\* The same on any replica over Postgres: the SELECT sees the row expired ...
PollSelect(j) ==
  /\ Durable
  /\ rec[j] # S!Absent /\ S!Expired(j)
  /\ dropping' = dropping \cup {j}
  /\ UNCHANGED <<executorVars, storeVars, now, cacheVars, loop, runVars, conn, lost>>

\* ... and the DELETE removes it, whatever it has become.
PollDelete(j) ==
  /\ j \in dropping
  /\ S!Drop(j)
  /\ dropping' = dropping \ {j}
  /\ UNCHANGED <<executorVars, now, cacheVars, loop, runVars, conn, lost>>

Tick ==
  /\ now < MaxTime
  /\ now' = now + 1
  /\ UNCHANGED <<executorVars, storeVars, cacheVars, loop, runVars, dropping, conn, lost>>

\* The lifespan's end, once no request is being handled: executor.shutdown().
Shutdown ==
  /\ loop = Idle
  /\ X!Shutdown
  /\ UNCHANGED <<storeVars, now, cacheVars, loop, runVars, dropping, conn, lost>>

\* Right after it, store.close(), which only the Postgres store has.
CloseStore ==
  /\ pool = "shut" /\ Durable /\ conn = "open"
  /\ conn' = "closed"
  /\ UNCHANGED <<executorVars, storeVars, now, cacheVars, loop, runVars, dropping, lost>>

-----------------------------------------------------------------------------

SubmitStep(j) == Admit(j) \/ Enqueue(j) \/ NoThread(j) \/ MarkBusy(j)

WorkerStep(j) ==
  \/ TakeOne(j) \/ MarkRunning(j) \/ Lookup(j) \/ Compute(j) \/ Save(j)
  \/ RecordDone(j) \/ RecordError(j) \/ Leave(j)

Next ==
  \/ \E j \in Jobs : \/ \E p \in Jobs \cup {None} : CreateRecord(j, p)
                     \/ SubmitStep(j)
                     \/ WorkerStep(j)
                     \/ PollExpired(j) \/ PollSelect(j) \/ PollDelete(j)
  \/ Tick
  \/ Shutdown
  \/ CloseStore

\* Threads run.  Nobody has to submit, poll or shut down.
Fairness ==
  /\ \A j \in Jobs : WF_vars(SubmitStep(j)) /\ WF_vars(WorkerStep(j))

Spec == Init /\ [][Next]_vars /\ Fairness

-----------------------------------------------------------------------------
(* Properties *)

Submitted(j) == sub[j] # "new" \/ loop = j

\* The life of a job as a client sees it, for JobLifecycle.
lifeOf ==
  [j \in Jobs |-> IF ~Submitted(j) THEN "unborn"
                  ELSE IF rec[j] = S!Absent THEN "gone" ELSE rec[j].status]

Life == INSTANCE JobLifecycle WITH status <- lifeOf

\* The whole service implements the life cycle clients rely on: no late write
\* of a worker brings back an expired or evicted job, a refused check never
\* runs, and an outcome, once readable, is final.
ImplementsLifecycle == Life!Spec

\* A finished check shows a result of the very bytes it was asked about, its
\* own or through the cache, compared with the job it asked for.
ResultIsOwn ==
  \A j \in S!Present : rec[j].status = "done" =>
    /\ rec[j].result # None
    /\ Key(RequestOf[rec[j].result.by]) = Key(RequestOf[j])
    /\ rec[j].result.recheck = prev[j]

Refused(j) == sub[j] = "refused" /\ loop # j

\* _run is over, or the check was refused.
Over(j) == work[j] \in {"leaving", "finished"} \/ Refused(j)

\* runner.py:4-6, "record the outcome in the job store": a check that is over tells,
\* in the record if it is still there, how it ended, and where it does not an update
\* that raised is why.  An outcome that could not be recorded as "done" is recorded
\* as "error" unless that raises too; the record is left "running" only then, and
\* "queued" only if the update before the try raised and the check never ran, or the
\* one that marks a refused check did.
OutcomeRecorded ==
  \A j \in S!Present : Over(j) =>
    \/ rec[j].status \in {"done", "error"}
    \/ rec[j].status = "running" /\ "error" \in lost[j]
    \/ rec[j].status = "queued" /\ made[j] = None /\ lost[j] = IF Refused(j) THEN {"error"} ELSE {"running"}

\* The store forgets a job only for age, or because max_jobs were created after it.
\* Its status does not count: a check that is queued or running is forgotten alike.
ForgottenForCause ==
  [][\A j \in S!Present : rec'[j] = S!Absent =>
       \/ now - rec[j].updated > TTL
       \/ j \in dropping
       \/ Cardinality({i \in Jobs : rec'[i] # S!Absent /\ rec'[i].created >= rec[j].created}) = MaxJobs]_vars

\* An accepted check ends, with an outcome or forgotten, unless shutdown() cancelled it
\* while it was queued or an update of its record raised.
AcceptedSettles ==
  \A j \in Jobs : sub[j] = "accepted" ~>
    (rec[j] = S!Absent \/ rec[j].status \in {"done", "error"} \/ work[j] = "cancelled" \/ lost[j] # {})

=============================================================================

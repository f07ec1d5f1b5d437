----------------------- MODULE BoundedExecutorProofs -----------------------
(***************************************************************************)
(* Theorems about BoundedExecutor, for any number of tasks, threads and    *)
(* places in the backlog.  HardCap is not inductive: it follows from the   *)
(* counter being exact, which in turn needs to know which tasks the pool's *)
(* queue may hold, and that no failed submission left one there.           *)
(***************************************************************************)
EXTENDS BoundedExecutor, FiniteSetTheorems, TLAPS

\* The queue lists queued tasks, each of them once.
QueueOK ==
  /\ \A i \in 1..Len(queue) : work[queue[i]] = "queued"
  /\ \A i, j \in 1..Len(queue) : queue[i] = queue[j] => i = j

\* The pool knows no task that it was not given.
OnlyGiven == \A t \in Tasks : sub[t] \in {"new", "counted", "refused"} => work[t] = "none"

\* The pool never runs more than its threads, and the running counter is exact.
ThreadsOK == Cardinality(Busy) <= threads /\ running = Cardinality(Running)

\* Until a thread could not be started, the pending counter is exact and capped.
BacklogOK == CleanRaises => pending = Cardinality(Pending) /\ pending <= MaxPending

\* The inductive invariant.
IInv == TypeOK /\ QueueOK /\ OnlyGiven /\ ThreadsOK /\ BacklogOK

LEMMA FiniteParts ==
  /\ IsFiniteSet(Busy) /\ Cardinality(Busy) \in Nat
  /\ IsFiniteSet(Pending) /\ Cardinality(Pending) \in Nat
  /\ IsFiniteSet(Waiting) /\ Cardinality(Waiting) \in Nat
  /\ IsFiniteSet(Running) /\ Cardinality(Running) \in Nat
<1>1. Busy \subseteq Tasks /\ Pending \subseteq Tasks /\ Waiting \subseteq Tasks /\ Running \subseteq Tasks
  BY DEF Busy, Pending, Waiting, Running
<1>2. IsFiniteSet(Busy) /\ IsFiniteSet(Pending) /\ IsFiniteSet(Waiting) /\ IsFiniteSet(Running)
  BY <1>1, FS_Subset, ExecutorAssumption
<1> QED
  BY <1>2, FS_CardinalityType

\* Every operation of the executor preserves the types of its variables.
LEMMA TypeStep == TypeOK /\ [Next]_vars => TypeOK'
<1> SUFFICES ASSUME TypeOK, [Next]_vars PROVE TypeOK'
  OBVIOUS
<1> USE ExecutorAssumption DEF TypeOK, SubState, WorkState
<1>1. CASE Shutdown
  BY <1>1 DEF Shutdown
<1>2. ASSUME NEW t \in Tasks, SubmitStep(t) PROVE TypeOK'
  <2>1. CASE Admit(t) \/ Refuse(t) \/ EnqueueFails(t) \/ Undo(t)
    BY <2>1 DEF Admit, Refuse, EnqueueFails, Undo
  <2>2. CASE Enqueue(t) \/ EnqueueNoThread(t)
    <3>1. threads' \in 0..MaxWorkers
      BY <2>2 DEF Enqueue, EnqueueNoThread, NeedsThread
    <3>2. queue' = Append(queue, t)
      BY <2>2 DEF Enqueue, EnqueueNoThread
    <3>3. /\ sub' \in [Tasks -> SubState] /\ work' \in [Tasks -> WorkState]
          /\ pending' = pending /\ running' = running /\ pool' = pool
      BY <2>2 DEF Enqueue, EnqueueNoThread
    <3>4. queue' \in Seq(Tasks)
      BY <3>2
    <3> QED BY <3>1, <3>3, <3>4
  <2> QED BY <1>2, <2>1, <2>2 DEF SubmitStep
<1>3. ASSUME NEW t \in Tasks, PoolStep(t) PROVE TypeOK'
  <2>1. CASE Take(t)
    BY <2>1 DEF Take
  <2>2. CASE Begin(t) \/ Return(t) \/ Finish(t)
    BY <2>2 DEF Begin, Return, Finish
  <2> QED BY <1>3, <2>1, <2>2 DEF PoolStep
<1>4. CASE UNCHANGED vars
  BY <1>4 DEF vars
<1> QED BY <1>1, <1>2, <1>3, <1>4 DEF Next

LEMMA InitType == Init => TypeOK
BY ExecutorAssumption DEF Init, TypeOK, SubState, WorkState

\* The executor's variables keep their types.
THEOREM TypeCorrect == Spec => []TypeOK
BY InitType, TypeStep, PTL DEF Spec, SafeSpec

LEMMA InitIInv == Init => IInv
<1> SUFFICES ASSUME Init PROVE IInv
  OBVIOUS
<1>1. Pending = {} /\ Running = {} /\ Busy = {}
  BY DEF Init, Pending, Running, Busy
<1>2. TypeOK /\ QueueOK /\ OnlyGiven
  BY ExecutorAssumption DEF Init, TypeOK, SubState, WorkState, QueueOK, OnlyGiven
<1>3. ThreadsOK /\ BacklogOK
  BY <1>1, FS_EmptySet, ExecutorAssumption DEF Init, ThreadsOK, BacklogOK
<1> QED BY <1>2, <1>3 DEF IInv

\* What happens to a cardinality when one task joins or leaves a set.
LEMMA CountStep ==
  ASSUME NEW A, NEW B, NEW x, IsFiniteSet(A)
  PROVE  /\ B = A \cup {x} /\ x \notin A => Cardinality(B) = Cardinality(A) + 1
         /\ B = A \ {x} /\ x \in A => Cardinality(B) = Cardinality(A) - 1
BY FS_AddElement, FS_RemoveElement

\* A task that a failed submission left in the pool is never taken back, so the
\* submissions were clean before every step after which they are.
LEMMA CleanBefore == TypeOK /\ OnlyGiven /\ [Next]_vars /\ CleanRaises' => CleanRaises
<1> SUFFICES ASSUME TypeOK, OnlyGiven, [Next]_vars, CleanRaises',
                    NEW t \in Tasks, sub[t] \in {"undo", "raised"}
             PROVE work[t] = "none"
  BY DEF CleanRaises
<1>1. sub'[t] \in {"undo", "raised"} /\ (work'[t] = "none" => work[t] = "none")
  BY DEF Next, SubmitStep, PoolStep, Shutdown, Admit, Refuse, Enqueue, EnqueueNoThread, EnqueueFails,
         Undo, Take, Begin, Return, Finish, vars, TypeOK
<1> QED BY <1>1 DEF CleanRaises

\* The queue of the next state, when a new task was put at its end.
LEMMA QueueGrows ==
  ASSUME TypeOK, QueueOK, NEW t \in Tasks, work[t] = "none",
         queue' = Append(queue, t), work' = [work EXCEPT ![t] = "queued"]
  PROVE  QueueOK'
<1> USE DEF TypeOK, WorkState
<1>1. Len(queue') = Len(queue) + 1 /\ queue'[Len(queue) + 1] = t
      /\ \A i \in 1..Len(queue) : queue'[i] = queue[i]
  OBVIOUS
<1>2. \A i \in 1..Len(queue) : queue[i] \in Tasks /\ queue[i] # t
  BY DEF QueueOK
<1>3. \A i \in 1..Len(queue') : i \in 1..Len(queue) \/ i = Len(queue) + 1
  BY <1>1
<1>4. \A i \in 1..Len(queue') : work'[queue'[i]] = "queued"
  BY <1>1, <1>2, <1>3 DEF QueueOK
<1>5. \A i, k \in 1..Len(queue') : queue'[i] = queue'[k] => i = k
  BY <1>1, <1>2, <1>3 DEF QueueOK
<1> QED BY <1>4, <1>5 DEF QueueOK

\* The inductive step.
LEMMA StepIInv == IInv /\ [Next]_vars => IInv'
<1> SUFFICES ASSUME IInv, [Next]_vars PROVE IInv'
  OBVIOUS
<1> USE ExecutorAssumption DEF IInv, TypeOK, SubState, WorkState
<1>F. /\ IsFiniteSet(Pending) /\ Cardinality(Pending) \in Nat
      /\ IsFiniteSet(Running) /\ Cardinality(Running) \in Nat
      /\ IsFiniteSet(Busy) /\ Cardinality(Busy) \in Nat
  BY FiniteParts
<1>T. TypeOK'
  BY TypeStep
<1>C. CleanRaises' => CleanRaises
  BY CleanBefore
<1>1. CASE Shutdown
  <2>1. Pending' = Pending /\ Running' = Running /\ Busy' = Busy
    BY <1>1 DEF Shutdown, Pending, Running, Busy
  <2>2. QueueOK' /\ OnlyGiven'
    BY <1>1 DEF Shutdown, QueueOK, OnlyGiven
  <2> QED BY <1>1, <1>T, <1>C, <2>1, <2>2 DEF Shutdown, ThreadsOK, BacklogOK
<1>2. ASSUME NEW t \in Tasks, Admit(t) PROVE IInv'
  <2>1. Pending' = Pending \cup {t} /\ t \notin Pending /\ Running' = Running /\ Busy' = Busy
    BY <1>2 DEF Admit, Pending, Running, Busy, OnlyGiven
  <2>2. QueueOK' /\ OnlyGiven'
    BY <1>2 DEF Admit, QueueOK, OnlyGiven
  <2>3. Cardinality(Pending') = Cardinality(Pending) + 1
    BY <1>F, <2>1, CountStep
  <2> QED BY <1>2, <1>F, <1>T, <1>C, <2>1, <2>2, <2>3 DEF Admit, ThreadsOK, BacklogOK
<1>3. ASSUME NEW t \in Tasks, Refuse(t) \/ EnqueueFails(t) PROVE IInv'
  <2>1. Pending' = Pending /\ Running' = Running /\ Busy' = Busy
    BY <1>3 DEF Refuse, EnqueueFails, Pending, Running, Busy, OnlyGiven
  <2>2. QueueOK' /\ OnlyGiven'
    BY <1>3 DEF Refuse, EnqueueFails, QueueOK, OnlyGiven
  <2> QED BY <1>3, <1>T, <1>C, <2>1, <2>2 DEF Refuse, EnqueueFails, ThreadsOK, BacklogOK
<1>4. ASSUME NEW t \in Tasks, Enqueue(t) PROVE IInv'
  <2>1. Pending' = Pending /\ Running' = Running /\ Busy' = Busy
    BY <1>4 DEF Enqueue, Pending, Running, Busy, OnlyGiven
  <2>2. OnlyGiven'
    BY <1>4 DEF Enqueue, OnlyGiven
  <2>3. QueueOK'
    BY <1>4, QueueGrows DEF Enqueue, OnlyGiven
  <2>4. threads' \in Nat /\ threads <= threads'
    BY <1>4 DEF Enqueue, NeedsThread
  <2> QED BY <1>4, <1>F, <1>T, <1>C, <2>1, <2>2, <2>3, <2>4 DEF Enqueue, ThreadsOK, BacklogOK
<1>5. ASSUME NEW t \in Tasks, EnqueueNoThread(t) PROVE IInv'
  <2>1. Running' = Running /\ Busy' = Busy /\ ~CleanRaises'
    BY <1>5 DEF EnqueueNoThread, Running, Busy, OnlyGiven, CleanRaises
  <2>2. QueueOK' /\ OnlyGiven'
    BY <1>5, QueueGrows DEF EnqueueNoThread, OnlyGiven
  <2> QED BY <1>5, <1>T, <2>1, <2>2 DEF EnqueueNoThread, ThreadsOK, BacklogOK
<1>6. ASSUME NEW t \in Tasks, Undo(t) PROVE IInv'
  <2>1. Running' = Running /\ Busy' = Busy
    BY <1>6 DEF Undo, Running, Busy
  <2>2. QueueOK' /\ OnlyGiven'
    BY <1>6 DEF Undo, QueueOK, OnlyGiven
  <2>3. BacklogOK'
    <3> SUFFICES ASSUME CleanRaises' PROVE pending' = Cardinality(Pending') /\ pending' <= MaxPending
      BY DEF BacklogOK
    <3>1. Pending' = Pending \ {t} /\ t \in Pending
      BY <1>6, <1>C DEF Undo, Pending, CleanRaises
    <3>2. Cardinality(Pending') = Cardinality(Pending) - 1
      BY <1>F, <3>1, CountStep
    <3> QED BY <1>6, <1>F, <1>C, <3>2 DEF Undo, BacklogOK
  <2> QED BY <1>6, <1>T, <2>1, <2>2, <2>3 DEF Undo, ThreadsOK
<1>7. ASSUME NEW t \in Tasks, Take(t) PROVE IInv'
  <2>1. work[t] = "queued" /\ work' = [work EXCEPT ![t] = "taken"]
    BY <1>7 DEF Take, QueueOK
  <2>2. Pending' = Pending /\ Running' = Running /\ Busy' = Busy \cup {t} /\ t \notin Busy
    BY <1>7, <2>1 DEF Take, Pending, Running, Busy
  <2>3. Cardinality(Busy') = Cardinality(Busy) + 1
    BY <1>F, <2>2, CountStep
  <2>4. OnlyGiven'
    BY <1>7, <2>1 DEF Take, OnlyGiven
  <2>5. QueueOK'
    <3>1. Len(queue') = Len(queue) - 1 /\ Len(queue) >= 1
          /\ \A i \in 1..Len(queue') : queue'[i] = queue[i + 1]
      BY <1>7 DEF Take
    <3>2. \A i \in 1..Len(queue') : queue[i + 1] \in Tasks /\ queue[i + 1] # t
      BY <1>7, <3>1 DEF Take, QueueOK
    <3>3. \A i \in 1..Len(queue') : i \in 1..Len(queue) /\ i + 1 \in 1..Len(queue)
      BY <3>1
    <3>4. \A i \in 1..Len(queue') : work'[queue'[i]] = "queued"
      BY <2>1, <3>1, <3>2, <3>3 DEF QueueOK
    <3>5. \A i, k \in 1..Len(queue') : queue'[i] = queue'[k] => i = k
      <4> SUFFICES ASSUME NEW i \in 1..Len(queue'), NEW k \in 1..Len(queue'), queue'[i] = queue'[k]
                   PROVE i = k
        OBVIOUS
      <4>1. i + 1 = k + 1
        BY <3>1, <3>3 DEF QueueOK
      <4> QED BY <4>1, <3>3
    <3> QED BY <3>4, <3>5 DEF QueueOK
  <2> QED BY <1>7, <1>F, <1>T, <1>C, <2>2, <2>3, <2>4, <2>5 DEF Take, ThreadsOK, BacklogOK
<1>8. ASSUME NEW t \in Tasks, Begin(t) PROVE IInv'
  <2>1. Running' = Running \cup {t} /\ t \notin Running /\ Busy' = Busy
    BY <1>8 DEF Begin, Running, Busy
  <2>2. QueueOK' /\ OnlyGiven'
    BY <1>8 DEF Begin, QueueOK, OnlyGiven
  <2>3. Cardinality(Running') = Cardinality(Running) + 1
    BY <1>F, <2>1, CountStep
  <2>4. BacklogOK'
    <3> SUFFICES ASSUME CleanRaises' PROVE pending' = Cardinality(Pending') /\ pending' <= MaxPending
      BY DEF BacklogOK
    <3>1. sub[t] \notin {"counted", "undo"}
      BY <1>8, <1>C DEF Begin, OnlyGiven, CleanRaises
    <3>2. Pending' = Pending \ {t} /\ t \in Pending
      BY <1>8, <3>1 DEF Begin, Pending
    <3>3. Cardinality(Pending') = Cardinality(Pending) - 1
      BY <1>F, <3>2, CountStep
    <3> QED BY <1>8, <1>F, <1>C, <3>3 DEF Begin, BacklogOK
  <2> QED BY <1>8, <1>F, <1>T, <2>1, <2>2, <2>3, <2>4 DEF Begin, ThreadsOK
<1>9. ASSUME NEW t \in Tasks, Return(t) PROVE IInv'
  <2>1. Pending' = Pending /\ Running' = Running /\ Busy' = Busy
    BY <1>9 DEF Return, Pending, Running, Busy
  <2>2. QueueOK' /\ OnlyGiven'
    BY <1>9 DEF Return, QueueOK, OnlyGiven
  <2> QED BY <1>9, <1>T, <1>C, <2>1, <2>2 DEF Return, ThreadsOK, BacklogOK
<1>10. ASSUME NEW t \in Tasks, Finish(t) PROVE IInv'
  <2>1. /\ Pending' = Pending /\ Running' = Running \ {t} /\ t \in Running
        /\ Busy' = Busy \ {t} /\ t \in Busy
    BY <1>10 DEF Finish, Pending, Running, Busy
  <2>2. QueueOK' /\ OnlyGiven'
    BY <1>10 DEF Finish, QueueOK, OnlyGiven
  <2>3. Cardinality(Running') = Cardinality(Running) - 1 /\ Cardinality(Busy') = Cardinality(Busy) - 1
    BY <1>F, <2>1, CountStep
  <2> QED BY <1>10, <1>F, <1>T, <1>C, <2>1, <2>2, <2>3 DEF Finish, ThreadsOK, BacklogOK
<1>11. CASE UNCHANGED vars
  <2>1. Pending' = Pending /\ Running' = Running /\ Busy' = Busy
    BY <1>11 DEF vars, Pending, Running, Busy
  <2> QED BY <1>11, <1>T, <1>C, <2>1 DEF vars, QueueOK, OnlyGiven, ThreadsOK, BacklogOK
<1> QED
  BY <1>1, <1>2, <1>3, <1>4, <1>5, <1>6, <1>7, <1>8, <1>9, <1>10, <1>11 DEF Next, SubmitStep, PoolStep

LEMMA InvariantHolds == SafeSpec => []IInv
BY InitIInv, StepIInv, PTL DEF SafeSpec

LEMMA CapFollows == IInv => HardCapIfClean
<1> SUFFICES ASSUME IInv, CleanRaises PROVE HardCap
  BY DEF HardCapIfClean
<1>1. Waiting \subseteq Pending
  BY DEF Waiting, Pending
<1>2. Cardinality(Waiting) <= Cardinality(Pending)
  BY <1>1, FiniteParts, FS_Subset
<1> QED
  BY <1>2, FiniteParts, ExecutorAssumption DEF IInv, BacklogOK, HardCap, TypeOK

\* Where the system always has a thread to give, no submission that raises leaves
\* its task behind.
LEMMA AlwaysClean == ASSUME StartMayFail = FALSE PROVE SafeSpec => []CleanRaises
<1>1. Init => CleanRaises
  BY DEF Init, CleanRaises
<1>2. IInv /\ CleanRaises /\ [Next]_vars => CleanRaises'
  <2> SUFFICES ASSUME IInv, CleanRaises, [Next]_vars, NEW t \in Tasks, sub'[t] \in {"undo", "raised"}
               PROVE work'[t] = "none"
    BY DEF CleanRaises
  <2> USE DEF IInv, TypeOK, SubState, WorkState
  <2>1. ~EnqueueNoThread(t)
    BY DEF EnqueueNoThread
  <2>2. (work[t] = "none" /\ sub[t] # "counted") \/ EnqueueFails(t)
    BY <2>1 DEF Next, SubmitStep, PoolStep, Shutdown, Admit, Refuse, Enqueue, EnqueueNoThread, EnqueueFails,
           Undo, Take, Begin, Return, Finish, vars, CleanRaises
  <2>3. work[t] = "none"
    BY <2>2 DEF EnqueueFails, OnlyGiven
  <2>4. sub[t] # "new"
    BY DEF Next, SubmitStep, PoolStep, Shutdown, Admit, Refuse, Enqueue, EnqueueNoThread, EnqueueFails,
           Undo, Take, Begin, Return, Finish, vars
  <2>5. \A i \in 1..Len(queue) : queue[i] # t
    BY <2>3 DEF QueueOK
  <2> QED
    BY <2>3, <2>5 DEF Next, SubmitStep, PoolStep, Shutdown, Admit, Refuse, Enqueue, EnqueueNoThread, EnqueueFails,
           Undo, Take, Begin, Return, Finish, vars
<1> QED BY <1>1, <1>2, InvariantHolds, PTL DEF SafeSpec

\* The cap needs no fairness: it holds of any use of the executor.
LEMMA CapIfCleanIsSafe == SafeSpec => []HardCapIfClean
BY CapFollows, InvariantHolds, PTL

\* executor.py's promise of "a hard cap on pending work" holds for every
\* interleaving of any number of submitters, pool threads and a shutdown, until
\* the system refuses the pool a thread.
THEOREM PendingWorkIsCapped == Spec => []HardCapIfClean
BY CapIfCleanIsSafe, PTL DEF Spec

\* Where the system always has a thread to give, the cap holds outright.
THEOREM CapHoldsWithThreads == ASSUME StartMayFail = FALSE PROVE Spec => []HardCap
<1>1. HardCapIfClean /\ CleanRaises => HardCap
  BY DEF HardCapIfClean
<1> QED BY <1>1, AlwaysClean, CapIfCleanIsSafe, PTL DEF Spec

\* Both of stats()'s counters are exact between any two critical sections, the
\* pending one until the system refuses the pool a thread.
THEOREM StatsAreExact == Spec => []CountersExact
<1>1. IInv => CountersExact
  BY DEF IInv, ThreadsOK, BacklogOK, CountersExact
<1> QED BY <1>1, InvariantHolds, PTL DEF Spec

\* stats() never reports more running checks than the pool has threads, thread
\* failures included.
THEOREM RunningIsBounded == Spec => []RunningBound
<1>1. IInv => RunningBound
  <2> SUFFICES ASSUME IInv PROVE RunningBound
    OBVIOUS
  <2>1. Running \subseteq Busy
    BY DEF Running, Busy
  <2>2. Cardinality(Running) <= Cardinality(Busy)
    BY <2>1, FiniteParts, FS_Subset
  <2> QED
    BY <2>2, FiniteParts, ExecutorAssumption DEF IInv, ThreadsOK, RunningBound, TypeOK
<1> QED BY <1>1, InvariantHolds, PTL DEF Spec

\* Where the system always has a thread to give, a submit() that raised has left
\* nothing behind to run.
THEOREM RaisedTasksNeverRun == ASSUME StartMayFail = FALSE PROVE Spec => []CleanRaises
BY AlwaysClean, PTL DEF Spec
=============================================================================

--------------------------- MODULE BoundedExecutor ---------------------------
(***************************************************************************)
(* backend/worker/executor.py: a ThreadPoolExecutor whose queue is capped. *)
(*                                                                         *)
(* A task is one call of submit().  Two threads handle it: the one that    *)
(* submits it (`sub`) and, later, the pool thread that runs its _run       *)
(* wrapper (`work`).  An action is one critical section of self._lock, one *)
(* call into the pool, or the return of the submitted function, so every   *)
(* interleaving of submitters, pool threads and shutdown() is a behaviour. *)
(* The pool itself is the standard library's: a FIFO work queue served by  *)
(* at most max_workers threads, emptied by shutdown(cancel_futures=True).  *)
(* It starts its threads one by one, when a task is queued that no idle    *)
(* thread is free to take, and after it has queued the task.               *)
(***************************************************************************)
EXTENDS Integers, FiniteSets, Sequences

CONSTANTS
  Tasks,        \* the calls of submit() of one behaviour
  MaxWorkers,   \* max_workers, the threads of the pool
  MaxPending,   \* max_pending, "a hard cap on pending work"
  StartMayFail  \* the operating system may refuse the pool a new thread

ASSUME ExecutorAssumption ==
  /\ IsFiniteSet(Tasks)
  /\ MaxWorkers \in Nat \ {0}
  /\ MaxPending \in Nat
  /\ StartMayFail \in BOOLEAN

VARIABLES
  pending,   \* self._pending
  running,   \* self._running
  queue,     \* the pool's work queue
  threads,   \* how many threads the pool has started
  sub,       \* what the submitting thread has done with a task
  work,      \* what the pool has done with a task
  pool       \* "shut" once shutdown() has been called

vars == <<pending, running, queue, threads, sub, work, pool>>

SubState  == {"new", "counted", "undo", "accepted", "refused", "raised"}
WorkState == {"none", "queued", "taken", "running", "leaving", "finished", "cancelled"}

\* The tasks a pool thread holds, from the queue's get() to the end of _run.
Busy == {t \in Tasks : work[t] \in {"taken", "running", "leaving"}}

TypeOK ==
  /\ pending \in Int
  /\ running \in Int
  /\ queue \in Seq(Tasks)
  /\ threads \in 0..MaxWorkers
  /\ sub \in [Tasks -> SubState]
  /\ work \in [Tasks -> WorkState]
  /\ pool \in {"open", "shut"}

Init ==
  /\ pending = 0
  /\ running = 0
  /\ queue = <<>>
  /\ threads = 0
  /\ sub = [t \in Tasks |-> "new"]
  /\ work = [t \in Tasks |-> "none"]
  /\ pool = "open"

-----------------------------------------------------------------------------
(* submit(), on the caller's thread. *)

Admit_OffByOne(t) ==
  /\ sub[t] = "new"
  /\ pending <= MaxPending
  /\ pending' = pending + 1
  /\ sub' = [sub EXCEPT ![t] = "counted"]
  /\ UNCHANGED <<running, queue, threads, work, pool>>

\* First critical section: there is room, so the task is counted as pending.
Admit(t) ==
  /\ sub[t] = "new"
  /\ pending < MaxPending
  /\ pending' = pending + 1
  /\ sub' = [sub EXCEPT ![t] = "counted"]
  /\ UNCHANGED <<running, queue, threads, work, pool>>

\* First critical section: the backlog is at capacity and QueueFull is raised.
Refuse(t) ==
  /\ sub[t] = "new"
  /\ pending >= MaxPending
  /\ sub' = [sub EXCEPT ![t] = "refused"]
  /\ UNCHANGED <<pending, running, queue, threads, work, pool>>

\* The pool needs one more thread: none it has started is idle, and it may.
NeedsThread == threads < MaxWorkers /\ threads <= Cardinality(Busy) + Len(queue)

\* pool.submit(_run) returns a future.
Enqueue(t) ==
  /\ sub[t] = "counted"
  /\ pool = "open"
  /\ queue' = Append(queue, t)
  /\ threads' = IF NeedsThread THEN threads + 1 ELSE threads
  /\ sub' = [sub EXCEPT ![t] = "accepted"]
  /\ work' = [work EXCEPT ![t] = "queued"]
  /\ UNCHANGED <<pending, running, pool>>

\* pool.submit(_run) raises "can't start new thread": the task is queued already.
EnqueueNoThread(t) ==
  /\ StartMayFail
  /\ sub[t] = "counted"
  /\ pool = "open"
  /\ NeedsThread
  /\ queue' = Append(queue, t)
  /\ sub' = [sub EXCEPT ![t] = "undo"]
  /\ work' = [work EXCEPT ![t] = "queued"]
  /\ UNCHANGED <<pending, running, threads, pool>>

\* pool.submit(_run) raises: the pool takes nothing after shutdown().
EnqueueFails(t) ==
  /\ sub[t] = "counted"
  /\ pool = "shut"
  /\ sub' = [sub EXCEPT ![t] = "undo"]
  /\ UNCHANGED <<pending, running, queue, threads, work, pool>>

\* The except branch takes the count back and lets the exception out.
Undo(t) ==
  /\ sub[t] = "undo"
  /\ pending' = pending - 1
  /\ sub' = [sub EXCEPT ![t] = "raised"]
  /\ UNCHANGED <<running, queue, threads, work, pool>>

-----------------------------------------------------------------------------
(* The pool's threads. *)

\* A free thread takes the task at the head of the queue.
Take(t) ==
  /\ queue # <<>>
  /\ t = Head(queue)
  /\ Cardinality(Busy) < threads
  /\ queue' = Tail(queue)
  /\ work' = [work EXCEPT ![t] = "taken"]
  /\ UNCHANGED <<pending, running, threads, sub, pool>>

Begin_NotUncounted(t) ==
  /\ work[t] = "taken"
  /\ running' = running + 1
  /\ work' = [work EXCEPT ![t] = "running"]
  /\ UNCHANGED <<pending, queue, threads, sub, pool>>

\* _run's first critical section: no longer pending, now running.
Begin(t) ==
  /\ work[t] = "taken"
  /\ pending' = pending - 1
  /\ running' = running + 1
  /\ work' = [work EXCEPT ![t] = "running"]
  /\ UNCHANGED <<queue, threads, sub, pool>>

\* The submitted function returns or raises.
Return(t) ==
  /\ work[t] = "running"
  /\ work' = [work EXCEPT ![t] = "leaving"]
  /\ UNCHANGED <<pending, running, queue, threads, sub, pool>>

Finish_NoFinally(t) ==
  /\ work[t] = "leaving"
  /\ work' = [work EXCEPT ![t] = "finished"]
  /\ UNCHANGED <<pending, running, queue, threads, sub, pool>>

\* _run's finally block.
Finish(t) ==
  /\ work[t] = "leaving"
  /\ running' = running - 1
  /\ work' = [work EXCEPT ![t] = "finished"]
  /\ UNCHANGED <<pending, queue, threads, sub, pool>>

Shutdown_LosesQueue ==
  /\ pool = "open"
  /\ pool' = "shut"
  /\ queue' = <<>>
  /\ UNCHANGED <<pending, running, threads, sub, work>>

\* shutdown(wait=False): queued futures are cancelled and the queue is emptied.
\* Their _run never starts, so nothing takes them out of self._pending.
Shutdown ==
  /\ pool = "open"
  /\ pool' = "shut"
  /\ work' = [t \in Tasks |-> IF work[t] = "queued" THEN "cancelled" ELSE work[t]]
  /\ queue' = <<>>
  /\ UNCHANGED <<pending, running, sub, threads>>

-----------------------------------------------------------------------------

SubmitStep(t) == Admit(t) \/ Refuse(t) \/ Enqueue(t) \/ EnqueueNoThread(t)
                 \/ EnqueueFails(t) \/ Undo(t)
PoolStep(t)   == Take(t) \/ Begin(t) \/ Return(t) \/ Finish(t)

Next == Shutdown \/ \E t \in Tasks : SubmitStep(t) \/ PoolStep(t)

SafeSpec == Init /\ [][Next]_vars

\* A thread that can take a step of submit() or of _run takes it: neither waits
\* for anything but self._lock, which every holder releases.  That a check
\* returns is assumed here (its network calls have timeouts).  Nothing makes a
\* client submit or an operator shut down.
Fairness ==
  \A t \in Tasks : /\ WF_vars(Enqueue(t) \/ EnqueueNoThread(t) \/ EnqueueFails(t) \/ Undo(t))
                   /\ WF_vars(PoolStep(t))

Spec == SafeSpec /\ Fairness

-----------------------------------------------------------------------------
(* Properties *)

\* Tasks the pool has accepted and no thread has begun.
Waiting == {t \in Tasks : work[t] \in {"queued", "taken"}}

\* The tasks self._pending stands for.
Pending == {t \in Tasks : sub[t] \in {"counted", "undo"}
                          \/ work[t] \in {"queued", "taken", "cancelled"}}

\* The tasks self._running stands for.
Running == {t \in Tasks : work[t] \in {"running", "leaving"}}

\* executor.py:5-8, "a hard cap on pending work": however submitters, pool
\* threads and shutdown interleave, never more than max_pending accepted tasks
\* wait to begin.
HardCap == Cardinality(Waiting) <= MaxPending

\* No call of submit() that raised has left its task in the pool.
CleanRaises == \A t \in Tasks : sub[t] \in {"undo", "raised"} => work[t] = "none"

\* The cap as the code keeps it: it holds until a thread could not be started, and
\* no shutdown, refusal or failing submission breaks it.
HardCapIfClean == CleanRaises => HardCap

\* stats() tells the truth: at every point between two critical sections the
\* running counter is exact, and the pending one until a thread could not be started.
CountersExact ==
  /\ running = Cardinality(Running)
  /\ CleanRaises => pending = Cardinality(Pending)

\* stats()["running"] never exceeds the pool's size, although it is counted
\* apart from the pool's own bookkeeping.
RunningBound == running >= 0 /\ running <= MaxWorkers

\* An accepted task is run to its end, or shutdown() cancels it.
AcceptedEnds ==
  \A t \in Tasks : sub[t] = "accepted" ~> work[t] \in {"finished", "cancelled"}

\* A full backlog does not refuse for ever: with work allowed to wait at all, a
\* place comes free again unless the executor is shut down.
BacklogDrains == (MaxPending > 0 /\ pending >= MaxPending) ~> (pending < MaxPending \/ pool = "shut")
=============================================================================

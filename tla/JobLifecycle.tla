---------------------------- MODULE JobLifecycle ----------------------------
(***************************************************************************)
(* What a client that polls GET /api/v1/check/{id} may rely on, whichever  *)
(* store is configured and however the threads of the service interleave:  *)
(* a job is queued, then running, then done or in error, as the comment on *)
(* JobRecord.status lists the states (backend/worker/store.py:26).  It     *)
(* never goes back, its outcome never changes, and a job that has been     *)
(* forgotten (expired, or pushed out by newer jobs) never comes back.      *)
(***************************************************************************)
CONSTANT Jobs

VARIABLE status

Status == {"unborn", "queued", "running", "done", "error", "gone"}

\* The steps a job can take.  "queued" to "error" is a refused submission;
\* every job may be forgotten, the newest one among ties of the table's clock.
Edges == {<<"unborn", "queued">>, <<"queued", "running">>, <<"queued", "error">>,
          <<"running", "done">>, <<"running", "error">>,
          <<"unborn", "gone">>, <<"queued", "gone">>, <<"running", "gone">>,
          <<"done", "gone">>, <<"error", "gone">>}

Init == status = [j \in Jobs |-> "unborn"]

\* One operation of the service may forget several jobs while it creates one.
Next ==
  /\ status' \in [Jobs -> Status]
  /\ \A j \in Jobs : status'[j] = status[j] \/ <<status[j], status'[j]>> \in Edges

Spec == Init /\ [][Next]_status
=============================================================================

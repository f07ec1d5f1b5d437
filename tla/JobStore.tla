------------------------------ MODULE JobStore ------------------------------
(***************************************************************************)
(* backend/worker/store.py and backend/worker/postgres_store.py: the two   *)
(* implementations of the JobStore protocol, over the same record.         *)
(*                                                                         *)
(* The in-memory store runs every method under one lock.  The Postgres     *)
(* store runs create and update as one transaction or statement each, but  *)
(* its get reads the row, looks at its age, and deletes it in a second     *)
(* statement that does not look again.  The operators below are the        *)
(* bodies of these atomic steps, for the modules that call a store.        *)
(***************************************************************************)
EXTENDS Integers, FiniteSets

CONSTANTS
  Jobs,     \* the ids uuid4 hands out, each of them once
  Results,  \* what a finished check records
  NoResult,
  MaxJobs,  \* max_jobs
  TTL,      \* ttl_seconds, in ticks of the clock
  Durable   \* PRISM_DATABASE_URL is set: the Postgres store

VARIABLES
  rec,     \* the records in the store, by id
  births,  \* how many records have been inserted: the order of the dictionary
  now      \* time.time()

RecStatus == {"queued", "running", "done", "error"}

\* `error` is left out: it is set exactly when the status becomes "error".
Record == [status : RecStatus, created : Nat, updated : Nat, birth : Nat,
           result : Results \cup {NoResult}]
Absent == [status |-> "absent"]

TypeOK ==
  /\ rec \in [Jobs -> Record \cup {Absent}]
  /\ births \in Nat

Init == rec = [j \in Jobs |-> Absent] /\ births = 0

Present == {j \in Jobs : rec[j] # Absent}

Expired_SinceCreated(j) == now - rec[j].created > TTL

\* now - updated > ttl
Expired(j) == now - rec[j].updated > TTL

\* In which order records are pushed out by count: the dictionary pops its
\* first insertion, the table deletes by `created` and breaks ties anyhow.
NoLaterThan(i, j, r) ==
  IF Durable THEN r[i].created <= r[j].created ELSE r[i].birth < r[j].birth

Kept(P, r) ==
  {K \in SUBSET P :
     /\ Cardinality(K) = IF Cardinality(P) < MaxJobs THEN Cardinality(P) ELSE MaxJobs
     /\ \A i \in P \ K, j \in K : NoLaterThan(i, j, r)}

\* create(): sweep the expired records, insert the new one, bound the count.
\* Nothing else of the service creates a record between the reading of the
\* clock for `created` and the insertion, so both are one step.
Create(j) ==
  LET live == {i \in Present : ~Expired(i)} \cup {j}
      new  == [rec EXCEPT ![j] = [status |-> "queued", created |-> now, updated |-> now,
                                  birth |-> births, result |-> NoResult]]
  IN  /\ \E K \in Kept(live, new) :
           rec' = [i \in Jobs |-> IF i \in K THEN new[i] ELSE Absent]
      /\ births' = births + 1

Update_Reinserts(j, st, res) ==
  /\ rec' = [rec EXCEPT ![j] = [status |-> st, updated |-> now, result |-> res,
                                created |-> now, birth |-> births]]
  /\ UNCHANGED births

\* update(): nothing at all if the record is gone, else the fields and `updated`.
\* It does not look at the record's age.
Update(j, st, res) ==
  /\ rec' = IF rec[j] = Absent THEN rec
            ELSE [rec EXCEPT ![j].status = st, ![j].result = res, ![j].updated = now]
  /\ UNCHANGED births

\* What get() reads: a record that is there and has not expired.
Readable(j) == rec[j] # Absent /\ ~Expired(j)

\* The deletion get() does when the record it read had expired.
Drop(j) ==
  /\ rec' = [rec EXCEPT ![j] = Absent]
  /\ UNCHANGED births
=============================================================================

------------------------------ MODULE TTLCache ------------------------------
(***************************************************************************)
(* backend/utils/ttl_cache.py: a dictionary ordered by last use, bounded   *)
(* by size and by age.  Get and Put are the bodies of the two methods'     *)
(* critical sections; a module that uses a cache INSTANCEs this one and    *)
(* makes them part of its own actions.                                     *)
(***************************************************************************)
EXTENDS Integers, Sequences

CONSTANTS
  Keys,
  Values,
  MaxSize,  \* max_size
  TTL,      \* ttl_seconds, in ticks of the clock
  MaxTime   \* bound of the clock in the model

VARIABLES
  order,  \* the keys of _data, least recently used first
  data,   \* _data: the time and the value each key was put with
  now     \* time.time()

NoEntry == [at |-> -1]
Entry == [at : Nat, value : Values]

TypeOK ==
  /\ order \in Seq(Keys)
  /\ data \in [Keys -> Entry \cup {NoEntry}]

Init == order = <<>> /\ data = [k \in Keys |-> NoEntry]

Without(s, k) ==
  IF \E i \in 1..Len(s) : s[i] = k
  THEN LET i == CHOOSE i \in 1..Len(s) : s[i] = k
       IN  SubSeq(s, 1, i - 1) \o SubSeq(s, i + 1, Len(s))
  ELSE s

Present(k) == data[k] # NoEntry

\* The entry of k is there and not past its expiry.
Fresh(k) == Present(k) /\ now - data[k].at <= TTL

\* get(k) returns the value: the entry becomes the most recently used.
Hit(k) ==
  /\ Fresh(k)
  /\ order' = Append(Without(order, k), k)
  /\ UNCHANGED data

\* get(k) returns None, dropping the entry if it was there and had expired.
Miss(k) ==
  /\ ~Fresh(k)
  /\ order' = Without(order, k)
  /\ data' = [data EXCEPT ![k] = NoEntry]

\* put(k, v): the entry is written anew, and the least recently used entries
\* are popped until max_size are left.
Put(k, v) ==
  LET used == Append(Without(order, k), k)
      drop == IF Len(used) > MaxSize THEN Len(used) - MaxSize ELSE 0
  IN  /\ order' = SubSeq(used, drop + 1, Len(used))
      /\ data' = [x \in Keys |-> IF \E i \in 1..drop : used[i] = x THEN NoEntry
                                 ELSE IF x = k THEN [at |-> now, value |-> v]
                                 ELSE data[x]]

=============================================================================

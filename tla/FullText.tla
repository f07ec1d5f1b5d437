------------------------------ MODULE FullText ------------------------------
(***************************************************************************)
(* services/fulltext.py: the downloads of open-access full texts, and the  *)
(* cache of their results that the threads of all checks share.  A task is *)
(* one candidate of one check; it tries its links in order, two at most    *)
(* (academic_corpus.py, _fetch).  A result says of which link it is, when  *)
(* it was obtained, and whether there is a text.                           *)
(***************************************************************************)
EXTENDS Lists, SequencesExt, FiniteSets

CONSTANTS
  Tasks,
  Links,
  Public,      \* the links url_is_fetchable() accepts
  Answers,     \* what each link may answer when it is asked
  MaxBytes,
  CacheSize, CacheTTL, MaxTime

ASSUME FullTextAssumption == CacheTTL \in Nat /\ MaxTime \in Nat

VARIABLES
  order, data, now, \* the cache and the clock
  left,   \* the links a task has still to try, the current one first
  asking, \* whether it has missed the cache and is downloading
  tried   \* what it has learned so far, and when it asked

fetchVars == <<order, data, left, asking, tried>>

Result == [url : Links, at : 0 .. MaxTime, ok : BOOLEAN]
C == INSTANCE TTLCache WITH Keys <- Links, Values <- Result, MaxSize <- CacheSize, TTL <- CacheTTL

FetchInit ==
  /\ C!Init /\ now = 0
  /\ left = [t \in Tasks |-> <<>>]
  /\ asking = [t \in Tasks |-> FALSE]
  /\ tried = [t \in Tasks |-> <<>>]

FirstTwo(links) == IF Len(links) > 2 THEN SubSeq(links, 1, 2) ELSE links

\* The links of the tasks begun.
Begin(links) ==
  /\ left' = [t \in Tasks |-> IF t \in DOMAIN links THEN FirstTwo(links[t]) ELSE left[t]]
  /\ UNCHANGED <<order, data, now, asking, tried>>

Url(t) == Head(left[t])

\* The end of fetch(): a text ends the task, anything else brings on the next link.
Learns(t, r, read) ==
  /\ tried' = [tried EXCEPT ![t] = Append(@, [result |-> r, read |-> read])]
  /\ left' = [left EXCEPT ![t] = IF r.ok THEN <<>> ELSE Tail(@)]

\* A link url_is_fetchable() refuses is never asked.
Refuse(t) ==
  /\ left[t] # <<>> /\ ~asking[t] /\ Url(t) \notin Public
  /\ left' = [left EXCEPT ![t] = Tail(@)]
  /\ UNCHANGED <<order, data, now, asking, tried>>

\* The cache knows the link: its text, or that there was none.
Known(t) ==
  /\ left[t] # <<>> /\ ~asking[t] /\ Url(t) \in Public
  /\ C!Hit(Url(t))
  /\ Learns(t, data[Url(t)].value, now)
  /\ UNCHANGED <<now, asking>>

Unknown(t) ==
  /\ left[t] # <<>> /\ ~asking[t] /\ Url(t) \in Public
  /\ C!Miss(Url(t))
  /\ asking' = [asking EXCEPT ![t] = TRUE]
  /\ UNCHANGED <<now, left, tried>>

\* _download_and_parse(): a PDF of bounded size from a place that is still public, and text
\* in it; a failed request has the status 0.
Accepted(a) ==
  /\ a.status = 200 /\ a.url \in Public
  /\ a.declared <= MaxBytes /\ a.pdf /\ a.bytes \in 1 .. MaxBytes
  /\ a.readable

\* The link has answered, and what came of it is stored whatever is stored by now.
Stored_UnderTheRedirect(t, a) == C!Put(a.url, [url |-> Url(t), at |-> now, ok |-> Accepted(a)])
Stored(t, a) == C!Put(Url(t), [url |-> Url(t), at |-> now, ok |-> Accepted(a)])
Download(t) ==
  /\ asking[t]
  /\ \E a \in Answers[Url(t)] :
       /\ Stored(t, a)
       /\ Learns(t, [url |-> Url(t), at |-> now, ok |-> Accepted(a)], now)
  /\ asking' = [asking EXCEPT ![t] = FALSE]
  /\ UNCHANGED now

FetchStep(t) == Refuse(t) \/ Known(t) \/ Unknown(t) \/ Download(t)

Tick ==
  /\ now < MaxTime
  /\ now' = now + 1
  /\ UNCHANGED fetchVars

=============================================================================

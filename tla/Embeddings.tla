----------------------------- MODULE Embeddings -----------------------------
(***************************************************************************)
(* services/embedding_cache.py and services/local_embeddings.py: one model *)
(* that is loaded on first use, and one cache of the vectors of source     *)
(* sentences, shared by the checks and by the warm-up thread of            *)
(* app/factory.py.  A vector stands for the sentence it was computed from. *)
(* Encoding reads nothing that changes, so it is part of the step that     *)
(* uses what it returns.                                                   *)
(***************************************************************************)
EXTENDS Integers, Sequences, SequencesExt

CONSTANTS
  Checks,
  Warmup,       \* the warm-up thread, if it is configured
  Sentences,
  MaxEntries,   \* embedding_cache_entries
  NoVector

ASSUME WarmupAssumption == Checks \cap Warmup = {}

Clients == Checks \cup Warmup

VARIABLES
  model,    \* LocalEmbeddingService._model is there
  lock,     \* who holds _load_lock
  flag,     \* app.state.model_loaded
  vector,   \* EmbeddingCache._data: the vector of each sentence, if it has one
  recent,   \* its order, the least recently used first
  at,       \* where each client stands
  texts,    \* the source sentences of a check, in order
  cached,   \* what get_many() returned for them, while it is used
  rows      \* what embed_cached() returned

encoderVars == <<model, lock, flag, vector, recent, at, texts, cached, rows>>

Vector(t) == [of |-> t]

EncoderInit ==
  /\ model = FALSE /\ lock = {} /\ flag = FALSE
  /\ vector = [t \in Sentences |-> NoVector] /\ recent = <<>>
  /\ at = [c \in Clients |-> IF c \in Warmup THEN "model" ELSE "idle"]
  /\ texts = [c \in Checks |-> <<>>]
  /\ cached = [c \in Checks |-> <<>>]
  /\ rows = [c \in Checks |-> <<>>]

To(c, l) == at' = [at EXCEPT ![c] = l]

\* _get_embedder(), and the look at _model outside of the lock.
Peek(c) ==
  /\ at[c] = "model"
  /\ To(c, IF model THEN "warm" ELSE "lock")
  /\ UNCHANGED <<model, lock, flag, vector, recent, texts, cached, rows>>

Acquire(c) ==
  /\ at[c] = "lock" /\ lock = {}
  /\ lock' = {c}
  /\ To(c, "load")
  /\ UNCHANGED <<model, flag, vector, recent, texts, cached, rows>>

\* Under the lock the model is looked for again; loading it takes long, and may fail.
Loads_KeepsLock(c) ==
  /\ at[c] = "load"
  /\ \/ model' = TRUE /\ To(c, "warm") /\ lock' = {}
     \/ ~model /\ To(c, "off") /\ UNCHANGED <<model, lock>>
  /\ UNCHANGED <<flag, vector, recent, texts, cached, rows>>
Loads(c) ==
  /\ at[c] = "load"
  /\ \/ model' = TRUE /\ To(c, "warm")
     \/ ~model /\ To(c, "off") /\ UNCHANGED model
  /\ lock' = {}
  /\ UNCHANGED <<flag, vector, recent, texts, cached, rows>>

\* The first call of embed(), and the one for the manuscript's own sentences, which are not
\* cached.  For the warm-up thread it is the last: the application is ready.
WarmUp(c) ==
  /\ at[c] = "warm"
  /\ \/ /\ To(c, IF c \in Warmup THEN "done" ELSE IF MaxEntries = 0 THEN "plain" ELSE "look")
        /\ flag' = (flag \/ c \in Warmup)
     \/ To(c, "off") /\ UNCHANGED flag
  /\ UNCHANGED <<model, lock, vector, recent, texts, cached, rows>>

\* The sentences of s, each at its last place.
LastPlaces(s) ==
  LET last == SelectSeq([i \in DOMAIN s |-> i], LAMBDA i : \A j \in DOMAIN s : s[j] = s[i] => j <= i)
  IN  [k \in DOMAIN last |-> s[last[k]]]
Renewed(s) == SelectSeq(recent, LAMBDA t : t \notin Range(s)) \o LastPlaces(s)

\* get_many(): each hit becomes the most recently used.
LookUp(c) ==
  LET found == [i \in DOMAIN texts[c] |-> vector[texts[c][i]]]
  IN  /\ at[c] = "look"
      /\ cached' = [cached EXCEPT ![c] = found]
      /\ recent' = Renewed(SelectSeq(texts[c], LAMBDA t : vector[t] # NoVector))
      /\ To(c, "encode")
      /\ UNCHANGED <<model, lock, flag, vector, texts, rows>>

\* The sentences that missed, each at its first place, and what is computed for them.
Missed(c) == {i \in DOMAIN texts[c] : cached[c][i] = NoVector}
Missing(c) ==
  LET first == SelectSeq([i \in DOMAIN texts[c] |-> i],
                 LAMBDA i : i \in Missed(c) /\ \A j \in 1 .. i - 1 : texts[c][j] # texts[c][i])
  IN  [k \in DOMAIN first |-> texts[c][first[k]]]
Computed(c) == [t \in {texts[c][i] : i \in Missed(c)} |-> Vector(t)]

\* put_many(): all are stored, then the least recently used go.
Kept(s) == LET all == Renewed(s)
               n == Len(all) - MaxEntries
           IN  IF n > 0 THEN SubSeq(all, n + 1, Len(all)) ELSE all
Put(s, computed) ==
  /\ recent' = Kept(s)
  /\ vector' = [t \in Sentences |-> IF t \notin Range(Kept(s)) THEN NoVector
                                    ELSE IF t \in DOMAIN computed THEN computed[t] ELSE vector[t]]

\* The rows: what was cached when it looked, else what was computed.
Rows_FromCache(c) == [i \in DOMAIN texts[c] |-> vector'[texts[c][i]]]
Rows(c) ==
  [i \in DOMAIN texts[c] |-> IF i \in Missed(c) THEN Computed(c)[texts[c][i]] ELSE cached[c][i]]

\* Encoding the missing ones may fail; then everything is encoded plainly.
Compute(c) ==
  /\ at[c] = "encode"
  /\ \/ /\ IF Missed(c) = {} THEN UNCHANGED <<recent, vector>> ELSE Put(Missing(c), Computed(c))
        /\ rows' = [rows EXCEPT ![c] = Rows(c)]
        /\ To(c, "done")
     \/ Missed(c) # {} /\ To(c, "plain") /\ UNCHANGED <<recent, vector, rows>>
  /\ cached' = [cached EXCEPT ![c] = <<>>]
  /\ UNCHANGED <<model, lock, flag, texts>>

\* embed_fn(texts); if that fails as well, the check goes on without paraphrases.
Plain(c) ==
  /\ at[c] = "plain"
  /\ \/ rows' = [rows EXCEPT ![c] = [i \in DOMAIN texts[c] |-> Vector(texts[c][i])]] /\ To(c, "done")
     \/ To(c, "off") /\ UNCHANGED rows
  /\ UNCHANGED <<model, lock, flag, vector, recent, texts, cached>>

EncoderStep(c) ==
  Peek(c) \/ Acquire(c) \/ Loads(c) \/ WarmUp(c) \/ LookUp(c) \/ Compute(c) \/ Plain(c)

\* A check comes with its sources' sentences.
Given(c, s) ==
  /\ at[c] = "idle"
  /\ texts' = [texts EXCEPT ![c] = s]
  /\ To(c, "model")
  /\ UNCHANGED <<model, lock, flag, vector, recent, cached, rows>>

\* The component on its own, with any sentences.
EncoderSpec ==
  /\ EncoderInit
  /\ [][\/ \E c \in Clients : EncoderStep(c)
        \/ \E c \in Checks, s \in Seq(Sentences) : Given(c, s)]_encoderVars

-----------------------------------------------------------------------------
(* Properties *)

\* embedding_cache.py:26-27, "a cache bug can never break a check": each row is the vector of
\* the sentence at its place, though other checks store and evict while this one computes,
\* sentences repeat, encoding fails or the cache is smaller than the check.
RowsAreOwn ==
  \A c \in Checks : at[c] = "done" => rows[c] = [i \in DOMAIN texts[c] |-> Vector(texts[c][i])]

\* local_embeddings.py:38 and factory.py:56: whoever waits for the lock waits for a load that
\* is going on, so a model that will not load holds up no check for good; and the application
\* says that it is ready only when the model is there.
WaitsOnlyForALoad ==
  /\ lock = {c \in Clients : at[c] = "load"}
  /\ flag => model
  /\ \A c \in Clients : at[c] \in {"warm", "look", "encode", "plain", "done"} => model
=============================================================================

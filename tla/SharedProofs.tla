---------------------------- MODULE SharedProofs ----------------------------
(***************************************************************************)
(* Theorems about Shared and the encoder it composes, for any number of    *)
(* checks, databases, answers, links and sentences and any sizes of the    *)
(* caches: the rows a check is given are its own and nobody waits for a    *)
(* model that is not being loaded; what the databases answer is merged,    *)
(* what could not be had is said, and full texts are current.              *)
(***************************************************************************)
EXTENDS Shared, ListProofs

EncoderNext ==
  \/ \E c \in Clients : EncoderStep(c)
  \/ \E c \in Checks, s \in Seq(Sentences) : Given(c, s)

\* The variables that the arguments are about.  The warm-up thread encodes nothing.
Shapes ==
  /\ DOMAIN at = Clients /\ DOMAIN rows = Checks /\ DOMAIN cached = Checks
  /\ texts \in [Checks -> Seq(Sentences)]
  /\ \A c \in Warmup : at[c] \in {"model", "lock", "load", "warm", "off", "done"}

LEMMA ShapesStep == Shapes /\ [EncoderNext]_encoderVars => Shapes'
<1> SUFFICES ASSUME Shapes, [EncoderNext]_encoderVars PROVE Shapes'
  OBVIOUS
<1> USE WarmupAssumption DEF Shapes, Clients, To
<1>1. ASSUME NEW c \in Clients, Peek(c) \/ Acquire(c) \/ Loads(c) \/ WarmUp(c) PROVE Shapes'
  BY <1>1 DEF Peek, Acquire, Loads, WarmUp
<1>2. ASSUME NEW c \in Clients, LookUp(c) \/ Compute(c) \/ Plain(c) PROVE Shapes'
  BY <1>2 DEF LookUp, Compute, Plain
<1>3. ASSUME NEW c \in Checks, NEW s \in Seq(Sentences), Given(c, s) PROVE Shapes'
  BY <1>3 DEF Given
<1>4. CASE UNCHANGED encoderVars
  BY <1>4 DEF encoderVars
<1> QED
  BY <1>1, <1>2, <1>3, <1>4 DEF EncoderNext, EncoderStep

LEMMA ShapesAlways == EncoderSpec => []Shapes
<1>1. EncoderInit => Shapes
  BY WarmupAssumption DEF EncoderInit, Shapes, Clients
<1> QED
  BY <1>1, ShapesStep, PTL DEF EncoderSpec, EncoderNext

-----------------------------------------------------------------------------
(* The lock and the model                                                    *)

OneLoads == \A c, d \in lock : c = d

LEMMA LoadStep ==
  Shapes /\ OneLoads /\ WaitsOnlyForALoad /\ [EncoderNext]_encoderVars => OneLoads' /\ WaitsOnlyForALoad'
<1> SUFFICES ASSUME Shapes, OneLoads, WaitsOnlyForALoad, [EncoderNext]_encoderVars
             PROVE  OneLoads' /\ WaitsOnlyForALoad'
  OBVIOUS
<1> USE DEF Shapes, OneLoads, WaitsOnlyForALoad, To
<1>1. ASSUME NEW c \in Clients, Peek(c) PROVE OneLoads' /\ WaitsOnlyForALoad'
  BY <1>1 DEF Peek
<1>2. ASSUME NEW c \in Clients, Acquire(c) PROVE OneLoads' /\ WaitsOnlyForALoad'
  BY <1>2 DEF Acquire
<1>3. ASSUME NEW c \in Clients, Loads(c) PROVE OneLoads' /\ WaitsOnlyForALoad'
  BY <1>3 DEF Loads
<1>4. ASSUME NEW c \in Clients, WarmUp(c) PROVE OneLoads' /\ WaitsOnlyForALoad'
  BY <1>4 DEF WarmUp
<1>5. ASSUME NEW c \in Clients, LookUp(c) PROVE OneLoads' /\ WaitsOnlyForALoad'
  BY <1>5 DEF LookUp
<1>6. ASSUME NEW c \in Clients, Compute(c) \/ Plain(c) PROVE OneLoads' /\ WaitsOnlyForALoad'
  BY <1>6 DEF Compute, Plain
<1>7. ASSUME NEW c \in Checks, NEW s \in Seq(Sentences), Given(c, s) PROVE OneLoads' /\ WaitsOnlyForALoad'
  BY <1>7 DEF Given, Clients
<1>8. CASE UNCHANGED encoderVars
  BY <1>8 DEF encoderVars
<1> QED
  BY <1>1, <1>2, <1>3, <1>4, <1>5, <1>6, <1>7, <1>8 DEF EncoderNext, EncoderStep

\* Whoever waits for the lock waits for a load, and the flag is up only with the model there.
THEOREM NobodyWaitsInVain == EncoderSpec => []WaitsOnlyForALoad
<1>1. EncoderInit => OneLoads /\ WaitsOnlyForALoad
  BY DEF EncoderInit, OneLoads, WaitsOnlyForALoad
<1> QED
  BY <1>1, ShapesAlways, LoadStep, PTL DEF EncoderSpec, EncoderNext

-----------------------------------------------------------------------------
(* The rows                                                                  *)

\* A sentence has its own vector or none, in the cache and in what was looked up in it.
VectorsAreOwn ==
  /\ DOMAIN vector = Sentences
  /\ \A t \in Sentences : vector[t] \in {NoVector, Vector(t)}
LookedUpIsOwn ==
  \A c \in Checks : at[c] = "encode" => \A i \in DOMAIN texts[c] : cached[c][i] \in {NoVector, Vector(texts[c][i])}

LEMMA VectorsStep == Shapes /\ VectorsAreOwn /\ [EncoderNext]_encoderVars => VectorsAreOwn'
<1> SUFFICES ASSUME Shapes, VectorsAreOwn, [EncoderNext]_encoderVars PROVE VectorsAreOwn'
  OBVIOUS
<1>1. CASE UNCHANGED vector
  BY <1>1 DEF VectorsAreOwn
<1>2. ASSUME NEW c \in Clients, Put(Missing(c), Computed(c)) PROVE VectorsAreOwn'
  BY <1>2 DEF Put, Computed, VectorsAreOwn
<1> QED
  BY <1>1, <1>2
  DEF EncoderNext, EncoderStep, Peek, Acquire, Loads, WarmUp, LookUp, Compute, Plain, Given, encoderVars

\* What was computed fills the places that missed.
LEMMA RowsOfACheck ==
  ASSUME NEW c \in Checks, \A i \in DOMAIN texts[c] : cached[c][i] \in {NoVector, Vector(texts[c][i])}
  PROVE  Rows(c) = [i \in DOMAIN texts[c] |-> Vector(texts[c][i])]
<1>1. ASSUME NEW i \in DOMAIN texts[c], i \in Missed(c) PROVE Computed(c)[texts[c][i]] = Vector(texts[c][i])
  BY <1>1 DEF Computed
<1>2. ASSUME NEW i \in DOMAIN texts[c], i \notin Missed(c) PROVE cached[c][i] = Vector(texts[c][i])
  BY <1>2 DEF Missed
<1> QED
  BY <1>1, <1>2 DEF Rows

LEMMA RowsStep ==
  Shapes /\ VectorsAreOwn /\ LookedUpIsOwn /\ RowsAreOwn /\ [EncoderNext]_encoderVars
    => LookedUpIsOwn' /\ RowsAreOwn'
<1> SUFFICES ASSUME Shapes, VectorsAreOwn, LookedUpIsOwn, RowsAreOwn, [EncoderNext]_encoderVars,
                    NEW c \in Checks
             PROVE  /\ at'[c] = "encode" =>
                         \A i \in DOMAIN texts'[c] : cached'[c][i] \in {NoVector, Vector(texts'[c][i])}
                    /\ at'[c] = "done" => rows'[c] = [i \in DOMAIN texts'[c] |-> Vector(texts'[c][i])]
  BY DEF LookedUpIsOwn, RowsAreOwn, Vector
<1> DEFINE Goal ==
      /\ at'[c] = "encode" => \A i \in DOMAIN texts'[c] : cached'[c][i] \in {NoVector, Vector(texts'[c][i])}
      /\ at'[c] = "done" => rows'[c] = [i \in DOMAIN texts'[c] |-> Vector(texts'[c][i])]
<1>1. CASE at'[c] = at[c] /\ texts'[c] = texts[c] /\ cached'[c] = cached[c] /\ rows'[c] = rows[c]
  BY <1>1 DEF LookedUpIsOwn, RowsAreOwn
<1>2. CASE at'[c] \notin {"encode", "done"}
  BY <1>2
<1>3. ASSUME NEW d \in Clients, Peek(d) \/ Acquire(d) \/ Loads(d) \/ WarmUp(d) PROVE Goal
  BY <1>1, <1>2, <1>3, WarmupAssumption DEF Peek, Acquire, Loads, WarmUp, To, Shapes, Clients
<1>4. ASSUME NEW d \in Clients, LookUp(d) PROVE Goal
  <2>1. CASE d = c
    <3>1. cached'[c] = [i \in DOMAIN texts[c] |-> vector[texts[c][i]]] /\ at'[c] = "encode" /\ texts' = texts
      BY <1>4, <2>1 DEF LookUp, To, Shapes, Clients
    <3>2. \A i \in DOMAIN texts[c] : texts[c][i] \in Sentences
      BY DEF Shapes
    <3> QED
      BY <3>1, <3>2 DEF VectorsAreOwn
  <2>2. CASE d # c
    BY <1>1, <1>4, <2>2 DEF LookUp, To, Shapes, Clients
  <2> QED
    BY <2>1, <2>2
<1>5. ASSUME NEW d \in Clients, Compute(d) PROVE Goal
  <2>1. CASE d = c
    <3>1. Rows(c) = [i \in DOMAIN texts[c] |-> Vector(texts[c][i])]
      BY <1>5, <2>1, RowsOfACheck DEF Compute, LookedUpIsOwn
    <3>2. texts' = texts /\ (at'[c] = "plain" \/ (at'[c] = "done" /\ rows'[c] = Rows(c)))
      <4>1. texts' = texts /\ (To(c, "plain") \/ (To(c, "done") /\ rows' = [rows EXCEPT ![c] = Rows(c)]))
        BY <1>5, <2>1 DEF Compute
      <4> QED
        BY <4>1 DEF To, Shapes, Clients
    <3> QED
      BY <3>1, <3>2
  <2>2. CASE d # c
    BY <1>1, <1>5, <2>2 DEF Compute, To, Shapes, Clients
  <2> QED
    BY <2>1, <2>2
<1>6. ASSUME NEW d \in Clients, Plain(d) PROVE Goal
  <2>1. CASE d = c
    BY <1>6, <2>1 DEF Plain, To, Shapes, Clients
  <2>2. CASE d # c
    BY <1>1, <1>6, <2>2 DEF Plain, To, Shapes, Clients
  <2> QED
    BY <2>1, <2>2
<1>7. ASSUME NEW d \in Checks, NEW s \in Seq(Sentences), Given(d, s) PROVE Goal
  BY <1>1, <1>2, <1>7 DEF Given, To, Shapes, Clients
<1>8. CASE UNCHANGED encoderVars
  BY <1>1, <1>8 DEF encoderVars
<1> QED
  BY <1>3, <1>4, <1>5, <1>6, <1>7, <1>8 DEF EncoderNext, EncoderStep

\* Each row a check is given is the vector of its own sentence.
THEOREM RowsBelongToTheCheck == EncoderSpec => []RowsAreOwn
<1>1. EncoderInit => VectorsAreOwn /\ LookedUpIsOwn /\ RowsAreOwn
  BY WarmupAssumption DEF EncoderInit, VectorsAreOwn, LookedUpIsOwn, RowsAreOwn, Clients
<1> QED
  BY <1>1, ShapesAlways, VectorsStep, RowsStep, PTL DEF EncoderSpec, EncoderNext

-----------------------------------------------------------------------------
(* The merge of what the databases gave                                      *)

Candidate == [key : {DedupKey(w) : w \in Work}, size : Nat, text : Seq(Sentences),
              kind : {"abstract", "fulltext"}, links : Seq(Links)]

\* The works under one key make one candidate of the longest text and all links.
SumsUp(s, of) ==
  /\ \A w \in of : Size(w) <= s.size
  /\ \E w \in of : s.text = w.abstract /\ Size(w) = s.size
  /\ Range(s.links) = UNION {Range(w.links) : w \in of}

Merges(W, f) ==
  /\ f \in Seq(Candidate)
  /\ \A i, j \in 1 .. Len(f) : f[i].key = f[j].key => i = j
  /\ \A i \in 1 .. Len(f) : /\ f[i].kind = "abstract" /\ f[i].key # <<>>
                            /\ SumsUp(f[i], {w \in W : DedupKey(w) = f[i].key})
  /\ \A w \in W : DedupKey(w) # <<>> => \E i \in 1 .. Len(f) : f[i].key = DedupKey(w)

LEMMA SizeType == ASSUME NEW w \in Work PROVE Size(w) \in Nat
  BY DEF Size, Work

LEMMA LargerOfTwo ==
  ASSUME NEW a \in Nat, NEW b \in Nat PROVE Max({a, b}) \in Nat /\ Max({a, b}) = IF a >= b THEN a ELSE b
  BY DEF Max

LEMMA SmallerOfTwo ==
  ASSUME NEW a \in Nat, NEW b \in Nat PROVE Min({a, b}) \in Nat /\ Min({a, b}) = IF a <= b THEN a ELSE b
  BY DEF Min

\* The links of one more work under the same key.
LEMMA LinksOfBoth ==
  ASSUME NEW l \in Seq(Links), NEW m \in Seq(Links)
  PROVE  /\ l \o Those(m, Range(m) \ Range(l)) \in Seq(Links)
         /\ Range(l \o Those(m, Range(m) \ Range(l))) = Range(l) \cup Range(m)
<1> DEFINE new == Those(m, Range(m) \ Range(l))
<1>1. new \in Seq(Links) /\ Range(new) = Range(m) \cap (Range(m) \ Range(l))
  BY ThoseAre
<1>2. l \o new \in Seq(Links) /\ Range(l \o new) = Range(l) \cup Range(new)
  <2> HIDE DEF new
  <2> QED
    BY <1>1, RangeConcatenation
<1> QED
  BY <1>1, <1>2

\* One work more, where there is no candidate of its key yet.
LEMMA FoldNew ==
  ASSUME NEW W \in SUBSET Work, NEW f, Merges(W, f), NEW w \in Work, DedupKey(w) # <<>>,
         \A i \in 1 .. Len(f) : f[i].key # DedupKey(w)
  PROVE  Merges(W \cup {w}, Append(f, [key |-> DedupKey(w), size |-> Size(w), text |-> w.abstract,
                                       kind |-> "abstract", links |-> w.links]))
<1> DEFINE e == [key |-> DedupKey(w), size |-> Size(w), text |-> w.abstract, kind |-> "abstract", links |-> w.links]
           g == Append(f, e)
           V == W \cup {w}
           of(U, k) == {x \in U : DedupKey(x) = k}
<1>1. e \in Candidate /\ f \in Seq(Candidate)
  BY SizeType DEF Candidate, Work, Merges
<1>2. /\ g \in Seq(Candidate) /\ Len(f) \in Nat /\ Len(g) = Len(f) + 1
      /\ g[Len(f) + 1] = e /\ \A i \in 1 .. Len(f) : g[i] = f[i]
  BY <1>1
<1>3. \A i \in 1 .. Len(g) : i \in 1 .. Len(f) \/ i = Len(f) + 1
  BY <1>2
<1>4. \A i \in 1 .. Len(f) : i \in 1 .. Len(g) /\ f[i].key # e.key
  BY <1>2
<1>5. of(V, e.key) = {w}
  BY DEF Merges
<1>6. SumsUp(e, {w})
  BY SizeType DEF SumsUp
<1>7. \A i \in 1 .. Len(f) : of(V, f[i].key) = of(W, f[i].key)
  BY <1>4
<1>8. e.key = DedupKey(w) /\ e.kind = "abstract"
  OBVIOUS
<1> HIDE DEF e, g
<1>9. \A i, j \in 1 .. Len(g) : g[i].key = g[j].key => i = j
  BY <1>2, <1>3, <1>4 DEF Merges
<1>10. \A i \in 1 .. Len(g) : g[i].kind = "abstract" /\ g[i].key # <<>> /\ SumsUp(g[i], of(V, g[i].key))
  <2> SUFFICES ASSUME NEW i \in 1 .. Len(g)
               PROVE  g[i].kind = "abstract" /\ g[i].key # <<>> /\ SumsUp(g[i], of(V, g[i].key))
    OBVIOUS
  <2>1. CASE i \in 1 .. Len(f)
    BY <1>2, <1>7, <2>1, ZenonT(60) DEF Merges
  <2>2. CASE i = Len(f) + 1
    BY <1>2, <1>5, <1>6, <1>8, <2>2
  <2> QED
    BY <1>3, <2>1, <2>2
<1>11. \A x \in V : DedupKey(x) # <<>> => \E i \in 1 .. Len(g) : g[i].key = DedupKey(x)
  <2> SUFFICES ASSUME NEW x \in V, DedupKey(x) # <<>> PROVE \E i \in 1 .. Len(g) : g[i].key = DedupKey(x)
    OBVIOUS
  <2>1. CASE x \in W
    BY <1>2, <1>4, <2>1 DEF Merges
  <2>2. CASE x = w
    <3>1. Len(f) + 1 \in 1 .. Len(g)
      BY <1>2
    <3> QED
      BY <1>2, <1>8, <2>2, <3>1
  <2> QED
    BY <2>1, <2>2
<1> QED
  BY <1>2, <1>9, <1>10, <1>11 DEF Merges, g, e

\* One work more, for the candidate that is there.
Joined(s, w) ==
  [s EXCEPT !.links = s.links \o Those(w.links, Range(w.links) \ Range(s.links)),
            !.text = IF Size(w) > s.size THEN w.abstract ELSE s.text,
            !.size = Max({Size(w), s.size})]

LEMMA JoinedSumsUp ==
  ASSUME NEW s \in Candidate, NEW of, of \subseteq Work, SumsUp(s, of), NEW w \in Work
  PROVE  /\ Joined(s, w) \in Candidate /\ Joined(s, w).key = s.key /\ Joined(s, w).kind = s.kind
         /\ SumsUp(Joined(s, w), of \cup {w})
<1> DEFINE l == s.links \o Those(w.links, Range(w.links) \ Range(s.links))
           t == IF Size(w) > s.size THEN w.abstract ELSE s.text
           z == Max({Size(w), s.size})
           j == Joined(s, w)
<1>1. l \in Seq(Links) /\ Range(l) = Range(s.links) \cup Range(w.links)
  BY LinksOfBoth DEF Candidate, Work
<1>2. s.size \in Nat /\ Size(w) \in Nat
  BY SizeType DEF Candidate
<1>3. z \in Nat /\ z = IF Size(w) >= s.size THEN Size(w) ELSE s.size
  BY <1>2, LargerOfTwo
<1>4. t \in Seq(Sentences)
  BY DEF Candidate, Work
<1>5. j = [s EXCEPT !.links = l, !.text = t, !.size = z]
  BY DEF Joined
<1> HIDE DEF l, z, j
<1>6. j \in Candidate /\ j.key = s.key /\ j.kind = s.kind /\ j.links = l /\ j.text = t /\ j.size = z
  BY <1>1, <1>3, <1>4, <1>5 DEF Candidate
<1>7. \A w2 \in of \cup {w} : Size(w2) <= z
  <2>1. \A w2 \in of : Size(w2) \in Nat /\ Size(w2) <= s.size
    BY SizeType DEF SumsUp
  <2> QED
    BY <1>2, <1>3, <2>1
<1>8. \E w2 \in of \cup {w} : t = w2.abstract /\ Size(w2) = z
  <2>1. CASE Size(w) > s.size
    BY <1>2, <1>3, <2>1
  <2>2. CASE ~(Size(w) > s.size)
    <3>1. PICK w2 \in of : s.text = w2.abstract /\ Size(w2) = s.size
      BY DEF SumsUp
    <3> QED
      BY <1>2, <1>3, <2>2, <3>1
  <2> QED
    BY <2>1, <2>2
<1>9. Range(l) = UNION {Range(w2.links) : w2 \in of \cup {w}}
  BY <1>1 DEF SumsUp
<1> QED
  BY <1>6, <1>7, <1>8, <1>9 DEF SumsUp, j

LEMMA FoldKnown ==
  ASSUME NEW W \in SUBSET Work, NEW f, Merges(W, f), NEW w \in Work, DedupKey(w) # <<>>,
         NEW n \in 1 .. Len(f), f[n].key = DedupKey(w)
  PROVE  Merges(W \cup {w}, [f EXCEPT ![n] = Joined(f[n], w)])
<1> DEFINE e == Joined(f[n], w)
           g == [f EXCEPT ![n] = e]
           V == W \cup {w}
           of(U, k) == {x \in U : DedupKey(x) = k}
<1>1. f \in Seq(Candidate) /\ f[n] \in Candidate
  BY DEF Merges
<1>2. SumsUp(f[n], of(W, f[n].key)) /\ f[n].kind = "abstract" /\ f[n].key # <<>>
  BY DEF Merges
<1>3. of(W, f[n].key) \subseteq Work
  OBVIOUS
<1>4. of(V, f[n].key) = of(W, f[n].key) \cup {w}
  OBVIOUS
<1>5. e \in Candidate /\ e.key = f[n].key /\ e.kind = "abstract" /\ SumsUp(e, of(V, f[n].key))
  <2> DEFINE O == of(W, f[n].key)
  <2>1. O \subseteq Work /\ SumsUp(f[n], O) /\ of(V, f[n].key) = O \cup {w}
    BY <1>2, <1>3, <1>4
  <2> HIDE DEF O
  <2>2. e \in Candidate /\ e.key = f[n].key /\ e.kind = f[n].kind /\ SumsUp(e, O \cup {w})
    BY <1>1, <2>1, JoinedSumsUp, Zenon DEF e
  <2> QED
    BY <1>2, <2>1, <2>2
<1> HIDE DEF e
<1>6. g \in Seq(Candidate) /\ Len(g) = Len(f) /\ g[n] = e /\ \A i \in 1 .. Len(f) : i # n => g[i] = f[i]
  BY <1>1, <1>5
<1> HIDE DEF g
<1>7. \A i \in 1 .. Len(f) : i # n => of(V, f[i].key) = of(W, f[i].key)
  BY DEF Merges
<1>8. \A i \in 1 .. Len(f) : g[i].key = f[i].key
  BY <1>5, <1>6
<1>9. \A i, j \in 1 .. Len(g) : g[i].key = g[j].key => i = j
  BY <1>6, <1>8 DEF Merges
<1>10. \A i \in 1 .. Len(g) : g[i].kind = "abstract" /\ g[i].key # <<>> /\ SumsUp(g[i], of(V, g[i].key))
  <2> SUFFICES ASSUME NEW i \in 1 .. Len(g)
               PROVE  g[i].kind = "abstract" /\ g[i].key # <<>> /\ SumsUp(g[i], of(V, g[i].key))
    OBVIOUS
  <2>3. of(V, g[i].key) = of(V, f[i].key)
    BY <1>6, <1>8
  <2> HIDE DEF of
  <2>1. CASE i = n
    BY <1>2, <1>5, <1>6, <2>1, <2>3
  <2>2. CASE i # n
    <3>1. i \in 1 .. Len(f) /\ g[i] = f[i] /\ of(V, f[i].key) = of(W, f[i].key)
      BY <1>6, <1>7, <2>2
    <3>2. f[i].kind = "abstract" /\ f[i].key # <<>> /\ SumsUp(f[i], of(W, f[i].key))
      BY <3>1 DEF Merges, of
    <3> QED
      BY <2>3, <3>1, <3>2
  <2> QED
    BY <2>1, <2>2
<1>11. \A x \in V : DedupKey(x) # <<>> => \E i \in 1 .. Len(g) : g[i].key = DedupKey(x)
  BY <1>6, <1>8 DEF Merges
<1> QED
  BY <1>6, <1>9, <1>10, <1>11 DEF Merges, g, e

LEMMA FoldMerges ==
  ASSUME NEW W \in SUBSET Work, NEW f, Merges(W, f), NEW w \in Work
  PROVE  Merges(W \cup {w}, Fold(f, w))
<1> DEFINE same == {i \in DOMAIN f : f[i].key = DedupKey(w)}
           n == CHOOSE i \in same : TRUE
<1>1. f \in Seq(Candidate) /\ DOMAIN f = 1 .. Len(f)
  BY DEF Merges
<1>2. CASE DedupKey(w) = <<>>
  <2>1. Fold(f, w) = f
    BY <1>2 DEF Fold
  <2> DEFINE of(U, k) == {x \in U : DedupKey(x) = k}
  <2>2. \A i \in 1 .. Len(f) : of(W \cup {w}, f[i].key) = of(W, f[i].key)
    BY <1>2 DEF Merges
  <2>3. \A i \in 1 .. Len(f) : f[i].kind = "abstract" /\ f[i].key # <<>> /\ SumsUp(f[i], of(W, f[i].key))
    BY DEF Merges
  <2> HIDE DEF of
  <2>4. \A i \in 1 .. Len(f) :
          f[i].kind = "abstract" /\ f[i].key # <<>> /\ SumsUp(f[i], of(W \cup {w}, f[i].key))
    BY <2>2, <2>3
  <2>5. \A x \in W \cup {w} : DedupKey(x) # <<>> => \E i \in 1 .. Len(f) : f[i].key = DedupKey(x)
    BY <1>2 DEF Merges
  <2>6. f \in Seq(Candidate) /\ \A i, j \in 1 .. Len(f) : f[i].key = f[j].key => i = j
    BY DEF Merges
  <2>7. Merges(W \cup {w}, f)
    BY <2>4, <2>5, <2>6 DEF Merges, of
  <2> QED
    BY <2>1, <2>7
<1>3. CASE DedupKey(w) # <<>> /\ same = {}
  <2>1. Fold(f, w) = Append(f, [key |-> DedupKey(w), size |-> Size(w), text |-> w.abstract,
                               kind |-> "abstract", links |-> w.links])
    BY <1>3 DEF Fold
  <2> QED
    BY <1>1, <1>3, <2>1, FoldNew
<1>4. CASE DedupKey(w) # <<>> /\ same # {}
  <2>1. n \in 1 .. Len(f) /\ f[n].key = DedupKey(w)
    BY <1>1, <1>4, SMTT(60)
  <2>2. Fold(f, w) = [f EXCEPT ![n].links = @ \o Those(w.links, Range(w.links) \ Range(@)),
                               ![n].text = IF Size(w) > f[n].size THEN w.abstract ELSE @,
                               ![n].size = Max({Size(w), @})]
    BY <1>4 DEF Fold
  <2> HIDE DEF n
  <2>3. f[n] \in Candidate
    BY <1>1, <2>1
  <2>4. Fold(f, w) = [f EXCEPT ![n] = Joined(f[n], w)]
    BY <1>1, <2>1, <2>2, <2>3 DEF Joined, Candidate
  <2>5. Merges(W \cup {w}, [f EXCEPT ![n] = Joined(f[n], w)])
    BY <1>4, <2>1, FoldKnown, Zenon
  <2> QED
    BY <2>4, <2>5
<1> QED
  BY <1>2, <1>3, <1>4

\* All works, one after the other.
LEMMA MergedIs ==
  ASSUME NEW s \in Seq(Work)
  PROVE  \E all : Merges(Range(s), all) /\ Merged(s) = SubSeq(all, 1, Min({MaxSources, Len(all)}))
<1> DEFINE N == Len(s)
           B == {f \in Seq(Candidate) : \E W \in SUBSET Work : Merges(W, f)}
           step == [x \in (1 .. N) \X B |-> Fold(x[2], s[x[1]])]
           Body(u) == [n \in 0 .. N |-> IF n = 0 THEN <<>> ELSE Fold(u[n - 1], s[n])]
           F == CHOOSE u : u = Body(u)
           First(n) == {s[i] : i \in 1 .. n}
<1>1. N \in Nat /\ \A n \in 1 .. N : s[n] \in Work
  OBVIOUS
<1>2. Merges({}, <<>>) /\ <<>> \in B
  <2>1. Merges({}, <<>>)
    BY DEF Merges
  <2> QED
    BY <2>1
<1>3. \A f \in B, w \in Work : Fold(f, w) \in B
  <2> SUFFICES ASSUME NEW f \in B, NEW w \in Work PROVE Fold(f, w) \in B
    OBVIOUS
  <2>1. PICK W \in SUBSET Work : Merges(W, f)
    OBVIOUS
  <2>2. Merges(W \cup {w}, Fold(f, w)) /\ W \cup {w} \in SUBSET Work
    BY <2>1, FoldMerges
  <2>3. Fold(f, w) \in Seq(Candidate)
    BY <2>2 DEF Merges
  <2> QED
    BY <2>2, <2>3
<1>4. step \in Steps(N, B) /\ \A n \in 1 .. N, f \in B : step[<<n, f>>] = Fold(f, s[n])
  <2> HIDE DEF B
  <2> QED
    BY <1>1, <1>3 DEF Steps
<1>5. Merged(s) = SubSeq(F[N], 1, Min({MaxSources, Len(F[N])}))
  BY DEF Merged
<1> HIDE DEF N, B, step
<1>6. PICK f : f \in [0 .. N -> B] /\ f[0] = <<>> /\ \A i \in 1 .. N : f[i] = step[<<i, f[i - 1]>>]
  <2>1. \E f : Follows(f, N, B, <<>>, step)
    BY <1>1, <1>2, <1>4, Recursion, Zenon
  <2> QED
    BY <2>1 DEF Follows
<1>7. ASSUME NEW n \in 0 .. N PROVE f[n] = IF n = 0 THEN <<>> ELSE Fold(f[n - 1], s[n])
  <2>1. CASE n = 0
    BY <1>6, <2>1
  <2>2. CASE n # 0
    <3>1. n \in 1 .. N /\ n - 1 \in 0 .. N
      BY <1>1, <2>2
    <3>2. f[n] = step[<<n, f[n - 1]>>] /\ f[n - 1] \in B
      BY <1>6, <3>1
    <3> QED
      BY <1>4, <2>2, <3>1, <3>2
  <2> QED
    BY <2>1, <2>2
<1>8. f = Body(f)
  <2>1. f = [n \in 0 .. N |-> f[n]]
    BY <1>6
  <2> QED
    BY <1>7, <2>1
<1>9. F = Body(F)
  BY <1>8
<1> HIDE DEF F
<1>10. F[0] = <<>> /\ \A n \in 1 .. N : F[n] = Fold(F[n - 1], s[n])
  <2>1. 0 \in 0 .. N /\ \A n \in 1 .. N : n \in 0 .. N /\ n # 0
    BY <1>1
  <2>2. \A n \in 0 .. N : F[n] = IF n = 0 THEN <<>> ELSE Fold(F[n - 1], s[n])
    BY <1>9
  <2> QED
    BY <2>1, <2>2
<1>11. \A n \in 0 .. N : n \in {m \in Nat : Merges(First(m), F[m])}
  <2> DEFINE T == {m \in Nat : Merges(First(m), F[m])}
  <2>1. 0 \in T
    <3>1. First(0) = {}
      OBVIOUS
    <3> QED
      BY <1>2, <1>10, <3>1
  <2>2. ASSUME NEW n \in 1 .. N, n - 1 \in T PROVE n \in T
    <3>1. s[n] \in Work /\ First(n - 1) \in SUBSET Work /\ n \in Nat
      BY <1>1
    <3>2. First(n) = First(n - 1) \cup {s[n]}
      <4>1. \A i \in 1 .. n : i \in 1 .. n - 1 \/ i = n
        BY <1>1
      <4>2. n \in 1 .. n /\ \A i \in 1 .. n - 1 : i \in 1 .. n
        BY <1>1
      <4> QED
        BY <4>1, <4>2
    <3> HIDE DEF First
    <3>3. Merges(First(n - 1), F[n - 1])
      BY <2>2
    <3>4. Merges(First(n - 1) \cup {s[n]}, Fold(F[n - 1], s[n]))
      BY <3>1, <3>3, FoldMerges
    <3> QED
      BY <1>10, <3>1, <3>2, <3>4
  <2> HIDE DEF T
  <2>3. \A n \in 0 .. N : n \in T
    BY <1>1, <2>1, <2>2, InductionUpTo
  <2> QED
    BY <2>3 DEF T
<1>12. Range(s) = First(N)
  BY RangeEquality DEF N
<1>13. Merges(First(N), F[N])
  <2> HIDE DEF First
  <2>1. N \in 0 .. N
    BY <1>1
  <2> QED
    BY <1>11, <2>1
<1> QED
  BY <1>5, <1>12, <1>13

-----------------------------------------------------------------------------
(* What a search may come to                                                 *)

Reply == [works : Seq(Work), failed : BOOLEAN]

\* The recursion of SearchProvider.
Usable(works) == Those(works, {w \in Range(works) : Len(w.abstract) >= MinAbstract})
Ask(x, reply) ==
  IF Len(x.out) >= MaxSources THEN x
  ELSE [out |-> x.out \o Usable(reply.works), failures |-> x.failures + IF reply.failed THEN 1 ELSE 0]
AskedOf(p, r) == Min({IF p = "arxiv" THEN ArxivQueries ELSE Len(r), Len(r)})
Heard == [out : Seq(Work), failures : Nat]
Hears(u, p, r) ==
  /\ u[0] = [out |-> <<>>, failures |-> 0]
  /\ \A n \in 1 .. AskedOf(p, r) : u[n] = Ask(u[n - 1], r[n])
  /\ \A n \in 0 .. AskedOf(p, r) : u[n] \in Heard
  /\ SearchProvider(p, r) =
       IF p = "semanticscholar" /\ ~HasKey THEN [out |-> <<>>, unreachable |-> FALSE]
       ELSE [out |-> u[AskedOf(p, r)].out,
             unreachable |-> u[AskedOf(p, r)].failures > 0 /\ u[AskedOf(p, r)].out = <<>>]

LEMMA ProviderUnfold == ASSUME NEW p, NEW r \in Seq(Reply) PROVE \E u : Hears(u, p, r)
<1> USE DEF Heard
<1> DEFINE N == AskedOf(p, r)
           B == Heard
           zero == [out |-> <<>>, failures |-> 0]
           step == [x \in (1 .. N) \X B |-> Ask(x[2], r[x[1]])]
           Body(u) == [n \in 0 .. N |-> IF n = 0 THEN zero ELSE Ask(u[n - 1], r[n])]
           F == CHOOSE u : u = Body(u)
<1>1. N \in Nat /\ N <= Len(r) /\ zero \in B
  BY SearchAssumption, SmallerOfTwo DEF AskedOf
<1>2. \A n \in 1 .. N : r[n] \in Reply
  <2> HIDE DEF N
  <2> QED
    BY <1>1
<1>3. \A x \in B, reply \in Reply : Ask(x, reply) \in B
  <2> SUFFICES ASSUME NEW x \in B, NEW reply \in Reply PROVE Ask(x, reply) \in B
    OBVIOUS
  <2>1. reply.works \in Seq(Work) /\ x.out \in Seq(Work) /\ x.failures \in Nat
    BY DEF Reply
  <2>2. Usable(reply.works) \in Seq(Work)
    BY <2>1, ThoseAre DEF Usable
  <2>3. x.out \o Usable(reply.works) \in Seq(Work)
    BY <2>1, <2>2, ConcatProperties
  <2> QED
    BY <2>1, <2>3 DEF Ask
<1>4. SearchProvider(p, r) =
        IF p = "semanticscholar" /\ ~HasKey THEN [out |-> <<>>, unreachable |-> FALSE]
        ELSE [out |-> F[N].out, unreachable |-> F[N].failures > 0 /\ F[N].out = <<>>]
  BY DEF SearchProvider, Ask, Usable, AskedOf
<1> HIDE DEF zero, N, B
<1>5. step \in Steps(N, B) /\ \A n \in 1 .. N, b \in B : step[<<n, b>>] = Ask(b, r[n])
  BY <1>2, <1>3 DEF Steps
<1> HIDE DEF step
<1>6. PICK f : f \in [0 .. N -> B] /\ f[0] = zero /\ \A i \in 1 .. N : f[i] = step[<<i, f[i - 1]>>]
  <2>1. \E f : Follows(f, N, B, zero, step)
    BY <1>1, <1>5, Recursion, Zenon
  <2> QED
    BY <2>1 DEF Follows
<1>7. ASSUME NEW n \in 0 .. N PROVE f[n] = IF n = 0 THEN zero ELSE Ask(f[n - 1], r[n])
  <2>1. CASE n = 0
    BY <1>6, <2>1
  <2>2. CASE n # 0
    <3>1. n \in 1 .. N /\ n - 1 \in 0 .. N
      BY <1>1, <2>2
    <3> QED
      BY <1>5, <1>6, <2>2, <3>1
  <2> QED
    BY <2>1, <2>2
<1>8. f = Body(f)
  <2>1. f = [n \in 0 .. N |-> f[n]]
    BY <1>6
  <2> QED
    BY <1>7, <2>1
<1>9. F = Body(F)
  BY <1>8
<1> HIDE DEF F
<1>10. F[0] = zero /\ \A n \in 1 .. N : F[n] = Ask(F[n - 1], r[n])
  <2>1. 0 \in 0 .. N /\ \A n \in 1 .. N : n \in 0 .. N /\ n # 0
    BY <1>1
  <2>2. \A n \in 0 .. N : F[n] = IF n = 0 THEN zero ELSE Ask(F[n - 1], r[n])
    BY <1>9
  <2> QED
    BY <2>1, <2>2
<1>11. \A n \in 0 .. N : n \in {m \in Nat : F[m] \in B}
  <2> DEFINE T == {m \in Nat : F[m] \in B}
  <2>1. 0 \in T
    BY <1>1, <1>10
  <2>2. ASSUME NEW n \in 1 .. N, n - 1 \in T PROVE n \in T
    BY <1>1, <1>2, <1>3, <1>10, <2>2, SMTT(60)
  <2> HIDE DEF T
  <2>3. \A n \in 0 .. N : n \in T
    BY <1>1, <2>1, <2>2, InductionUpTo
  <2> QED
    BY <2>3 DEF T
<1>12. \A n \in 0 .. N : F[n] \in B
  BY <1>11
<1>13. Hears(F, p, r)
  BY <1>4, <1>10, <1>12 DEF Hears, N, B, zero
<1> QED
  BY <1>13

\* What is asked of a database.
LEMMA AskedIs ==
  ASSUME NEW p, NEW r \in Seq(Reply)
  PROVE  /\ AskedOf(p, r) \in 0 .. Len(r)
         /\ 1 .. AskedOf(p, r) = {i \in DOMAIN r : p = "arxiv" => i <= ArxivQueries}
<1> DEFINE most == IF p = "arxiv" THEN ArxivQueries ELSE Len(r)
           n == AskedOf(p, r)
<1>1. most \in Nat /\ Len(r) \in Nat /\ DOMAIN r = 1 .. Len(r)
  BY SearchAssumption
<1>2. n \in {most, Len(r)} /\ n <= most /\ n <= Len(r)
  BY <1>1, SmallerOfTwo DEF AskedOf
<1> QED
  BY <1>1, <1>2

\* A database gives works, however many of its answers are asked for.
LEMMA ProviderType == ASSUME NEW p, NEW r \in Seq(Reply) PROVE SearchProvider(p, r).out \in Seq(Work)
<1>1. PICK u : Hears(u, p, r)
  BY ProviderUnfold
<1> DEFINE N == AskedOf(p, r)
<1>2. N \in 0 .. N
  BY AskedIs
<1>3. u[N] \in Heard
  BY <1>1, <1>2 DEF Hears
<1>4. u[N].out \in Seq(Work)
  BY <1>3 DEF Heard
<1> QED
  BY <1>1, <1>4 DEF Hears

LEMMA OutcomeIs ==
  ASSUME NEW o \in Outcomes
  PROVE  /\ o.works \in Seq(Work)
         /\ \E all : Merges(Range(o.works), all) /\ o.found = SubSeq(all, 1, Min({MaxSources, Len(all)}))
         /\ o.chosen = Chosen(o.for, o.found)
         /\ o.unreachable \subseteq Databases
<1>1. PICK m \in UNION {Range(s) : s \in Submissions}, r \in ReplySets, a \in Arrivals : o = Outcome(m, r, a)
  BY DEF Outcomes
<1> DEFINE q == Len(BuildQueries(m))
           given == [p \in Databases |-> Contribution(p, r[p], q)]
           outs == [i \in DOMAIN a |-> given[a[i]].out]
           all == FlattenSeq(outs)
<1>2. Cardinality(Databases) \in Nat
  BY SharedAssumption, FS_CardinalityType
<1>3. a \in [1 .. Cardinality(Databases) -> Databases] /\ \A p \in Databases : r[p] \in Replies[p]
  BY DEF Arrivals, ReplySets
<1>4. ASSUME NEW p \in Databases PROVE Contribution(p, r[p], q).out \in Seq(Work)
  <2>1. CASE r[p] = Raised
    BY <2>1 DEF Contribution
  <2>2. CASE r[p] # Raised
    <3> DEFINE n == Min({q, Len(r[p])})
    <3>1. r[p] \in Seq(Reply)
      BY <1>3, <2>2, SharedAssumption DEF Reply
    <3>2. q \in Nat /\ Len(r[p]) \in Nat
      OBVIOUS
    <3>3. n \in Nat /\ n <= Len(r[p])
      BY <3>2, SmallerOfTwo
    <3> HIDE DEF n
    <3>4. \A i \in 1 .. n : r[p][i] \in Reply
      BY <3>1, <3>3
    <3>5. SubSeq(r[p], 1, n) \in Seq(Reply)
      BY <3>3, <3>4, SubSeqProperties
    <3>6. Contribution(p, r[p], q).out = SearchProvider(p, SubSeq(r[p], 1, n)).out
      BY <2>2 DEF Contribution, n
    <3> QED
      BY <3>5, <3>6, ProviderType
  <2> QED
    BY <2>1, <2>2
<1>5. outs \in Seq(Seq(Work))
  <2>1. \A i \in 1 .. Cardinality(Databases) : outs[i] \in Seq(Work)
    BY <1>3, <1>4
  <2>2. outs \in [1 .. Cardinality(Databases) -> Seq(Work)]
    <3>1. DOMAIN a = 1 .. Cardinality(Databases)
      BY <1>3
    <3> QED
      BY <2>1, <3>1
  <2> HIDE DEF outs
  <2> QED
    BY <1>2, <2>2
<1>6. all \in Seq(Work)
  <2> HIDE DEF outs
  <2> QED
    BY <1>5, FlattenType
<1>7. /\ o.for = m /\ o.works = all /\ o.found = Merged(all) /\ o.chosen = Chosen(m, Merged(all))
      /\ o.unreachable = {p \in Databases : given[p].unreachable}
  BY <1>1 DEF Outcome
<1> HIDE DEF all
<1> QED
  BY <1>6, <1>7, MergedIs

-----------------------------------------------------------------------------
(* The full texts                                                            *)

One(u) == IF u \in Public THEN <<u>> ELSE <<>>

\* A list of at most two.
IsShort(L, S) == L \in Seq(S) /\ (L = <<>> \/ (\E a \in S : L = <<a>>) \/ (\E a, b \in S : L = <<a, b>>))

LEMMA ShortLists == ASSUME NEW S, NEW L \in Seq(S), Len(L) <= 2 PROVE IsShort(L, S)
<1>1. L \in [1 .. Len(L) -> S] /\ Len(L) \in Nat
  BY LenProperties
<1>2. Len(L) = 0 \/ Len(L) = 1 \/ Len(L) = 2
  <2> DEFINE n == Len(L)
  <2>1. n \in Nat /\ n <= 2
    BY <1>1
  <2> HIDE DEF n
  <2>2. n = 0 \/ n = 1 \/ n = 2
    BY <2>1
  <2> QED
    BY <2>2 DEF n
<1>3. CASE Len(L) = 0
  BY <1>3, EmptySeq DEF IsShort
<1>4. CASE Len(L) = 1
  <2>1. 1 \in 1 .. Len(L)
    BY <1>4
  <2>2. L[1] \in S
    BY <1>1, <2>1
  <2>3. <<L[1]>> \in Seq(S) /\ Len(<<L[1]>>) = 1 /\ <<L[1]>>[1] = L[1]
    BY <2>2
  <2>4. \A i \in 1 .. Len(L) : i = 1
    BY <1>4
  <2>5. L = <<L[1]>>
    <3> DEFINE M == <<L[1]>>
    <3>1. M \in Seq(S) /\ Len(M) = 1 /\ M[1] = L[1]
      BY <2>3
    <3> HIDE DEF M
    <3>2. L = M
      BY <1>4, <2>4, <3>1, SeqEqual
    <3> QED
      BY <3>2 DEF M
  <2> QED
    BY <2>2, <2>5 DEF IsShort
<1>5. CASE Len(L) = 2
  <2>1. 1 \in 1 .. Len(L) /\ 2 \in 1 .. Len(L)
    BY <1>5
  <2>2. L[1] \in S /\ L[2] \in S
    BY <1>1, <2>1
  <2>3. <<L[1], L[2]>> \in Seq(S) /\ Len(<<L[1], L[2]>>) = 2 /\ <<L[1], L[2]>>[1] = L[1] /\ <<L[1], L[2]>>[2] = L[2]
    BY <2>2
  <2>4. \A i \in 1 .. Len(L) : i = 1 \/ i = 2
    BY <1>5
  <2>5. L = <<L[1], L[2]>>
    <3> DEFINE M == <<L[1], L[2]>>
    <3>1. M \in Seq(S) /\ Len(M) = 2 /\ M[1] = L[1] /\ M[2] = L[2]
      BY <2>3
    <3> HIDE DEF M
    <3>2. L = M
      BY <1>5, <2>4, <3>1, SeqEqual
    <3> QED
      BY <3>2 DEF M
  <2> QED
    BY <2>2, <2>5 DEF IsShort
<1> QED
  BY <1>2, <1>3, <1>4, <1>5

\* How far a task is with its links L: what is left of them and what it has learned of.
Position(L, l, urls) ==
  \/ l = L /\ urls = <<>>
  \/ \E a \in Links : L = <<a>> /\ l = <<>> /\ urls \in {<<>>, One(a)}
  \/ \E a, b \in Links : /\ L = <<a, b>>
                         /\ \/ l = <<b>> /\ urls = One(a)
                            \/ l = <<>> /\ urls \in {<<>>, One(a), One(a) \o One(b)}

LEMMA Moves ==
  ASSUME NEW L, IsShort(L, Links), NEW l, l # <<>>, NEW urls, Position(L, l, urls)
  PROVE  /\ Head(l) \notin Public => Position(L, Tail(l), urls)
         /\ Head(l) \in Public => /\ Position(L, Tail(l), Append(urls, Head(l)))
                                 /\ Position(L, <<>>, Append(urls, Head(l)))
<1> USE DEF One
<1>1. CASE l = L /\ urls = <<>>
  <2>1. CASE L = <<>>
    BY <1>1, <2>1
  <2>2. ASSUME NEW a \in Links, L = <<a>>
        PROVE  /\ Head(l) \notin Public => Position(L, Tail(l), urls)
               /\ Head(l) \in Public => /\ Position(L, Tail(l), Append(urls, Head(l)))
                                       /\ Position(L, <<>>, Append(urls, Head(l)))
    <3>1. Head(l) = a /\ Tail(l) = <<>> /\ Append(urls, a) = <<a>>
      BY <1>1, <2>2
    <3> QED
      BY <1>1, <2>2, <3>1 DEF Position
  <2>3. ASSUME NEW a \in Links, NEW b \in Links, L = <<a, b>>
        PROVE  /\ Head(l) \notin Public => Position(L, Tail(l), urls)
               /\ Head(l) \in Public => /\ Position(L, Tail(l), Append(urls, Head(l)))
                                       /\ Position(L, <<>>, Append(urls, Head(l)))
    <3>1. Head(l) = a /\ Tail(l) = <<b>> /\ Append(urls, a) = <<a>>
      BY <1>1, <2>3
    <3> QED
      BY <1>1, <2>3, <3>1 DEF Position
  <2> QED
    BY <2>1, <2>2, <2>3 DEF IsShort
<1>2. ASSUME NEW a \in Links, NEW b \in Links, L = <<a, b>>, l = <<b>>, urls = One(a)
      PROVE  /\ Head(l) \notin Public => Position(L, Tail(l), urls)
             /\ Head(l) \in Public => /\ Position(L, Tail(l), Append(urls, Head(l)))
                                     /\ Position(L, <<>>, Append(urls, Head(l)))
  <2>1. Head(l) = b /\ Tail(l) = <<>> /\ (b \in Public => Append(urls, b) = One(a) \o One(b))
    BY <1>2
  <2> QED
    BY <1>2, <2>1 DEF Position
<1> QED
  BY <1>1, <1>2 DEF Position

\* What a set holds of a list of at most two.
LEMMA PublicOnes ==
  /\ Those(<<>>, Public) = <<>>
  /\ \A a \in Links : Those(<<a>>, Public) = One(a)
  /\ \A a, b \in Links : Those(<<a, b>>, Public) = One(a) \o One(b)
<1>1. Those(<<>>, Public) = <<>>
  <2>1. <<>> \in Seq(Links) /\ Len(<<>>) = 0
    OBVIOUS
  <2>2. PICK u : Chooses(u, Links, <<>>, Public)
    BY <2>1, ThoseUnfold
  <2> QED
    BY <2>1, <2>2 DEF Chooses
<1>2. ASSUME NEW a \in Links PROVE Those(<<a>>, Public) = One(a)
  <2>1. <<a>> \in Seq(Links) /\ Len(<<a>>) = 1 /\ <<a>>[1] = a /\ 1 \in 1 .. 1 /\ 1 - 1 = 0
    OBVIOUS
  <2>2. PICK u : Chooses(u, Links, <<a>>, Public)
    BY <2>1, ThoseUnfold
  <2>3. u[1] = IF a \in Public THEN Append(<<>>, a) ELSE <<>>
    BY <2>1, <2>2 DEF Chooses
  <2> QED
    BY <2>1, <2>2, <2>3 DEF Chooses, One
<1>3. ASSUME NEW a \in Links, NEW b \in Links PROVE Those(<<a, b>>, Public) = One(a) \o One(b)
  <2> DEFINE L == <<a, b>>
  <2>1. L \in Seq(Links) /\ Len(L) = 2 /\ L[1] = a /\ L[2] = b
    OBVIOUS
  <2> HIDE DEF L
  <2>2. PICK u : Chooses(u, Links, L, Public)
    BY <2>1, ThoseUnfold
  <2>3. 1 \in 1 .. 2 /\ 2 \in 1 .. 2 /\ 1 - 1 = 0 /\ 2 - 1 = 1
    OBVIOUS
  <2>4. u[1] = IF a \in Public THEN Append(<<>>, a) ELSE <<>>
    BY <2>1, <2>2, <2>3 DEF Chooses
  <2>5. u[1] = One(a)
    BY <2>4 DEF One
  <2>6. u[2] = IF b \in Public THEN Append(u[1], b) ELSE u[1]
    BY <2>1, <2>2, <2>3 DEF Chooses
  <2>7. u[2] = One(a) \o One(b)
    <3>1. One(a) \in Seq(Links)
      BY DEF One
    <3>2. Append(One(a), b) = One(a) \o <<b>> /\ One(a) \o <<>> = One(a)
      BY <3>1, AppendIsConcat, ConcatEmptySeq
    <3> QED
      BY <2>5, <2>6, <3>2 DEF One
  <2> QED
    BY <2>1, <2>2, <2>7 DEF Chooses, L
<1> QED
  BY <1>1, <1>2, <1>3

\* Wherever a task is, it has learned of public links of its own, in their order.
LEMMA PositionIsPrefix ==
  ASSUME NEW L, IsShort(L, Links), NEW l, NEW urls, Position(L, l, urls)
  PROVE  IsPrefix(urls, Those(L, Public)) /\ Range(urls) \subseteq Range(L)
<1>1. CASE urls = <<>>
  <2>1. Those(L, Public) \in Seq(Links)
    BY ThoseAre DEF IsShort
  <2> QED
    BY <1>1, <2>1 DEF IsPrefix, Range
<1>2. ASSUME NEW a \in Links, L = <<a>>, urls = One(a) PROVE IsPrefix(urls, Those(L, Public)) /\ Range(urls) \subseteq Range(L)
  <2>1. Those(L, Public) = One(a)
    BY <1>2, PublicOnes
  <2> QED
    BY <1>2, <2>1 DEF IsPrefix, Range, One
<1>3. ASSUME NEW a \in Links, NEW b \in Links, L = <<a, b>>, urls \in {One(a), One(a) \o One(b)}
      PROVE  IsPrefix(urls, Those(L, Public)) /\ Range(urls) \subseteq Range(L)
  <2>1. Those(L, Public) = One(a) \o One(b)
    BY <1>3, PublicOnes
  <2>2. One(a) \in {<<>>, <<a>>} /\ One(b) \in {<<>>, <<b>>}
    BY DEF One
  <2>3. urls \in {<<>>, <<a>>, <<b>>, <<a, b>>} /\ Range(L) = {a, b}
    BY <1>3, <2>2 DEF Range
  <2>4. Range(urls) \subseteq Range(L)
    BY <2>3 DEF Range
  <2>5. IsPrefix(urls, One(a) \o One(b))
    BY <1>3, <2>2 DEF IsPrefix
  <2> QED
    BY <2>1, <2>4, <2>5
<1> QED
  BY <1>1, <1>2, <1>3 DEF Position

LEMMA FirstTwoShort == ASSUME NEW l \in Seq(Links) PROVE IsShort(FirstTwo(l), Links)
<1>1. CASE Len(l) > 2
  <2>1. Len(l) \in Nat /\ \A i \in 1 .. 2 : l[i] \in Links
    BY <1>1
  <2>2. SubSeq(l, 1, 2) \in Seq(Links) /\ Len(SubSeq(l, 1, 2)) = 2
    BY <2>1, SubSeqProperties
  <2> DEFINE m == SubSeq(l, 1, 2)
  <2>3. FirstTwo(l) = m
    BY <1>1 DEF FirstTwo
  <2>4. m \in Seq(Links) /\ Len(m) <= 2
    BY <2>2
  <2> HIDE DEF m
  <2> QED
    BY <2>3, <2>4, ShortLists
<1>2. CASE ~(Len(l) > 2)
  BY <1>2, ShortLists DEF FirstTwo
<1> QED
  BY <1>1, <1>2

\* A text is one because the link answered with it.
Honest(r) == r.ok => \E a \in Answers[r.url] : a.url \in Public /\ Accepted(a)

Learned == [result : Result, read : 0 .. MaxTime]

FetchTypes ==
  /\ now \in 0 .. MaxTime
  /\ data \in [Links -> C!Entry \cup {C!NoEntry}]
  /\ left \in [Tasks -> Seq(Links)]
  /\ asking \in [Tasks -> BOOLEAN]
  /\ tried \in [Tasks -> Seq(Learned)]

\* What the cache holds is about the link it is held under, and was obtained when it was put.
CacheIsHonest ==
  \A u \in Links : C!Present(u) =>
    data[u].value.url = u /\ data[u].value.at = data[u].at /\ Honest(data[u].value)

AsksForPublic == \A t \in Tasks : asking[t] => left[t] # <<>> /\ Url(t) \in Public

\* The step of a task: it passes a link over, or begins to ask, or learns of the link.
Passes(t) == Url(t) \notin Public /\ left' = [left EXCEPT ![t] = Tail(@)] /\ UNCHANGED tried
Finds(t, r) ==
  /\ r \in Result /\ r.url = Url(t) /\ Url(t) \in Public /\ now - r.at <= CacheTTL /\ Honest(r)
  /\ Learns(t, r, now)
Turn(t) ==
  \/ UNCHANGED <<left, tried>>
  \/ left[t] # <<>> /\ (Passes(t) \/ \E r \in Result : Finds(t, r))

LEMMA PutAnew ==
  ASSUME FetchTypes, CacheIsHonest, NEW u \in Links, NEW r \in Result, r.url = u, r.at = now, Honest(r), C!Put(u, r)
  PROVE  data' \in [Links -> C!Entry \cup {C!NoEntry}] /\ (now' = now => CacheIsHonest')
<1>1. now \in Nat /\ [at |-> now, value |-> r] \in C!Entry
  BY FullTextAssumption DEF FetchTypes, C!Entry
<1>2. data' \in [Links -> C!Entry \cup {C!NoEntry}]
  BY <1>1 DEF C!Put, FetchTypes
<1>3. \A x \in Links :
        \/ data'[x] = C!NoEntry
        \/ data'[x] = data[x]
        \/ (x = u /\ data'[x] = [at |-> now, value |-> r])
  BY DEF C!Put
<1>4. CacheIsHonest'
  BY <1>3 DEF CacheIsHonest, C!Present, Honest
<1> QED
  BY <1>2, <1>4

LEMMA FetchedIsKept ==
  ASSUME FetchTypes, CacheIsHonest, AsksForPublic, NEW t \in Tasks, FetchStep(t)
  PROVE  FetchTypes' /\ CacheIsHonest' /\ AsksForPublic' /\ Turn(t)
<1> USE FullTextAssumption
<1>1. left[t] \in Seq(Links) /\ tried[t] \in Seq(Learned)
  BY DEF FetchTypes
<1>2. left[t] # <<>> => Url(t) \in Links /\ Tail(left[t]) \in Seq(Links)
  BY <1>1, HeadTailProperties DEF Url
<1>3. CASE Refuse(t)
  <2>1. FetchTypes'
    BY <1>2, <1>3 DEF Refuse, FetchTypes
  <2>2. CacheIsHonest'
    BY <1>3 DEF Refuse, CacheIsHonest, C!Present
  <2>3. AsksForPublic'
    BY <1>3 DEF Refuse, AsksForPublic, FetchTypes, Url
  <2> QED
    BY <1>3, <2>1, <2>2, <2>3 DEF Refuse, Turn, Passes
<1>4. ASSUME NEW r \in Result, left[t] # <<>>, Learns(t, r, now)
      PROVE  left' \in [Tasks -> Seq(Links)] /\ tried' \in [Tasks -> Seq(Learned)]
             /\ \A u \in Tasks : u # t => left'[u] = left[u]
  <2>1. [result |-> r, read |-> now] \in Learned
    BY DEF Learned, FetchTypes
  <2>2. Append(tried[t], [result |-> r, read |-> now]) \in Seq(Learned)
    BY <1>1, <2>1, AppendProperties
  <2>3. <<>> \in Seq(Links)
    OBVIOUS
  <2> QED
    BY <1>2, <1>4, <2>2, <2>3 DEF Learns, FetchTypes
<1>5. CASE Known(t)
  <2> DEFINE r == data[Url(t)].value
  <2>1. left[t] # <<>> /\ ~asking[t] /\ Url(t) \in Public /\ Learns(t, r, now) /\ UNCHANGED <<now, asking, data>>
    BY <1>5 DEF Known, C!Hit
  <2>2. Url(t) \in Links /\ C!Present(Url(t)) /\ now - data[Url(t)].at <= CacheTTL
    BY <1>2, <1>5 DEF Known, C!Hit, C!Fresh
  <2>3. data[Url(t)] \in C!Entry
    BY <2>2 DEF FetchTypes, C!Present
  <2>4. r \in Result
    BY <2>3 DEF C!Entry
  <2>5. r.url = Url(t) /\ r.at = data[Url(t)].at /\ Honest(r)
    BY <2>2 DEF CacheIsHonest
  <2>6. Finds(t, r)
    BY <2>1, <2>2, <2>4, <2>5 DEF Finds
  <2> HIDE DEF r
  <2>7. FetchTypes'
    BY <1>4, <2>1, <2>4 DEF FetchTypes
  <2>8. CacheIsHonest'
    BY <2>1 DEF CacheIsHonest, C!Present, Honest
  <2>9. AsksForPublic'
    BY <1>4, <2>1, <2>4 DEF AsksForPublic, Url
  <2> QED
    BY <2>1, <2>4, <2>6, <2>7, <2>8, <2>9 DEF Turn
<1>6. CASE Unknown(t)
  <2>1. data' = [data EXCEPT ![Url(t)] = C!NoEntry] /\ UNCHANGED <<now, left, tried>>
    BY <1>6 DEF Unknown, C!Miss
  <2>2. FetchTypes'
    BY <1>6, <2>1 DEF Unknown, FetchTypes
  <2>3. CacheIsHonest'
    BY <2>1 DEF CacheIsHonest, C!Present, FetchTypes, Honest
  <2>4. AsksForPublic'
    BY <1>6 DEF Unknown, AsksForPublic, FetchTypes, Url
  <2> QED
    BY <2>1, <2>2, <2>3, <2>4 DEF Turn
<1>7. CASE Download(t)
  <2>1. PICK a \in Answers[Url(t)] :
          /\ Stored(t, a) /\ Learns(t, [url |-> Url(t), at |-> now, ok |-> Accepted(a)], now)
    BY <1>7 DEF Download
  <2> DEFINE r == [url |-> Url(t), at |-> now, ok |-> Accepted(a)]
  <2>2. left[t] # <<>> /\ Url(t) \in Public /\ Url(t) \in Links
    BY <1>2, <1>7 DEF Download, AsksForPublic
  <2>3. Accepted(a) \in BOOLEAN /\ (Accepted(a) => a.url \in Public)
    BY DEF Accepted
  <2>4. r \in Result /\ r.url = Url(t) /\ r.at = now /\ (r.ok => Accepted(a))
    BY <2>2, <2>3 DEF Result, FetchTypes
  <2>5. Honest(r)
    <3> HIDE DEF r
    <3> QED
      BY <2>3, <2>4 DEF Honest
  <2>6. C!Put(Url(t), r) /\ Learns(t, r, now) /\ now' = now /\ asking' = [asking EXCEPT ![t] = FALSE]
    BY <1>7, <2>1 DEF Stored, Download
  <2> HIDE DEF r
  <2>7. data' \in [Links -> C!Entry \cup {C!NoEntry}] /\ CacheIsHonest'
    BY <2>2, <2>4, <2>5, <2>6, PutAnew
  <2>8. FetchTypes'
    BY <1>4, <2>2, <2>4, <2>6, <2>7 DEF FetchTypes
  <2>9. AsksForPublic'
    BY <1>4, <2>2, <2>4, <2>6 DEF AsksForPublic, FetchTypes, Url
  <2>10. Finds(t, r)
    BY <2>2, <2>4, <2>5, <2>6 DEF Finds, FetchTypes
  <2> QED
    BY <2>2, <2>4, <2>7, <2>8, <2>9, <2>10 DEF Turn
<1> QED
  BY <1>3, <1>5, <1>6, <1>7 DEF FetchStep

-----------------------------------------------------------------------------
(* The sources of a check                                                    *)

CheckTypes ==
  /\ pc \in [Checks -> {"search", "fetch", "match", "alone", "rejected"}]
  /\ answered \in [Checks -> Seq(Work)]
  /\ sources \in [Checks -> Seq(Candidate)]
  /\ DOMAIN warnings = Checks

Urls(t) == [i \in DOMAIN tried[t] |-> tried[t][i].result.url]
LinksOf(t) == FirstTwo(sources[t[1]][t[2]].links)

\* A task has not begun, or is somewhere in the first links of its candidate.
Placed(t) ==
  /\ pc[t[1]] # "search" /\ t[2] \in DOMAIN sources[t[1]]
  /\ Position(LinksOf(t), left[t], Urls(t))
AtPlace == \A t \in Tasks : (left[t] = <<>> /\ tried[t] = <<>>) \/ Placed(t)

\* What a task has learned; it goes on only as long as there was no text.
Recent(t, i) == tried[t][i].read - tried[t][i].result.at <= CacheTTL /\ Honest(tried[t][i].result)
GoesOn(t, i) == i < Len(tried[t]) \/ left[t] # <<>> => ~tried[t][i].result.ok
LearnsInTurn == \A t \in Tasks : \A i \in DOMAIN tried[t] : Recent(t, i) /\ GoesOn(t, i)

SourcesInv == FetchTypes /\ CacheIsHonest /\ AsksForPublic /\ CheckTypes /\ AtPlace /\ LearnsInTurn

LEMMA FoundType ==
  ASSUME NEW o \in Outcomes
  PROVE  o.works \in Seq(Work) /\ o.found \in Seq(Candidate) /\ o.chosen \subseteq DOMAIN o.found
<1>1. PICK all : Merges(Range(o.works), all) /\ o.found = SubSeq(all, 1, Min({MaxSources, Len(all)}))
  BY OutcomeIs
<1>2. all \in Seq(Candidate) /\ Len(all) \in Nat
  BY <1>1 DEF Merges
<1> DEFINE n == Min({MaxSources, Len(all)})
<1>3. n \in Nat /\ n <= Len(all)
  BY <1>2, SearchAssumption, SmallerOfTwo
<1>4. o.found = SubSeq(all, 1, n)
  BY <1>1
<1> HIDE DEF n
<1>5. \A i \in 1 .. n : all[i] \in Candidate
  BY <1>2, <1>3
<1>6. SubSeq(all, 1, n) \in Seq(Candidate)
  BY <1>3, <1>5, SubSeqProperties
<1>7. o.chosen = Chosen(o.for, o.found)
  BY OutcomeIs
<1>8. o.chosen \subseteq DOMAIN o.found
  BY <1>7 DEF Chosen, WithLinks
<1> QED
  BY <1>4, <1>6, <1>8, OutcomeIs

LEMMA UrlsGrow ==
  ASSUME FetchTypes, NEW t \in Tasks, NEW r \in Result, Learns(t, r, now)
  PROVE  Urls(t)' = Append(Urls(t), r.url) /\ Urls(t) \in Seq(Links)
<1> DEFINE e == [result |-> r, read |-> now]
           s == tried[t]
<1>1. s \in Seq(Learned) /\ e \in Learned /\ e.result = r
  BY DEF FetchTypes, Learned
<1>2. tried'[t] = Append(s, e)
  BY DEF Learns, FetchTypes
<1> HIDE DEF e, s
<1>3. /\ Len(s) \in Nat /\ DOMAIN s = 1 .. Len(s) /\ DOMAIN Append(s, e) = 1 .. Len(s) + 1
      /\ Append(s, e)[Len(s) + 1] = e /\ \A i \in 1 .. Len(s) : Append(s, e)[i] = s[i] /\ s[i].result.url \in Links
  <2>1. \A i \in 1 .. Len(s) : s[i] \in Learned
    BY <1>1
  <2>2. \A x \in Learned : x.result.url \in Links
    BY DEF Learned, Result
  <2> QED
    BY <1>1, <2>1, <2>2, AppendProperties
<1> DEFINE U == [i \in 1 .. Len(s) |-> s[i].result.url]
           V == [i \in 1 .. Len(s) + 1 |-> Append(s, e)[i].result.url]
<1>4. Urls(t) = U /\ Urls(t)' = V
  BY <1>2, <1>3 DEF Urls, s
<1>5. U \in Seq(Links) /\ Len(U) = Len(s) /\ r.url \in Links
  BY <1>3 DEF Result
<1>6. \A i \in 1 .. Len(s) + 1 : V[i] = Append(U, r.url)[i]
  <2> SUFFICES ASSUME NEW i \in 1 .. Len(s) + 1 PROVE V[i] = Append(U, r.url)[i]
    OBVIOUS
  <2>1. CASE i = Len(s) + 1
    <3>1. V[i] = r.url
      BY <1>1, <1>3, <2>1
    <3> HIDE DEF U, V
    <3>2. Append(U, r.url)[i] = r.url
      BY <1>5, <2>1, AppendProperties
    <3> QED
      BY <3>1, <3>2
  <2>2. CASE i # Len(s) + 1
    <3>1. i \in 1 .. Len(s)
      BY <1>3, <2>2
    <3>2. V[i] = s[i].result.url /\ U[i] = s[i].result.url
      BY <1>3, <3>1
    <3> HIDE DEF U, V
    <3>3. Append(U, r.url)[i] = U[i]
      BY <1>5, <3>1, AppendProperties
    <3> QED
      BY <3>2, <3>3
  <2> QED
    BY <2>1, <2>2
<1>7. V \in Seq(Links) /\ Len(V) = Len(s) + 1
  <2>1. \A i \in 1 .. Len(s) + 1 : V[i] \in Links
    <3> SUFFICES ASSUME NEW i \in 1 .. Len(s) + 1 PROVE V[i] \in Links
      OBVIOUS
    <3>1. i \in 1 .. Len(s) \/ i = Len(s) + 1
      BY <1>3
    <3> QED
      BY <1>1, <1>3, <1>5, <3>1
  <2>2. Len(s) + 1 \in Nat
    BY <1>3
  <2>3. V \in [1 .. Len(s) + 1 -> Links]
    BY <2>1
  <2> HIDE DEF V
  <2> QED
    BY <2>2, <2>3, IsASeq
<1> HIDE DEF U, V
<1>8. Append(U, r.url) \in Seq(Links) /\ Len(Append(U, r.url)) = Len(s) + 1
  BY <1>5, AppendProperties
<1>9. V = Append(U, r.url)
  <2> DEFINE W == Append(U, r.url)
  <2>1. W \in Seq(Links) /\ Len(W) = Len(V) /\ \A i \in 1 .. Len(V) : V[i] = W[i]
    BY <1>6, <1>7, <1>8
  <2> HIDE DEF W
  <2>2. V = W
    BY <1>7, <2>1, SeqEqual
  <2> QED
    BY <2>2 DEF W
<1> QED
  BY <1>4, <1>5, <1>9

\* The links of a task are those of a candidate.
LEMMA LinksAreShort ==
  ASSUME CheckTypes, NEW t \in Tasks, t[2] \in DOMAIN sources[t[1]]
  PROVE  t[1] \in Checks /\ IsShort(LinksOf(t), Links)
<1>1. t[1] \in Checks
  BY SharedAssumption
<1>2. sources[t[1]] \in Seq(Candidate)
  BY <1>1 DEF CheckTypes
<1>3. sources[t[1]][t[2]] \in Candidate
  BY <1>2
<1>4. sources[t[1]][t[2]].links \in Seq(Links)
  BY <1>3 DEF Candidate
<1> QED
  BY <1>1, <1>4, FirstTwoShort DEF LinksOf

LEMMA TurnKeepsPlace ==
  ASSUME SourcesInv, NEW t \in Tasks, Turn(t), UNCHANGED checkVars
  PROVE  AtPlace' /\ LearnsInTurn'
<1> USE DEF SourcesInv
<1>0. UNCHANGED <<pc, sources>> /\ left[t] \in Seq(Links) /\ tried[t] \in Seq(Learned)
  BY DEF checkVars, FetchTypes
<1>1. CASE UNCHANGED <<left, tried>>
  BY <1>0, <1>1 DEF AtPlace, Placed, LearnsInTurn, Recent, GoesOn, Urls, LinksOf, Honest
<1>2. CASE left[t] # <<>> /\ Passes(t)
  <2>1. /\ Head(left[t]) \notin Public /\ tried' = tried /\ left'[t] = Tail(left[t])
        /\ \A u \in Tasks : u # t => left'[u] = left[u]
    BY <1>2 DEF Passes, Url, FetchTypes
  <2>2. Placed(t)
    BY <1>2 DEF AtPlace
  <2>3. Position(LinksOf(t), Tail(left[t]), Urls(t))
    BY <1>2, <2>1, <2>2, LinksAreShort, Moves DEF Placed
  <2>4. AtPlace'
    <3> SUFFICES ASSUME NEW u \in Tasks PROVE (left'[u] = <<>> /\ tried'[u] = <<>>) \/ Placed(u)'
      BY DEF AtPlace
    <3>1. CASE u = t
      BY <1>0, <2>1, <2>2, <2>3, <3>1 DEF Placed, LinksOf, Urls
    <3>2. CASE u # t
      BY <1>0, <2>1, <3>2 DEF AtPlace, Placed, LinksOf, Urls
    <3> QED
      BY <3>1, <3>2
  <2>5. LearnsInTurn'
    <3> SUFFICES ASSUME NEW u \in Tasks, NEW i \in DOMAIN tried'[u] PROVE Recent(u, i)' /\ GoesOn(u, i)'
      BY DEF LearnsInTurn
    <3>1. Recent(u, i) /\ GoesOn(u, i)
      BY <2>1 DEF LearnsInTurn
    <3> QED
      BY <1>2, <2>1, <3>1 DEF Recent, GoesOn, Honest
  <2> QED
    BY <2>4, <2>5
<1>3. ASSUME NEW r \in Result, left[t] # <<>>, Finds(t, r) PROVE AtPlace' /\ LearnsInTurn'
  <2> DEFINE e == [result |-> r, read |-> now]
  <2>1. /\ r.url = Head(left[t]) /\ r.url \in Public /\ Learns(t, r, now)
        /\ now - r.at <= CacheTTL /\ Honest(r) /\ e.result = r /\ e.read = now
    BY <1>3 DEF Finds, Url
  <2>2. /\ tried'[t] = Append(tried[t], e) /\ left'[t] = IF r.ok THEN <<>> ELSE Tail(left[t])
        /\ \A u \in Tasks : u # t => left'[u] = left[u] /\ tried'[u] = tried[u]
    BY <2>1 DEF Learns, FetchTypes
  <2>3. Placed(t)
    BY <1>3 DEF AtPlace
  <2>4. Urls(t)' = Append(Urls(t), r.url)
    BY <2>1, UrlsGrow
  <2>5. Position(LinksOf(t), left'[t], Urls(t)')
    BY <1>3, <2>1, <2>2, <2>3, <2>4, LinksAreShort, Moves DEF Placed
  <2>6. AtPlace'
    <3> SUFFICES ASSUME NEW u \in Tasks PROVE (left'[u] = <<>> /\ tried'[u] = <<>>) \/ Placed(u)'
      BY DEF AtPlace
    <3>1. CASE u = t
      BY <1>0, <2>3, <2>5, <3>1 DEF Placed, LinksOf
    <3>2. CASE u # t
      BY <1>0, <2>2, <3>2 DEF AtPlace, Placed, LinksOf, Urls
    <3> QED
      BY <3>1, <3>2
  <2>7. LearnsInTurn'
    <3> SUFFICES ASSUME NEW u \in Tasks, NEW i \in DOMAIN tried'[u] PROVE Recent(u, i)' /\ GoesOn(u, i)'
      BY DEF LearnsInTurn
    <3>1. CASE u # t
      <4>1. Recent(u, i) /\ GoesOn(u, i)
        BY <2>2, <3>1 DEF LearnsInTurn
      <4> QED
        BY <2>2, <3>1, <4>1 DEF Recent, GoesOn, Honest
    <3>2. CASE u = t
      <4>0. e \in Learned
        BY DEF Learned, FetchTypes
      <4> HIDE DEF e
      <4>1. /\ Len(tried[t]) \in Nat /\ Len(tried'[t]) = Len(tried[t]) + 1 /\ i \in 1 .. Len(tried[t]) + 1
            /\ tried'[t][Len(tried[t]) + 1] = e
            /\ \A j \in 1 .. Len(tried[t]) : tried'[t][j] = tried[t][j] /\ j \in DOMAIN tried[t]
        BY <1>0, <2>2, <3>2, <4>0, AppendProperties
      <4>2. CASE i = Len(tried[t]) + 1
        <5>1. tried'[u][i] = e
          BY <3>2, <4>1, <4>2
        <5>2. Recent(u, i)'
          BY <2>1, <5>1 DEF Recent, Honest
        <5>3. GoesOn(u, i)'
          BY <2>1, <2>2, <3>2, <4>1, <4>2, <5>1 DEF GoesOn
        <5> QED
          BY <5>2, <5>3
      <4>3. CASE i # Len(tried[t]) + 1
        <5>1. i \in 1 .. Len(tried[t])
          BY <4>1, <4>3
        <5>2. tried'[u][i] = tried[t][i] /\ Recent(t, i) /\ GoesOn(t, i)
          BY <3>2, <4>1, <5>1 DEF LearnsInTurn
        <5> QED
          BY <1>3, <3>2, <5>2 DEF Recent, GoesOn, Honest
      <4> QED
        BY <4>2, <4>3
    <3> QED
      BY <3>1, <3>2
  <2> QED
    BY <2>6, <2>7
<1> QED
  BY <1>1, <1>2, <1>3 DEF Turn

\* The sources of a check are the first candidates of the merge of what it was given, each
\* as it was merged or with a full text.
FromCandidate(s, a) ==
  /\ s.key = a.key /\ s.size = a.size /\ s.links = a.links
  /\ IF s.kind = "abstract" THEN s.text = a.text ELSE \E u \in Range(s.links) : s.text = Content[u]
SourcesFrom(c, all) ==
  /\ Merges(Range(answered[c]), all)
  /\ Len(sources[c]) = Min({MaxSources, Len(all)})
  /\ \A i \in DOMAIN sources[c] : FromCandidate(sources[c][i], all[i])
SourcesAreMerges == \A c \in Checks : \E all : SourcesFrom(c, all)

NothingBefore == \A c \in Checks : pc[c] = "search" => answered[c] = <<>> /\ sources[c] = <<>>
OnlyAbstracts ==
  \A c \in Checks : pc[c] \in {"search", "fetch"} =>
    "abstracts only" \notin warnings[c] /\ \A i \in DOMAIN sources[c] : sources[c][i].kind = "abstract"

MergeInv == SourcesAreMerges /\ NothingBefore /\ OnlyAbstracts

LEMMA SearchKeeps ==
  ASSUME SourcesInv, MergeInv, NEW c \in Checks, Search(c)
  PROVE  SourcesInv' /\ MergeInv'
<1> USE DEF SourcesInv, MergeInv
<1>1. PICK o \in Outcomes :
        /\ o.for = manuscript[c]
        /\ answered' = [answered EXCEPT ![c] = o.works]
        /\ sources' = [sources EXCEPT ![c] = o.found]
        /\ warnings' = [warnings EXCEPT ![c] = o.unreachable]
        /\ Begin([t \in {u \in TasksOf(c) : Fetching /\ u[2] \in o.chosen} |-> o.found[t[2]].links])
  BY DEF Search
<1> DEFINE D == {u \in TasksOf(c) : Fetching /\ u[2] \in o.chosen}
           links == [t \in D |-> o.found[t[2]].links]
<1>2. /\ o.works \in Seq(Work) /\ o.found \in Seq(Candidate) /\ o.chosen \subseteq DOMAIN o.found
      /\ pc[c] = "search" /\ pc' = [pc EXCEPT ![c] = "fetch"]
  BY FoundType DEF Search
<1>3. UNCHANGED <<order, data, now, asking, tried>>
  BY <1>1 DEF Begin
<1>4. left' = [t \in Tasks |-> IF t \in D THEN FirstTwo(o.found[t[2]].links) ELSE left[t]]
  <2>1. left' = [t \in Tasks |-> IF t \in DOMAIN links THEN FirstTwo(links[t]) ELSE left[t]]
    BY <1>1 DEF Begin
  <2>2. DOMAIN links = D /\ \A t \in D : links[t] = o.found[t[2]].links
    OBVIOUS
  <2> HIDE DEF links, D
  <2> QED
    BY <2>1, <2>2
<1>5. \A t \in D : t \in Tasks /\ t[1] = c /\ t[2] \in DOMAIN o.found /\ FirstTwo(o.found[t[2]].links) \in Seq(Links)
  <2> SUFFICES ASSUME NEW t \in D
               PROVE  t \in Tasks /\ t[1] = c /\ t[2] \in DOMAIN o.found /\ FirstTwo(o.found[t[2]].links) \in Seq(Links)
    OBVIOUS
  <2>1. t \in Tasks /\ t[1] = c /\ t[2] \in DOMAIN o.found
    BY <1>2 DEF TasksOf
  <2>2. o.found[t[2]] \in Candidate
    BY <1>2, <2>1
  <2>3. o.found[t[2]].links \in Seq(Links)
    BY <2>2 DEF Candidate
  <2>4. IsShort(FirstTwo(o.found[t[2]].links), Links)
    BY <2>3, FirstTwoShort
  <2> QED
    BY <2>1, <2>4 DEF IsShort
<1>6. \A t \in Tasks : t[1] \in Checks /\ (t[1] = c => left[t] = <<>> /\ tried[t] = <<>>)
  BY <1>2, SharedAssumption DEF AtPlace, Placed
<1>7. sources'[c] = o.found /\ answered'[c] = o.works /\ pc'[c] = "fetch" /\ warnings'[c] = o.unreachable
  BY <1>1, <1>2 DEF CheckTypes
<1>8. \A d \in Checks : d # c => sources'[d] = sources[d] /\ answered'[d] = answered[d] /\ pc'[d] = pc[d] /\ warnings'[d] = warnings[d]
  BY <1>1, <1>2 DEF CheckTypes
<1> HIDE DEF D
<1>9. FetchTypes' /\ CheckTypes'
  BY <1>1, <1>2, <1>3, <1>4, <1>5 DEF FetchTypes, CheckTypes
<1>10. CacheIsHonest'
  BY <1>3 DEF CacheIsHonest, C!Present, Honest
<1>11. AsksForPublic'
  BY <1>3, <1>4, <1>5, <1>6 DEF AsksForPublic, Url
<1>12. AtPlace'
  <2> SUFFICES ASSUME NEW t \in Tasks PROVE (left'[t] = <<>> /\ tried'[t] = <<>>) \/ Placed(t)'
    BY DEF AtPlace
  <2>1. CASE t \in D
    <3>1. left'[t] = FirstTwo(o.found[t[2]].links) /\ tried'[t] = <<>> /\ t[1] = c /\ t[2] \in DOMAIN o.found
      BY <1>3, <1>4, <1>5, <1>6, <2>1
    <3>2. Urls(t)' = <<>>
      BY <3>1 DEF Urls
    <3> QED
      BY <1>7, <3>1, <3>2 DEF Placed, LinksOf, Position
  <2>2. CASE t \notin D
    <3>1. left'[t] = left[t] /\ tried'[t] = tried[t]
      BY <1>3, <1>4, <2>2
    <3>2. CASE t[1] = c
      BY <1>6, <3>1, <3>2
    <3>3. CASE t[1] # c
      BY <1>6, <1>8, <3>1, <3>3 DEF AtPlace, Placed, LinksOf, Urls
    <3> QED
      BY <3>2, <3>3
  <2> QED
    BY <2>1, <2>2
<1>13. LearnsInTurn'
  <2> SUFFICES ASSUME NEW t \in Tasks, NEW i \in DOMAIN tried'[t] PROVE Recent(t, i)' /\ GoesOn(t, i)'
    BY DEF LearnsInTurn
  <2>1. tried'[t] = tried[t] /\ Recent(t, i) /\ GoesOn(t, i)
    BY <1>3 DEF LearnsInTurn
  <2>2. CASE t \in D
    <3>1. tried[t] = <<>>
      BY <1>5, <1>6, <2>2
    <3> QED
      BY <2>1, <3>1
  <2>3. CASE t \notin D
    BY <1>4, <2>1, <2>3 DEF Recent, GoesOn, Honest
  <2> QED
    BY <2>2, <2>3
<1>14. PICK all : Merges(Range(o.works), all) /\ o.found = SubSeq(all, 1, Min({MaxSources, Len(all)}))
  BY OutcomeIs
<1> DEFINE n == Min({MaxSources, Len(all)})
<1>15. all \in Seq(Candidate) /\ Len(all) \in Nat /\ \A i \in 1 .. Len(all) : all[i].kind = "abstract"
  <2>1. all \in Seq(Candidate) /\ \A i \in 1 .. Len(all) : all[i].kind = "abstract"
    BY <1>14 DEF Merges
  <2> QED
    BY <2>1, LenProperties
<1>16. n \in Nat /\ n <= Len(all)
  BY <1>15, SearchAssumption, SmallerOfTwo
<1>17. Len(o.found) = n /\ DOMAIN o.found = 1 .. n /\ \A i \in 1 .. n : o.found[i] = all[i] /\ i \in 1 .. Len(all)
  <2>1. o.found = SubSeq(all, 1, n)
    BY <1>14
  <2> HIDE DEF n
  <2>2. \A i \in 1 .. n : all[i] \in Candidate /\ i \in 1 .. Len(all)
    BY <1>15, <1>16
  <2>3. /\ SubSeq(all, 1, n) \in Seq(Candidate) /\ Len(SubSeq(all, 1, n)) = n
        /\ \A i \in 1 .. n : SubSeq(all, 1, n)[i] = all[i]
    BY <1>16, <2>2, SubSeqProperties
  <2> QED
    BY <2>1, <2>2, <2>3
<1>18. SourcesAreMerges'
  <2> SUFFICES ASSUME NEW d \in Checks PROVE \E a : SourcesFrom(d, a)'
    BY DEF SourcesAreMerges
  <2>1. CASE d = c
    <3>1. \A i \in DOMAIN o.found : FromCandidate(o.found[i], all[i])
      BY <1>15, <1>17 DEF FromCandidate
    <3>2. /\ Merges(Range(answered'[d]), all)
          /\ Len(sources'[d]) = Min({MaxSources, Len(all)})
          /\ \A i \in DOMAIN sources'[d] : FromCandidate(sources'[d][i], all[i])
      BY <1>7, <1>14, <1>17, <2>1, <3>1
    <3>3. SourcesFrom(d, all)'
      BY <3>2 DEF SourcesFrom
    <3> QED
      BY <3>3
  <2>2. CASE d # c
    <3>1. PICK a : SourcesFrom(d, a)
      BY DEF SourcesAreMerges
    <3>2. SourcesFrom(d, a)'
      BY <1>8, <2>2, <3>1 DEF SourcesFrom
    <3> QED
      BY <3>2
  <2> QED
    BY <2>1, <2>2
<1>19. NothingBefore'
  BY <1>7, <1>8 DEF NothingBefore
<1>20. OnlyAbstracts'
  <2>1. "abstracts only" \notin o.unreachable
    BY OutcomeIs, SharedAssumption
  <2>2. \A i \in DOMAIN o.found : o.found[i].kind = "abstract"
    BY <1>15, <1>17
  <2> SUFFICES ASSUME NEW d \in Checks, pc'[d] \in {"search", "fetch"}
               PROVE  /\ "abstracts only" \notin warnings'[d]
                      /\ \A i \in DOMAIN sources'[d] : sources'[d][i].kind = "abstract"
    BY DEF OnlyAbstracts
  <2>3. CASE d = c
    BY <1>7, <2>1, <2>2, <2>3
  <2>4. CASE d # c
    BY <1>8, <2>4 DEF OnlyAbstracts
  <2> QED
    BY <2>3, <2>4
<1> QED
  BY <1>9, <1>10, <1>11, <1>12, <1>13, <1>18, <1>19, <1>20

\* A full text is that of a link of its own candidate.
LEMMA ObtainedIsOwn ==
  ASSUME SourcesInv, NEW c \in Checks, NEW i \in DOMAIN sources[c], Obtained(c, i)
  PROVE  FullTextOf(c, i) \in Links /\ FullTextOf(c, i) \in Range(sources[c][i].links)
<1> USE DEF SourcesInv
<1>1. PICK t \in TasksOf(c) : t[2] = i /\ tried[t] # <<>> /\ Last(tried[t]).result.ok
  BY DEF Obtained
<1>2. t \in Tasks /\ t = <<c, i>>
  <2>1. t \in Tasks /\ t[1] = c /\ t[2] = i
    BY <1>1 DEF TasksOf
  <2>2. t \in Checks \X Nat
    BY <2>1, SharedAssumption
  <2>3. t = <<t[1], t[2]>>
    BY <2>2
  <2> QED
    BY <2>1, <2>3
<1>3. Placed(t)
  BY <1>1, <1>2 DEF AtPlace
<1>4. tried[t] \in Seq(Learned) /\ Len(tried[t]) \in Nat /\ Len(tried[t]) \in DOMAIN tried[t]
  <2>1. tried[t] \in Seq(Learned)
    BY <1>2 DEF FetchTypes
  <2>2. Len(tried[t]) \in Nat /\ Len(tried[t]) # 0
    BY <1>1, <2>1, EmptySeq, LenProperties
  <2>3. DOMAIN tried[t] = 1 .. Len(tried[t])
    BY <2>1, LenProperties
  <2> QED
    BY <2>1, <2>2, <2>3
<1> DEFINE n == Len(tried[t])
<1>5. FullTextOf(c, i) = Urls(t)[n] /\ n \in DOMAIN Urls(t)
  BY <1>2, <1>4 DEF FullTextOf, Last, Urls
<1>6. FullTextOf(c, i) \in Range(Urls(t))
  BY <1>5 DEF Range
<1>7. IsShort(LinksOf(t), Links) /\ Range(Urls(t)) \subseteq Range(LinksOf(t))
  BY <1>2, <1>3, LinksAreShort, PositionIsPrefix DEF Placed
<1>8. LinksOf(t) \in Seq(Links)
  BY <1>7 DEF IsShort
<1>9. Range(LinksOf(t)) \subseteq Links
  BY <1>8, RangeOfSeq
<1> DEFINE l == sources[c][i].links
<1>10. l \in Seq(Links) /\ LinksOf(t) = FirstTwo(l)
  <2>1. sources[c] \in Seq(Candidate)
    BY DEF CheckTypes
  <2>2. sources[c][i] \in Candidate
    BY <2>1
  <2> QED
    BY <1>2, <2>2 DEF Candidate, LinksOf
<1> HIDE DEF l
<1>11. Range(FirstTwo(l)) \subseteq Range(l)
  <2>1. CASE Len(l) > 2
    <3>1. Len(l) \in Nat /\ \A k \in 1 .. 2 : l[k] \in Links /\ k \in DOMAIN l
      BY <1>10, <2>1
    <3>2. \A k \in 1 .. 2 : SubSeq(l, 1, 2)[k] = l[k]
      BY <3>1, SubSeqProperties
    <3>3. DOMAIN SubSeq(l, 1, 2) = 1 .. 2
      BY <1>10
    <3>4. FirstTwo(l) = SubSeq(l, 1, 2)
      BY <2>1 DEF FirstTwo
    <3> QED
      BY <3>1, <3>2, <3>3, <3>4 DEF Range
  <2>2. CASE ~(Len(l) > 2)
    BY <2>2 DEF FirstTwo
  <2> QED
    BY <2>1, <2>2
<1> QED
  BY <1>6, <1>7, <1>9, <1>10, <1>11 DEF l

\* The words of a text can be counted.
LEMMA FinitelyMany == ASSUME NEW S, NEW s \in Seq(S) PROVE IsFiniteSet(Range(s))
<1>1. Len(s) \in Nat /\ IsFiniteSet(1 .. Len(s))
  <2>1. Len(s) \in Nat
    BY LenProperties
  <2> QED
    BY <2>1, FS_Interval
<1>2. s \in Surjection(1 .. Len(s), Range(s))
  BY RangeEquality DEF Surjection
<1> QED
  BY <1>1, <1>2, FS_Surjection

LEMMA WordsAreFinite == ASSUME NEW text \in Seq(Sentences) PROVE IsFiniteSet(WordsOfText(text))
<1>1. IsFiniteSet(Range(text)) /\ Range(text) \subseteq Sentences
  BY FinitelyMany, RangeOfSeq
<1> DEFINE R == {Range(x) : x \in Range(text)}
<1>2. IsFiniteSet(R)
  <2> DEFINE T == Range(text)
             f == [x \in T |-> Range(x)]
  <2>1. f \in Surjection(T, R)
    BY DEF Surjection
  <2>2. IsFiniteSet(T)
    BY <1>1
  <2> HIDE DEF f, T, R
  <2> QED
    BY <2>1, <2>2, FS_Surjection
<1>3. \A T \in R : IsFiniteSet(T)
  <2> SUFFICES ASSUME NEW x \in Range(text) PROVE IsFiniteSet(Range(x))
    OBVIOUS
  <2>1. x \in Seq(STRING)
    BY <1>1, SharedAssumption
  <2> QED
    BY <2>1, FinitelyMany
<1>4. IsFiniteSet(UNION R)
  <2> HIDE DEF R
  <2> QED
    BY <1>2, <1>3, FS_UNION
<1> QED
  BY <1>4 DEF WordsOfText

\* Shares of words are compared as fractions are.
Share(x, words) == Cardinality(WordsOfText(x.text) \cap words)
Total(x) == Max({1, Cardinality(WordsOfText(x.text))})

LEMMA SharesAreNumbers ==
  ASSUME NEW x \in Candidate, NEW words
  PROVE  Share(x, words) \in Nat /\ Total(x) \in Nat /\ Total(x) >= 1
<1>1. IsFiniteSet(WordsOfText(x.text))
  BY WordsAreFinite DEF Candidate
<1>2. IsFiniteSet(WordsOfText(x.text) \cap words)
  BY <1>1, FS_Subset
<1>3. Share(x, words) \in Nat
  BY <1>2, FS_CardinalityType DEF Share
<1>4. Cardinality(WordsOfText(x.text)) \in Nat
  BY <1>1, FS_CardinalityType
<1>5. Total(x) \in Nat /\ Total(x) >= 1
  <2> DEFINE k == Cardinality(WordsOfText(x.text))
  <2>1. k \in Nat
    BY <1>4
  <2> HIDE DEF k
  <2>2. Max({1, k}) \in Nat /\ Max({1, k}) >= 1
    BY <2>1, LargerOfTwo
  <2> QED
    BY <2>2 DEF Total, k
<1> QED
  BY <1>3, <1>5

LEMMA Fractions ==
  ASSUME NEW a \in Nat, NEW b \in Nat, NEW p \in Nat, NEW q \in Nat, NEW r \in Nat, NEW s \in Nat,
         b >= 1, q >= 1, s >= 1, a * q > p * b, ~(r * q > p * s)
  PROVE  a * s > r * b
<1>1. a * q * s > p * b * s
  OBVIOUS
<1>2. p * s * b >= r * q * b
  OBVIOUS
<1>3. q * (a * s) > q * (r * b)
  BY <1>1, <1>2
<1> QED
  BY <1>3

\* The one that is ahead of all is among the chosen.
LEMMA SomeAreChosen ==
  ASSUME NEW m, NEW found \in Seq(Candidate), WithLinks(found) # {}, FulltextMaxDocs > 0
  PROVE  Chosen(m, found) # {}
<1> DEFINE words == WordsOfText(m)
           N == Len(found)
           W == WithLinks(found)
           Before(j, i) == Ahead(words, found[j], found[i]) \/ (j < i /\ ~Ahead(words, found[i], found[j]))
           Best(n) == \E i \in W : i <= n /\ \A j \in W : j <= n => ~Before(j, i)
           T == {n \in Nat : (\E i \in W : i <= n) => Best(n)}
<1>1. N \in Nat /\ W \subseteq 1 .. N
  BY LenProperties DEF WithLinks
<1>2. \A i \in 1 .. N : found[i] \in Candidate
  OBVIOUS
<1>3. \A i, j \in 1 .. N : Ahead(words, found[i], found[j])
                             <=> Share(found[i], words) * Total(found[j]) > Share(found[j], words) * Total(found[i])
  BY DEF Ahead, Share, Total
<1>4. ASSUME NEW i \in W, NEW j \in W, NEW k \in W, Ahead(words, found[k], found[i]), ~Ahead(words, found[j], found[i])
      PROVE  Ahead(words, found[k], found[j])
  <2>1. i \in 1 .. N /\ j \in 1 .. N /\ k \in 1 .. N
    BY <1>1
  <2>2. /\ Share(found[i], words) \in Nat /\ Total(found[i]) \in Nat /\ Total(found[i]) >= 1
        /\ Share(found[j], words) \in Nat /\ Total(found[j]) \in Nat /\ Total(found[j]) >= 1
        /\ Share(found[k], words) \in Nat /\ Total(found[k]) \in Nat /\ Total(found[k]) >= 1
    BY <1>2, <2>1, SharesAreNumbers
  <2>3. /\ Share(found[k], words) * Total(found[i]) > Share(found[i], words) * Total(found[k])
        /\ ~(Share(found[j], words) * Total(found[i]) > Share(found[i], words) * Total(found[j]))
    BY <1>3, <1>4, <2>1
  <2>4. Share(found[k], words) * Total(found[j]) > Share(found[j], words) * Total(found[k])
    BY <2>2, <2>3, Fractions
  <2> QED
    BY <1>3, <2>1, <2>4
<1>5. \A i \in W : ~Ahead(words, found[i], found[i])
  <2> SUFFICES ASSUME NEW i \in W PROVE ~Ahead(words, found[i], found[i])
    OBVIOUS
  <2>1. i \in 1 .. N /\ Share(found[i], words) \in Nat /\ Total(found[i]) \in Nat
    BY <1>1, <1>2, SharesAreNumbers
  <2>2. Share(found[i], words) * Total(found[i]) \in Nat
    BY <2>1
  <2> QED
    BY <1>3, <2>1, <2>2
<1>6. ASSUME NEW i \in W, NEW j \in W, Ahead(words, found[i], found[j]) PROVE ~Ahead(words, found[j], found[i])
  <2>1. /\ i \in 1 .. N /\ Share(found[i], words) \in Nat /\ Total(found[i]) \in Nat
        /\ j \in 1 .. N /\ Share(found[j], words) \in Nat /\ Total(found[j]) \in Nat
    BY <1>1, <1>2, SharesAreNumbers
  <2>2. Share(found[i], words) * Total(found[j]) \in Nat /\ Share(found[j], words) * Total(found[i]) \in Nat
    BY <2>1
  <2> QED
    BY <1>3, <1>6, <2>1, <2>2
<1> HIDE DEF W, N, words
<1>7. 0 \in T
  BY <1>1
<1>8. ASSUME NEW n \in Nat, n \in T PROVE n + 1 \in T
  <2> SUFFICES ASSUME \E i \in W : i <= n + 1 PROVE Best(n + 1)
    OBVIOUS
  <2>0. \A j \in W : j \in Int /\ (j <= n + 1 => (j <= n \/ j = n + 1))
    BY <1>1
  <2>1. CASE n + 1 \notin W
    <3>1. \E i \in W : i <= n
      BY <2>0, <2>1
    <3>2. PICK i \in W : i <= n /\ \A j \in W : j <= n => ~Before(j, i)
      BY <1>8, <3>1
    <3> HIDE DEF Before
    <3>3. i <= n + 1 /\ \A j \in W : j <= n + 1 => ~Before(j, i)
      BY <2>0, <2>1, <3>2
    <3> QED
      BY <3>3
  <2>2. CASE n + 1 \in W /\ ~(\E i \in W : i <= n)
    <3>1. \A j \in W : j <= n + 1 => j = n + 1
      BY <2>0, <2>2
    <3>2. ~Before(n + 1, n + 1)
      BY <1>5, <2>2
    <3> HIDE DEF Before
    <3> QED
      BY <2>2, <3>1, <3>2
  <2>3. CASE n + 1 \in W /\ \E i \in W : i <= n
    <3>1. PICK i \in W : i <= n /\ \A j \in W : j <= n => ~Before(j, i)
      BY <1>8, <2>3
    <3>2. CASE Ahead(words, found[n + 1], found[i])
      <4>1. \A j \in W : j <= n + 1 => ~Before(j, n + 1)
        <5> SUFFICES ASSUME NEW j \in W, j <= n + 1 PROVE ~Before(j, n + 1)
          OBVIOUS
        <5>1. CASE j = n + 1
          BY <1>5, <2>3, <5>1
        <5>2. CASE j <= n
          <6>1. ~Ahead(words, found[j], found[i])
            BY <3>1, <5>2
          <6>2. Ahead(words, found[n + 1], found[j])
            BY <1>4, <2>3, <3>2, <6>1
          <6>3. ~Ahead(words, found[j], found[n + 1])
            BY <1>6, <2>3, <6>2
          <6> QED
            BY <6>2, <6>3
        <5> QED
          BY <2>0, <5>1, <5>2
      <4> HIDE DEF Before
      <4> QED
        BY <2>3, <4>1
    <3>3. CASE ~Ahead(words, found[n + 1], found[i])
      <4>1. ~Before(n + 1, i)
        BY <2>0, <3>1, <3>3
      <4> HIDE DEF Before
      <4>2. i <= n + 1 /\ \A j \in W : j <= n + 1 => ~Before(j, i)
        BY <2>0, <3>1, <4>1
      <4> QED
        BY <4>2
    <3> QED
      BY <3>2, <3>3
  <2> QED
    BY <2>1, <2>2, <2>3
<1>9. N \in T
  <2> HIDE DEF T
  <2> QED
    BY <1>1, <1>7, <1>8, Induction
<1>10. PICK i \in W : \A j \in W : ~Before(j, i)
  BY <1>1, <1>9 DEF W
<1>11. {j \in W : Before(j, i)} = {}
  BY <1>10
<1>12. Cardinality({j \in W : Before(j, i)}) < FulltextMaxDocs
  <2> HIDE DEF Before
  <2> QED
    BY <1>11, SearchAssumption, FS_EmptySet
<1>13. i \in Chosen(m, found)
  BY <1>12 DEF Chosen, W, words
<1> QED
  BY <1>13

\* The candidates once the full texts they got have taken the place of their abstracts.
Full(c) ==
  [i \in DOMAIN sources[c] |->
     IF Obtained(c, i) THEN [sources[c][i] EXCEPT !.text = Content[FullTextOf(c, i)], !.kind = "fulltext"]
     ELSE sources[c][i]]

LEMMA FullIs ==
  ASSUME SourcesInv, MergeInv, NEW c \in Checks
  PROVE  /\ Full(c) \in Seq(Candidate) /\ DOMAIN Full(c) = DOMAIN sources[c] /\ Len(Full(c)) = Len(sources[c])
         /\ \A i \in DOMAIN sources[c] : /\ Full(c)[i].links = sources[c][i].links
                                         /\ ~Obtained(c, i) => Full(c)[i] = sources[c][i]
                                         /\ Obtained(c, i) => Full(c)[i].kind = "fulltext" /\ sources[c][i].links # <<>>
                                         /\ \A a : FromCandidate(sources[c][i], a) => FromCandidate(Full(c)[i], a)
<1> USE DEF SourcesInv
<1> DEFINE n == Len(sources[c])
<1>1. sources[c] \in Seq(Candidate) /\ n \in Nat /\ DOMAIN sources[c] = 1 .. n
  <2>1. sources[c] \in Seq(Candidate)
    BY DEF CheckTypes
  <2> QED
    BY <2>1, LenProperties
<1>2. ASSUME NEW i \in 1 .. n
      PROVE  /\ Full(c)[i] \in Candidate /\ Full(c)[i].links = sources[c][i].links
             /\ ~Obtained(c, i) => Full(c)[i] = sources[c][i]
             /\ Obtained(c, i) => Full(c)[i].kind = "fulltext" /\ sources[c][i].links # <<>>
             /\ \A a : FromCandidate(sources[c][i], a) => FromCandidate(Full(c)[i], a)
  <2> DEFINE x == sources[c][i]
  <2>1. x \in Candidate
    BY <1>1
  <2>2. CASE ~Obtained(c, i)
    <3>1. Full(c)[i] = x
      BY <1>1, <2>2 DEF Full
    <3> QED
      BY <2>1, <2>2, <3>1
  <2>3. CASE Obtained(c, i)
    <3> DEFINE t == Content[FullTextOf(c, i)]
    <3>1. FullTextOf(c, i) \in Links /\ FullTextOf(c, i) \in Range(x.links)
      BY <1>1, <2>3, ObtainedIsOwn
    <3>2. t \in Seq(Sentences)
      BY <3>1, SharedAssumption
    <3>3. Full(c)[i] = [x EXCEPT !.text = t, !.kind = "fulltext"]
      BY <1>1, <2>3 DEF Full
    <3>4. x.links # <<>>
      BY <3>1 DEF Range
    <3> HIDE DEF x
    <3>5. /\ Full(c)[i] \in Candidate /\ Full(c)[i].links = x.links /\ Full(c)[i].kind = "fulltext"
          /\ Full(c)[i].key = x.key /\ Full(c)[i].size = x.size /\ Full(c)[i].text = t
      BY <2>1, <3>2, <3>3 DEF Candidate
    <3>6. \A a : FromCandidate(x, a) => FromCandidate(Full(c)[i], a)
      BY <3>1, <3>5 DEF FromCandidate
    <3> QED
      BY <2>3, <3>4, <3>5, <3>6 DEF x
  <2> QED
    BY <2>2, <2>3
<1>3. Full(c) \in [1 .. n -> Candidate]
  <2>1. Full(c) = [i \in 1 .. n |-> Full(c)[i]]
    BY <1>1 DEF Full
  <2> QED
    BY <1>2, <2>1
<1>4. Full(c) \in Seq(Candidate) /\ DOMAIN Full(c) = 1 .. n /\ Len(Full(c)) = n
  <2> HIDE DEF n
  <2>1. Full(c) \in Seq(Candidate)
    BY <1>1, <1>3, IsASeq
  <2>2. DOMAIN Full(c) = 1 .. n
    BY <1>3
  <2> QED
    BY <1>1, <2>1, <2>2, LenProperties
<1> QED
  BY <1>1, <1>2, <1>4

LEMMA RetrievedIs ==
  ASSUME SourcesInv, MergeInv, NEW c \in Checks, Retrieved(c)
  PROVE  /\ pc[c] = "fetch" /\ pc' = [pc EXCEPT ![c] = pc'[c]] /\ pc'[c] \in {"match", "alone", "rejected"}
         /\ sources' = [sources EXCEPT ![c] = Full(c)] /\ warnings' = [warnings EXCEPT ![c] = warnings'[c]]
         /\ UNCHANGED <<manuscript, answered, order, data, now, left, asking, tried>>
         /\ [EncoderNext]_encoderVars
<1> USE DEF SourcesInv
<1> DEFINE texts0 == [i \in DOMAIN Full(c) |-> Full(c)[i].text]
<1>1. /\ pc[c] = "fetch" /\ sources' = [sources EXCEPT ![c] = Full(c)]
      /\ UNCHANGED <<manuscript, answered, order, data, now, left, asking, tried>>
  BY DEF Retrieved, Full, fetchVars
<1>2. \E w : warnings' = [warnings EXCEPT ![c] = w]
  BY DEF Retrieved
<1>3. \/ (pc' = [pc EXCEPT ![c] = IF c \in Uploads THEN "alone" ELSE "rejected"] /\ UNCHANGED encoderVars)
      \/ (pc' = [pc EXCEPT ![c] = "match"] /\ Given(c, FlattenSeq(texts0)))
  BY DEF Retrieved, Full
<1>4. texts0 \in Seq(Seq(Sentences))
  <2> DEFINE F == Full(c)
             n == Len(F)
  <2>1. F \in Seq(Candidate)
    BY FullIs
  <2> HIDE DEF F
  <2>2. n \in Nat /\ DOMAIN F = 1 .. n
    BY <2>1, LenProperties
  <2>3. \A i \in 1 .. n : F[i] \in Candidate
    BY <2>1, <2>2
  <2>4. \A i \in 1 .. n : F[i].text \in Seq(Sentences)
    BY <2>3 DEF Candidate
  <2>5. [i \in DOMAIN F |-> F[i].text] \in [1 .. n -> Seq(Sentences)]
    BY <2>2, <2>4
  <2>6. [i \in DOMAIN F |-> F[i].text] \in Seq(Seq(Sentences))
    BY <2>2, <2>5, IsASeq
  <2> QED
    BY <2>6 DEF F
<1> HIDE DEF texts0
<1>5. FlattenSeq(texts0) \in Seq(Sentences)
  BY <1>4, FlattenType
<1>6. [EncoderNext]_encoderVars
  BY <1>3, <1>5 DEF EncoderNext
<1>7. pc' = [pc EXCEPT ![c] = pc'[c]] /\ pc'[c] \in {"match", "alone", "rejected"}
  BY <1>3 DEF CheckTypes
<1>8. warnings' = [warnings EXCEPT ![c] = warnings'[c]]
  BY <1>2 DEF CheckTypes
<1> QED
  BY <1>1, <1>6, <1>7, <1>8

LEMMA RetrievedKeeps ==
  ASSUME SourcesInv, MergeInv, NEW c \in Checks, Retrieved(c)
  PROVE  SourcesInv' /\ MergeInv'
<1> USE DEF SourcesInv, MergeInv
<1>1. /\ pc[c] = "fetch" /\ pc' = [pc EXCEPT ![c] = pc'[c]] /\ pc'[c] \in {"match", "alone", "rejected"}
      /\ sources' = [sources EXCEPT ![c] = Full(c)] /\ warnings' = [warnings EXCEPT ![c] = warnings'[c]]
      /\ UNCHANGED <<manuscript, answered, order, data, now, left, asking, tried>>
  BY RetrievedIs
<1>2. Full(c) \in Seq(Candidate) /\ DOMAIN Full(c) = DOMAIN sources[c]
  BY FullIs
<1>3. \A i \in DOMAIN sources[c] : Full(c)[i].links = sources[c][i].links
  BY FullIs
<1>4. sources'[c] = Full(c) /\ \A d \in Checks : d # c => sources'[d] = sources[d] /\ pc'[d] = pc[d] /\ warnings'[d] = warnings[d]
  BY <1>1 DEF CheckTypes
<1>5. FetchTypes'
  BY <1>1 DEF FetchTypes
<1>6. CheckTypes'
  BY <1>1, <1>2 DEF CheckTypes
<1>7. CacheIsHonest' /\ AsksForPublic'
  BY <1>1 DEF CacheIsHonest, AsksForPublic, C!Present, Honest, Url
<1>8. LearnsInTurn'
  BY <1>1 DEF LearnsInTurn, Recent, GoesOn, Honest
<1>9. AtPlace'
  <2> SUFFICES ASSUME NEW t \in Tasks PROVE (left'[t] = <<>> /\ tried'[t] = <<>>) \/ Placed(t)'
    BY DEF AtPlace
  <2>1. t[1] \in Checks
    BY SharedAssumption
  <2>2. CASE t[1] = c
    BY <1>1, <1>2, <1>3, <1>4, <2>2 DEF AtPlace, Placed, LinksOf, Urls
  <2>3. CASE t[1] # c
    BY <1>1, <1>4, <2>1, <2>3 DEF AtPlace, Placed, LinksOf, Urls
  <2> QED
    BY <2>2, <2>3
<1>10. SourcesAreMerges'
  <2> SUFFICES ASSUME NEW d \in Checks PROVE \E a : SourcesFrom(d, a)'
    BY DEF SourcesAreMerges
  <2>1. PICK a : SourcesFrom(d, a)
    BY DEF SourcesAreMerges
  <2>2. CASE d = c
    <3>1. Len(Full(c)) = Len(sources[c])
      BY FullIs
    <3>2. \A i \in DOMAIN sources[c] : FromCandidate(sources[c][i], a[i]) => FromCandidate(Full(c)[i], a[i])
      BY FullIs
    <3>3. /\ Merges(Range(answered'[d]), a)
          /\ Len(sources'[d]) = Min({MaxSources, Len(a)})
          /\ \A i \in DOMAIN sources'[d] : FromCandidate(sources'[d][i], a[i])
      BY <1>1, <1>2, <1>4, <2>1, <2>2, <3>1, <3>2 DEF SourcesFrom
    <3>4. SourcesFrom(d, a)'
      BY <3>3 DEF SourcesFrom
    <3> QED
      BY <3>4
  <2>3. CASE d # c
    <3>1. SourcesFrom(d, a)'
      BY <1>1, <1>4, <2>1, <2>3 DEF SourcesFrom
    <3> QED
      BY <3>1
  <2> QED
    BY <2>2, <2>3
<1>11. NothingBefore'
  BY <1>1, <1>4 DEF NothingBefore
<1>12. OnlyAbstracts'
  <2> SUFFICES ASSUME NEW d \in Checks, pc'[d] \in {"search", "fetch"}
               PROVE  /\ "abstracts only" \notin warnings'[d]
                      /\ \A i \in DOMAIN sources'[d] : sources'[d][i].kind = "abstract"
    BY DEF OnlyAbstracts
  <2>1. pc'[c] \notin {"search", "fetch"}
    BY <1>1
  <2>2. d # c
    BY <2>1
  <2> QED
    BY <1>4, <2>2 DEF OnlyAbstracts
<1> QED
  BY <1>5, <1>6, <1>7, <1>8, <1>9, <1>10, <1>11, <1>12

LEMMA TooShortKeeps ==
  ASSUME SourcesInv, MergeInv, NEW c \in Checks, TooShort(c)
  PROVE  SourcesInv' /\ MergeInv'
<1> USE DEF SourcesInv, MergeInv
<1>1. /\ pc[c] = "search" /\ pc' = [pc EXCEPT ![c] = "fetch"] /\ warnings' = [warnings EXCEPT ![c] = {"too short"}]
      /\ UNCHANGED <<answered, sources, order, data, now, left, asking, tried>>
  BY DEF TooShort, fetchVars
<1>2. pc'[c] = "fetch" /\ warnings'[c] = {"too short"} /\ \A d \in Checks : d # c => pc'[d] = pc[d] /\ warnings'[d] = warnings[d]
  BY <1>1 DEF CheckTypes
<1>3. FetchTypes' /\ CheckTypes'
  BY <1>1 DEF FetchTypes, CheckTypes
<1>4. CacheIsHonest' /\ AsksForPublic'
  BY <1>1 DEF CacheIsHonest, AsksForPublic, C!Present, Honest, Url
<1>5. LearnsInTurn'
  BY <1>1 DEF LearnsInTurn, Recent, GoesOn, Honest
<1>6. AtPlace'
  <2> SUFFICES ASSUME NEW t \in Tasks PROVE (left'[t] = <<>> /\ tried'[t] = <<>>) \/ Placed(t)'
    BY DEF AtPlace
  <2>1. t[1] \in Checks
    BY SharedAssumption
  <2> QED
    BY <1>1, <1>2, <2>1 DEF AtPlace, Placed, LinksOf, Urls
<1>7. SourcesAreMerges'
  <2> SUFFICES ASSUME NEW d \in Checks PROVE \E a : SourcesFrom(d, a)'
    BY DEF SourcesAreMerges
  <2>1. PICK a : SourcesFrom(d, a)
    BY DEF SourcesAreMerges
  <2>2. SourcesFrom(d, a)'
    BY <1>1, <2>1 DEF SourcesFrom
  <2> QED
    BY <2>2
<1>8. NothingBefore'
  BY <1>1, <1>2 DEF NothingBefore
<1>9. OnlyAbstracts'
  <2> SUFFICES ASSUME NEW d \in Checks, pc'[d] \in {"search", "fetch"}
               PROVE  /\ "abstracts only" \notin warnings'[d]
                      /\ \A i \in DOMAIN sources'[d] : sources'[d][i].kind = "abstract"
    BY DEF OnlyAbstracts
  <2>1. pc[d] \in {"search", "fetch"} /\ sources'[d] = sources[d]
    BY <1>1, <1>2
  <2>2. \A i \in DOMAIN sources'[d] : sources'[d][i].kind = "abstract"
    BY <2>1 DEF OnlyAbstracts
  <2>3. CASE d = c
    BY <1>2, <2>2, <2>3
  <2>4. CASE d # c
    BY <1>2, <2>1, <2>2, <2>4 DEF OnlyAbstracts
  <2> QED
    BY <2>3, <2>4
<1> QED
  BY <1>3, <1>4, <1>5, <1>6, <1>7, <1>8, <1>9

LEMMA SourcesInit == Init => SourcesInv /\ MergeInv
<1> SUFFICES ASSUME Init PROVE SourcesInv /\ MergeInv
  OBVIOUS
<1>1. /\ pc = [c \in Checks |-> "search"] /\ answered = [c \in Checks |-> <<>>]
      /\ sources = [c \in Checks |-> <<>>] /\ warnings = [c \in Checks |-> {}]
      /\ left = [t \in Tasks |-> <<>>] /\ asking = [t \in Tasks |-> FALSE] /\ tried = [t \in Tasks |-> <<>>]
      /\ now = 0 /\ data = [u \in Links |-> C!NoEntry]
  BY DEF Init, FetchInit, C!Init
<1>2. FetchTypes
  BY <1>1, FullTextAssumption DEF FetchTypes
<1>3. CheckTypes
  BY <1>1 DEF CheckTypes
<1>4. CacheIsHonest /\ AsksForPublic /\ AtPlace /\ LearnsInTurn
  BY <1>1 DEF CacheIsHonest, C!Present, AsksForPublic, AtPlace, LearnsInTurn
<1>5. NothingBefore /\ OnlyAbstracts
  BY <1>1 DEF NothingBefore, OnlyAbstracts
<1>6. SourcesAreMerges
  <2> SUFFICES ASSUME NEW c \in Checks PROVE \E all : SourcesFrom(c, all)
    BY DEF SourcesAreMerges
  <2> DEFINE e == <<>>
             least == Min({MaxSources, Len(e)})
  <2>1. Merges({}, e)
    BY DEF Merges
  <2>2. answered[c] = e /\ sources[c] = e /\ Range(e) = {} /\ Len(e) = 0 /\ DOMAIN e = {}
    BY <1>1 DEF Range
  <2> HIDE DEF e
  <2>3. least = 0
    BY <2>2, SearchAssumption, SmallerOfTwo
  <2>4. SourcesFrom(c, e)
    <3>1. Merges(Range(answered[c]), e) /\ Len(sources[c]) = least /\ DOMAIN sources[c] = {}
      BY <2>1, <2>2, <2>3
    <3> QED
      BY <3>1 DEF SourcesFrom
  <2> QED
    BY <2>4
<1> QED
  BY <1>2, <1>3, <1>4, <1>5, <1>6 DEF SourcesInv, MergeInv

LEMMA ChecksAsTheyWere == ASSUME MergeInv, UNCHANGED checkVars PROVE MergeInv'
<1>1. UNCHANGED <<pc, answered, sources, warnings>>
  BY DEF checkVars
<1>2. SourcesAreMerges'
  <2> SUFFICES ASSUME NEW c \in Checks PROVE \E a : SourcesFrom(c, a)'
    BY DEF SourcesAreMerges
  <2>1. PICK a : SourcesFrom(c, a)
    BY DEF MergeInv, SourcesAreMerges
  <2>2. SourcesFrom(c, a)'
    BY <1>1, <2>1 DEF SourcesFrom
  <2> QED
    BY <2>2
<1>3. NothingBefore' /\ OnlyAbstracts'
  BY <1>1 DEF MergeInv, NothingBefore, OnlyAbstracts
<1> QED
  BY <1>2, <1>3 DEF MergeInv

LEMMA SourcesStep == SourcesInv /\ MergeInv /\ [Next]_vars => SourcesInv' /\ MergeInv'
<1> SUFFICES ASSUME SourcesInv, MergeInv, [Next]_vars PROVE SourcesInv' /\ MergeInv'
  OBVIOUS
<1>1. ASSUME NEW c \in Checks, Search(c) PROVE SourcesInv' /\ MergeInv'
  BY <1>1, SearchKeeps
<1>2. ASSUME NEW c \in Checks, TooShort(c) PROVE SourcesInv' /\ MergeInv'
  BY <1>2, TooShortKeeps
<1>3. ASSUME NEW c \in Checks, Retrieved(c) PROVE SourcesInv' /\ MergeInv'
  BY <1>3, RetrievedKeeps
<1>4. ASSUME NEW t \in Tasks, Fetch(t) PROVE SourcesInv' /\ MergeInv'
  <2>1. FetchStep(t) /\ UNCHANGED checkVars
    BY <1>4 DEF Fetch
  <2>2. FetchTypes' /\ CacheIsHonest' /\ AsksForPublic' /\ Turn(t)
    BY <2>1, FetchedIsKept DEF SourcesInv
  <2>3. AtPlace' /\ LearnsInTurn'
    BY <2>1, <2>2, TurnKeepsPlace
  <2>4. CheckTypes'
    BY <2>1 DEF SourcesInv, CheckTypes, checkVars
  <2>5. MergeInv'
    BY <2>1, ChecksAsTheyWere
  <2> QED
    BY <2>2, <2>3, <2>4, <2>5 DEF SourcesInv
<1>5. CASE UNCHANGED <<checkVars, fetchVars>> /\ now' \in 0 .. MaxTime
  <2>1. /\ UNCHANGED <<pc, answered, sources, warnings, data, left, asking, tried>>
        /\ MergeInv'
    BY <1>5, ChecksAsTheyWere DEF checkVars, fetchVars
  <2>2. FetchTypes' /\ CheckTypes'
    BY <1>5, <2>1 DEF SourcesInv, FetchTypes, CheckTypes
  <2>3. CacheIsHonest' /\ AsksForPublic'
    BY <2>1 DEF SourcesInv, CacheIsHonest, AsksForPublic, C!Present, Honest, Url
  <2>4. AtPlace' /\ LearnsInTurn'
    BY <2>1 DEF SourcesInv, AtPlace, Placed, LinksOf, Urls, LearnsInTurn, Recent, GoesOn, Honest
  <2> QED
    BY <2>1, <2>2, <2>3, <2>4 DEF SourcesInv
<1>6. now \in 0 .. MaxTime /\ (now < MaxTime => now + 1 \in 0 .. MaxTime)
  BY FullTextAssumption DEF SourcesInv, FetchTypes
<1>7. ASSUME NEW c \in Clients, Match(c) PROVE SourcesInv' /\ MergeInv'
  BY <1>5, <1>6, <1>7 DEF Match
<1>8. CASE Time
  BY <1>5, <1>6, <1>8 DEF Time, Tick
<1>9. CASE UNCHANGED vars
  BY <1>5, <1>6, <1>9 DEF vars, checkVars, fetchVars
<1> QED
  BY <1>1, <1>2, <1>3, <1>4, <1>7, <1>8, <1>9 DEF Next

LEMMA SourcesAlways == Spec => [](SourcesInv /\ MergeInv)
  BY SourcesInit, SourcesStep, PTL DEF Spec

\* A check's sources are the papers it was given, each once and summed up, whoever answers first.
THEOREM PapersAreMerged == Spec => []SourcesAreMerged
<1>1. SourcesInv /\ MergeInv => SourcesAreMerged
  <2> SUFFICES ASSUME SourcesInv, MergeInv, NEW c \in Checks
               PROVE  LET keys == {DedupKey(w) : w \in Range(answered[c])} \ {<<>>}
                          of(k) == {w \in Range(answered[c]) : DedupKey(w) = k}
                      IN  /\ \A i, j \in DOMAIN sources[c] : sources[c][i].key = sources[c][j].key => i = j
                          /\ {s.key : s \in Range(sources[c])} \subseteq keys
                          /\ Len(sources[c]) = Min({MaxSources, Cardinality(keys)})
                          /\ \A s \in Range(sources[c]) :
                               /\ s.size = Max({Size(w) : w \in of(s.key)})
                               /\ Range(s.links) = UNION {Range(w.links) : w \in of(s.key)}
                               /\ IF s.kind = "abstract" THEN \E w \in of(s.key) : s.text = w.abstract /\ Size(w) = s.size
                                  ELSE \E u \in Range(s.links) : s.text = Content[u]
    BY DEF SourcesAreMerged
  <2>1. PICK all : SourcesFrom(c, all)
    BY DEF MergeInv, SourcesAreMerges
  <2> DEFINE W == Range(answered[c])
             of(k) == {w \in W : DedupKey(w) = k}
             keys == {DedupKey(w) : w \in W} \ {<<>>}
             N == Len(all)
             S == sources[c]
  <2>2. Merges(W, all) /\ Len(S) = Min({MaxSources, N}) /\ \A i \in DOMAIN S : FromCandidate(S[i], all[i])
    BY <2>1 DEF SourcesFrom
  <2>3. answered[c] \in Seq(Work) /\ W \subseteq Work /\ S \in Seq(Candidate)
    <3>1. answered[c] \in Seq(Work) /\ S \in Seq(Candidate)
      BY DEF SourcesInv, CheckTypes
    <3> QED
      BY <3>1, RangeOfSeq
  <2> HIDE DEF W, S
  <2>4. /\ all \in Seq(Candidate)
        /\ \A i, j \in 1 .. N : all[i].key = all[j].key => i = j
        /\ \A i \in 1 .. N : all[i].key # <<>> /\ SumsUp(all[i], of(all[i].key))
        /\ \A w \in W : DedupKey(w) # <<>> => \E i \in 1 .. N : all[i].key = DedupKey(w)
    BY <2>2 DEF Merges
  <2>5. N \in Nat /\ Len(S) \in Nat /\ Len(S) <= N /\ DOMAIN S = 1 .. Len(S)
    <3>1. N \in Nat /\ Len(S) \in Nat /\ DOMAIN S = 1 .. Len(S)
      BY <2>3, <2>4, LenProperties
    <3>2. Min({MaxSources, N}) <= N
      BY <3>1, SearchAssumption, SmallerOfTwo
    <3> QED
      BY <2>2, <3>1, <3>2
  <2>6. \A i \in 1 .. N : all[i].key \in keys
    <3> SUFFICES ASSUME NEW i \in 1 .. N PROVE all[i].key \in keys
      OBVIOUS
    <3>1. PICK w \in of(all[i].key) : Size(w) = all[i].size
      BY <2>4 DEF SumsUp
    <3> QED
      BY <2>4, <3>1
  <2> HIDE DEF N
  <2>7. \A i \in 1 .. Len(S) : i \in 1 .. N
    BY <2>5
  <2>8. \A i, j \in DOMAIN S : S[i].key = S[j].key => i = j
    BY <2>2, <2>4, <2>5, <2>7 DEF FromCandidate
  <2>9. \A s \in Range(S) : \E i \in 1 .. N : FromCandidate(s, all[i])
    BY <2>2, <2>5, <2>7 DEF Range
  <2>10. {s.key : s \in Range(S)} \subseteq keys
    BY <2>6, <2>9 DEF FromCandidate
  <2>11. Cardinality(keys) = N
    <3> DEFINE f == [i \in 1 .. N |-> all[i].key]
    <3>1. f \in Bijection(1 .. N, keys)
      <4>1. f \in Injection(1 .. N, keys)
        <5>1. \A i \in 1 .. N : all[i].key \in keys
          BY <2>6
        <5> HIDE DEF keys
        <5>2. f \in [1 .. N -> keys]
          BY <5>1
        <5>3. \A i, j \in 1 .. N : f[i] = f[j] => i = j
          BY <2>4
        <5> HIDE DEF f
        <5> QED
          BY <5>2, <5>3 DEF Injection, IsInjective
      <4>2. \A k \in keys : \E i \in 1 .. N : f[i] = k
        BY <2>4
      <4>3. f \in Surjection(1 .. N, keys)
        BY <2>6, <4>2 DEF Surjection
      <4> QED
        BY <4>1, <4>3 DEF Bijection
    <3> HIDE DEF f, keys
    <3>2. ExistsBijection(1 .. N, keys)
      BY <3>1 DEF ExistsBijection
    <3> QED
      BY <2>5, <3>2, FS_CountingElements
  <2>12. Len(S) = Min({MaxSources, Cardinality(keys)})
    BY <2>2, <2>11
  <2>13. \A s \in Range(S) :
           /\ s.size = Max({Size(w) : w \in of(s.key)})
           /\ Range(s.links) = UNION {Range(w.links) : w \in of(s.key)}
           /\ IF s.kind = "abstract" THEN \E w \in of(s.key) : s.text = w.abstract /\ Size(w) = s.size
              ELSE \E u \in Range(s.links) : s.text = Content[u]
    <3> SUFFICES ASSUME NEW s \in Range(S)
                 PROVE  /\ s.size = Max({Size(w) : w \in of(s.key)})
                        /\ Range(s.links) = UNION {Range(w.links) : w \in of(s.key)}
                        /\ IF s.kind = "abstract" THEN \E w \in of(s.key) : s.text = w.abstract /\ Size(w) = s.size
                           ELSE \E u \in Range(s.links) : s.text = Content[u]
      OBVIOUS
    <3>1. PICK i \in 1 .. N : FromCandidate(s, all[i])
      BY <2>9
    <3> DEFINE O == of(s.key)
               sizes == {Size(w) : w \in O}
    <3>2. O = of(all[i].key) /\ s.size = all[i].size /\ s.links = all[i].links
      BY <3>1 DEF FromCandidate
    <3>3. SumsUp(all[i], O)
      BY <2>4, <3>2
    <3>4. O \subseteq Work
      BY <2>3
    <3> HIDE DEF O
    <3>5. s.size \in sizes /\ sizes \subseteq Nat /\ \A x \in sizes : x <= s.size
      BY <3>2, <3>3, <3>4, SizeType DEF SumsUp
    <3> HIDE DEF sizes
    <3>6. s.size = Max(sizes)
      BY <3>5, MaxIs
    <3>7. Range(s.links) = UNION {Range(w.links) : w \in O}
      BY <3>2, <3>3 DEF SumsUp
    <3>8. IF s.kind = "abstract" THEN \E w \in O : s.text = w.abstract /\ Size(w) = s.size
          ELSE \E u \in Range(s.links) : s.text = Content[u]
      BY <3>1, <3>2, <3>3 DEF SumsUp, FromCandidate
    <3> QED
      BY <3>6, <3>7, <3>8 DEF O, sizes
  <2> QED
    BY <2>8, <2>10, <2>12, <2>13 DEF W, S
<1> QED
  BY <1>1, SourcesAlways, PTL

\* What a task has learned is of its candidate's first links, in order, and recent.
THEOREM FullTextsAreCurrent == Spec => []FullTextIsCurrent
<1>1. SourcesInv /\ MergeInv => FullTextIsCurrent
  <2> SUFFICES ASSUME SourcesInv, NEW t \in Tasks
               PROVE  LET public == Those(FirstTwo(sources[t[1]][t[2]].links), Public)
                      IN  /\ tried[t] # <<>> => IsPrefix([i \in DOMAIN tried[t] |-> tried[t][i].result.url], public)
                          /\ \A i \in DOMAIN tried[t] :
                               LET r == tried[t][i].result
                               IN  /\ tried[t][i].read - r.at <= CacheTTL
                                   /\ r.ok => \E a \in Answers[r.url] : a.url \in Public /\ Accepted(a)
                                   /\ i < Len(tried[t]) => ~r.ok
    BY DEF FullTextIsCurrent
  <2>1. \A i \in DOMAIN tried[t] : Recent(t, i) /\ GoesOn(t, i)
    BY DEF SourcesInv, LearnsInTurn
  <2>2. tried[t] # <<>> => IsPrefix(Urls(t), Those(LinksOf(t), Public))
    <3> SUFFICES ASSUME tried[t] # <<>> PROVE IsPrefix(Urls(t), Those(LinksOf(t), Public))
      OBVIOUS
    <3>1. Placed(t)
      BY DEF SourcesInv, AtPlace
    <3> QED
      BY <3>1, LinksAreShort, PositionIsPrefix DEF SourcesInv, Placed
  <2> QED
    BY <2>1, <2>2 DEF Recent, GoesOn, Honest, Urls, LinksOf
<1> QED
  BY <1>1, SourcesAlways, PTL

-----------------------------------------------------------------------------
(* Which databases are named                                                 *)

Useless(reply) == \A w \in Range(reply.works) : ~(Len(w.abstract) >= MinAbstract)
LEMMA UselessGivesNothing == ASSUME NEW reply \in Reply PROVE Usable(reply.works) = <<>> <=> Useless(reply)
<1> DEFINE s == reply.works
           t == Usable(s)
<1>1. s \in Seq(Work)
  BY DEF Reply
<1>2. t \in Seq(Work) /\ Range(t) = Range(s) \cap {w \in Range(s) : Len(w.abstract) >= MinAbstract}
  BY <1>1, ThoseAre DEF Usable
<1>3. t = <<>> <=> Range(t) = {}
  <2> HIDE DEF t
  <2>1. Range(t) = {t[i] : i \in 1 .. Len(t)} /\ Len(t) \in Nat /\ DOMAIN t = 1 .. Len(t)
    BY <1>2, RangeEquality
  <2>2. CASE Len(t) = 0
    BY <1>2, <2>1, <2>2
  <2>3. CASE Len(t) # 0
    <3>1. 1 \in 1 .. Len(t)
      BY <2>1, <2>3
    <3>2. t[1] \in Range(t)
      BY <2>1, <3>1
    <3>3. t # <<>>
      BY <2>3
    <3> QED
      BY <3>2, <3>3
  <2> QED
    BY <2>2, <2>3
<1> HIDE DEF t
<1> QED
  BY <1>2, <1>3 DEF Useless, t

\* A database has given nothing as long as its answers were useless, and then each failure
\* is counted.
Silent(r, n) == \A i \in 1 .. n : Useless(r[i])
Counts(x, r, n) ==
  /\ x.out = <<>> <=> Silent(r, n)
  /\ x.out = <<>> => (x.failures > 0 <=> \E i \in 1 .. n : r[i].failed)

LEMMA AskedOnceMore ==
  ASSUME MaxSources > 0, NEW r \in Seq(Reply), NEW n \in 1 .. Len(r), NEW x \in Heard, Counts(x, r, n - 1)
  PROVE  Counts(Ask(x, r[n]), r, n)
<1>1. r[n] \in Reply /\ n \in Nat /\ n > 0
  OBVIOUS
<1>2. x.out \in Seq(Work) /\ x.failures \in Nat /\ r[n].failed \in BOOLEAN
  BY <1>1 DEF Heard, Reply
<1>3. Silent(r, n) <=> Silent(r, n - 1) /\ Useless(r[n])
  <2>1. \A i \in Nat : i \in 1 .. n <=> i \in 1 .. n - 1 \/ i = n
    BY <1>1
  <2> QED
    BY <1>1, <2>1 DEF Silent
<1>4. (\E i \in 1 .. n : r[i].failed) <=> (\E i \in 1 .. n - 1 : r[i].failed) \/ r[n].failed
  <2>1. \A i \in Nat : i \in 1 .. n <=> i \in 1 .. n - 1 \/ i = n
    BY <1>1
  <2> QED
    BY <1>1, <2>1
<1> DEFINE t == Usable(r[n].works)
<1>5. t \in Seq(Work) /\ (t = <<>> <=> Useless(r[n]))
  <2>1. r[n].works \in Seq(Work)
    BY <1>1 DEF Reply
  <2> QED
    BY <1>1, <2>1, ThoseAre, UselessGivesNothing DEF Usable
<1>6. CASE x.out = <<>>
  <2>1. Ask(x, r[n]) = [out |-> x.out \o t, failures |-> x.failures + IF r[n].failed THEN 1 ELSE 0]
    BY <1>6, SearchAssumption DEF Ask
  <2> HIDE DEF t
  <2>2. x.out \o t = t
    BY <1>5, <1>6
  <2>3. Ask(x, r[n]).out = t /\ Ask(x, r[n]).failures = x.failures + IF r[n].failed THEN 1 ELSE 0
    BY <2>1, <2>2
  <2>4. Ask(x, r[n]).failures > 0 <=> x.failures > 0 \/ r[n].failed
    BY <1>2, <2>3
  <2> QED
    BY <1>3, <1>4, <1>5, <1>6, <2>3, <2>4 DEF Counts
<1>7. CASE x.out # <<>>
  <2> HIDE DEF t
  <2>1. Len(x.out) > 0 /\ Len(x.out) \in Nat
    BY <1>2, <1>7
  <2>2. x.out \o t # <<>>
    <3>1. Len(x.out \o t) = Len(x.out) + Len(t) /\ Len(t) \in Nat
      BY <1>2, <1>5, ConcatProperties
    <3> QED
      BY <2>1, <3>1
  <2>3. Ask(x, r[n]).out # <<>>
    BY <1>7, <2>2 DEF Ask, t
  <2> QED
    BY <1>3, <1>7, <2>3 DEF Counts
<1> QED
  BY <1>6, <1>7

\* So a database is unreachable if it brought nothing and failed.
LEMMA ProviderSilent ==
  ASSUME NEW p, NEW r \in Seq(Reply)
  PROVE  SearchProvider(p, r).unreachable <=> BroughtNothing(p, r, Len(r))
<1>1. PICK u : Hears(u, p, r)
  BY ProviderUnfold
<1> DEFINE N == AskedOf(p, r)
           zero == [out |-> <<>>, failures |-> 0]
           keyed == p = "semanticscholar" => HasKey
<1>2. N \in Nat /\ N <= Len(r) /\ 1 .. N = {i \in DOMAIN r : i <= Len(r) /\ (p = "arxiv" => i <= ArxivQueries)}
  BY AskedIs
<1>3. BroughtNothing(p, r, Len(r)) <=> MaxSources > 0 /\ keyed /\ (\E i \in 1 .. N : r[i].failed) /\ Silent(r, N)
  BY <1>2, Zenon DEF BroughtNothing, Silent, Useless
<1>4. SearchProvider(p, r).unreachable <=> keyed /\ u[N].failures > 0 /\ u[N].out = <<>>
  <2> DEFINE x == u[N]
  <2>1. SearchProvider(p, r) =
          IF p = "semanticscholar" /\ ~HasKey THEN [out |-> <<>>, unreachable |-> FALSE]
          ELSE [out |-> x.out, unreachable |-> x.failures > 0 /\ x.out = <<>>]
    BY <1>1 DEF Hears
  <2> DEFINE y == x.failures > 0 /\ x.out = <<>>
  <2> HIDE DEF x, y
  <2>2. CASE keyed
    <3>1. SearchProvider(p, r) = [out |-> x.out, unreachable |-> y]
      BY <2>1, <2>2 DEF y
    <3>2. SearchProvider(p, r).unreachable = y
      BY <3>1
    <3> QED
      BY <2>2, <3>2 DEF x, y
  <2>3. CASE ~keyed
    BY <2>1, <2>3
  <2> QED
    BY <2>2, <2>3
<1>5. u[0] = zero /\ (\A n \in 1 .. N : u[n] = Ask(u[n - 1], r[n])) /\ \A n \in 0 .. N : u[n] \in Heard
  BY <1>1 DEF Hears
<1>6. N \in 0 .. N
  BY <1>2
<1> HIDE DEF N, keyed
<1>7. CASE MaxSources = 0
  <2> DEFINE T == {n \in Nat : u[n].failures = 0}
  <2>1. 0 \in T
    BY <1>5
  <2>2. ASSUME NEW n \in 1 .. N, n - 1 \in T PROVE n \in T
    <3>1. n \in Nat /\ n - 1 \in 0 .. N
      BY <1>2
    <3>2. u[n - 1] \in Heard
      BY <1>5, <3>1
    <3>3. u[n - 1].out \in Seq(Work)
      BY <3>2 DEF Heard
    <3>4. Len(u[n - 1].out) >= MaxSources
      BY <1>7, <3>3
    <3>5. u[n] = u[n - 1]
      BY <1>5, <3>4 DEF Ask
    <3> QED
      BY <2>2, <3>1, <3>5
  <2> HIDE DEF T
  <2>3. N \in T
    BY <1>2, <1>6, <2>1, <2>2, InductionUpTo
  <2>4. ~(u[N].failures > 0)
    BY <2>3 DEF T
  <2> QED
    BY <1>3, <1>4, <1>7, <2>4
<1>8. CASE MaxSources > 0
  <2> DEFINE T == {n \in Nat : Counts(u[n], r, n)}
  <2>1. 0 \in T
    <3>1. 1 .. 0 = {}
      OBVIOUS
    <3>2. u[0].out = <<>> /\ ~(u[0].failures > 0)
      BY <1>5
    <3> QED
      BY <3>1, <3>2 DEF Counts, Silent
  <2>2. ASSUME NEW n \in 1 .. N, n - 1 \in T PROVE n \in T
    <3>1. n \in Nat /\ n - 1 \in 0 .. N /\ n \in 1 .. Len(r)
      BY <1>2
    <3>2. u[n - 1] \in Heard /\ Counts(u[n - 1], r, n - 1)
      BY <1>5, <2>2, <3>1
    <3>3. Counts(Ask(u[n - 1], r[n]), r, n)
      BY <1>8, <3>1, <3>2, AskedOnceMore
    <3> QED
      BY <1>5, <3>1, <3>3
  <2> HIDE DEF T
  <2>3. N \in T
    BY <1>2, <1>6, <2>1, <2>2, InductionUpTo
  <2>4. Counts(u[N], r, N)
    BY <2>3 DEF T
  <2> QED
    BY <1>3, <1>4, <1>8, <2>4 DEF Counts
<1> QED
  BY <1>7, <1>8, SearchAssumption

\* What is asked of a check's database are the first of its answers.
LEMMA ContributionNames ==
  ASSUME NEW p, NEW r, r = Raised \/ r \in Seq(Reply), NEW q \in Nat
  PROVE  Contribution(p, r, q).unreachable <=> r = Raised \/ BroughtNothing(p, r, q)
<1>1. CASE r = Raised
  BY <1>1 DEF Contribution
<1>2. CASE r # Raised
  <2> DEFINE n == Min({q, Len(r)})
             t == SubSeq(r, 1, n)
             asked == {i \in DOMAIN r : i <= q /\ (p = "arxiv" => i <= ArxivQueries)}
  <2>1. r \in Seq(Reply) /\ Len(r) \in Nat /\ DOMAIN r = 1 .. Len(r)
    BY <1>2
  <2>2. n \in {q, Len(r)} /\ n <= q /\ n <= Len(r)
    BY <2>1, SmallerOfTwo
  <2>3. Contribution(p, r, q).unreachable = SearchProvider(p, t).unreachable
    BY <1>2 DEF Contribution
  <2> HIDE DEF n
  <2>4. n \in Nat /\ \A i \in 1 .. n : r[i] \in Reply
    <3>1. n \in Nat
      BY <2>1, <2>2
    <3>2. \A i \in 1 .. Len(r) : r[i] \in Reply
      BY <2>1
    <3>3. 1 .. n \subseteq 1 .. Len(r)
      <4> DEFINE k == Len(r)
      <4>1. k \in Nat /\ n <= k
        BY <2>1, <2>2
      <4> HIDE DEF k
      <4>2. 1 .. n \subseteq 1 .. k
        BY <3>1, <4>1
      <4> QED
        BY <4>2, SMTT(60) DEF k
    <3> QED
      BY <3>1, <3>2, <3>3, SMTT(60)
  <2>5. t \in Seq(Reply) /\ Len(t) = n /\ \A i \in 1 .. n : t[i] = r[i]
    BY <2>4, SubSeqProperties
  <2> HIDE DEF t
  <2>6. DOMAIN t = 1 .. n
    BY <2>5
  <2>7. {i \in DOMAIN t : i <= Len(t) /\ (p = "arxiv" => i <= ArxivQueries)} = asked
    <3>1. \A i \in Nat : i \in DOMAIN t /\ i <= Len(t) <=> i \in DOMAIN r /\ i <= q
      <4>1. CASE n = q
        BY <2>1, <2>2, <2>5, <2>6, <4>1
      <4>2. CASE n = Len(r)
        BY <2>1, <2>2, <2>5, <2>6, <4>2
      <4> QED
        BY <2>2, <4>1, <4>2
    <3>2. DOMAIN t \subseteq Nat /\ DOMAIN r \subseteq Nat
      BY <2>1, <2>6
    <3> QED
      BY <3>1, <3>2
  <2>8. \A i \in asked : t[i] = r[i]
    BY <2>5, <2>6, <2>7
  <2> HIDE DEF asked
  <2>9. BroughtNothing(p, t, Len(t)) <=> BroughtNothing(p, r, q)
    BY <2>7, <2>8, Zenon DEF BroughtNothing, asked
  <2> QED
    BY <1>2, <2>3, <2>5, <2>9, ProviderSilent
<1> QED
  BY <1>1, <1>2

LEMMA OutcomeNames ==
  ASSUME NEW o \in Outcomes
  PROVE  o.unreachable =
           {p \in Databases : \/ o.replies[p] = Raised
                              \/ BroughtNothing(p, o.replies[p], Len(BuildQueries(o.for)))}
<1>1. PICK m \in UNION {Range(s) : s \in Submissions}, r \in ReplySets, a \in Arrivals : o = Outcome(m, r, a)
  BY DEF Outcomes
<1> DEFINE q == Len(BuildQueries(m))
           given == [p \in Databases |-> Contribution(p, r[p], q)]
<1>2. o.for = m /\ o.replies = r /\ o.unreachable = {p \in Databases : given[p].unreachable}
  BY <1>1 DEF Outcome
<1>3. q \in Nat
  OBVIOUS
<1> HIDE DEF q
<1>4. ASSUME NEW p \in Databases PROVE given[p].unreachable <=> r[p] = Raised \/ BroughtNothing(p, r[p], q)
  <2>1. r[p] = Raised \/ r[p] \in Seq(Reply)
    BY SharedAssumption DEF ReplySets, Reply
  <2> QED
    BY <1>3, <2>1, ContributionNames
<1> HIDE DEF given
<1> QED
  BY <1>2, <1>4 DEF q

\* What a check says of the databases, from the search on.
Names(c) == Databases \cap warnings[c] = Unanswered(c)
AnyReply == UNION {Replies[p] : p \in Databases}
Answer == AnyReply \cup {<<>>}
NamesInv ==
  /\ replied \in [Checks -> [Databases -> Answer]]
  /\ \A c \in Checks : Names(c) /\ (pc[c] = "search" => Databases \cap warnings[c] = {})

\* A check goes on as it was, for all it says of the databases.
Alike(c) ==
  /\ replied'[c] = replied[c] /\ manuscript' = manuscript
  /\ Databases \cap warnings'[c] = Databases \cap warnings[c]
  /\ pc'[c] = "search" => pc[c] = "search"
LEMMA AllAlike ==
  ASSUME NamesInv, replied' = replied, \A c \in Checks : Alike(c)
  PROVE  NamesInv'
<1>1. ASSUME NEW c \in Checks PROVE Names(c)' /\ (pc'[c] = "search" => Databases \cap warnings'[c] = {})
  <2>1. Names(c) /\ Alike(c) /\ (pc[c] = "search" => Databases \cap warnings[c] = {})
    BY DEF NamesInv
  <2>2. Unanswered(c)' = Unanswered(c)
    BY <2>1 DEF Unanswered, Alike
  <2> QED
    BY <2>1, <2>2 DEF Names, Alike
<1>2. replied' \in [Checks -> [Databases -> Answer]]
  BY DEF NamesInv
<1> QED
  BY <1>1, <1>2 DEF NamesInv

LEMMA NamesInit == Init => NamesInv
<1> SUFFICES ASSUME Init PROVE NamesInv
  OBVIOUS
<1>1. replied = [c \in Checks |-> [p \in Databases |-> <<>>]] /\ warnings = [c \in Checks |-> {}]
  BY DEF Init
<1>2. \A p, n : ~BroughtNothing(p, <<>>, n)
  BY DEF BroughtNothing
<1>3. \A c \in Checks : Unanswered(c) = {}
  BY <1>1, <1>2, SharedAssumption DEF Unanswered
<1>4. replied \in [Checks -> [Databases -> Answer]]
  <2>1. <<>> \in Answer
    BY DEF Answer
  <2> QED
    BY <1>1, <2>1
<1> QED
  BY <1>1, <1>3, <1>4 DEF NamesInv, Names

LEMMA NamesStep == SourcesInv /\ MergeInv /\ NamesInv /\ [Next]_vars => NamesInv'
<1> SUFFICES ASSUME SourcesInv, MergeInv, NamesInv, [Next]_vars PROVE NamesInv'
  OBVIOUS
<1>1. /\ replied \in [Checks -> [Databases -> Answer]]
      /\ \A c \in Checks : Names(c) /\ (pc[c] = "search" => Databases \cap warnings[c] = {})
  BY DEF NamesInv
<1>2. DOMAIN warnings = Checks /\ DOMAIN pc = Checks
  BY DEF SourcesInv, CheckTypes
<1>3. ASSUME NEW d \in Checks, Search(d) PROVE NamesInv'
  <2>1. PICK o \in Outcomes :
          /\ o.for = manuscript[d] /\ manuscript' = manuscript
          /\ replied' = [replied EXCEPT ![d] = o.replies]
          /\ warnings' = [warnings EXCEPT ![d] = o.unreachable]
          /\ pc' = [pc EXCEPT ![d] = "fetch"]
    BY <1>3 DEF Search
  <2>2. o.replies \in [Databases -> Answer]
    <3>1. PICK m \in UNION {Range(x) : x \in Submissions}, r \in ReplySets, a \in Arrivals : o = Outcome(m, r, a)
      BY DEF Outcomes
    <3>2. o.replies = r
      BY <3>1 DEF Outcome
    <3> QED
      BY <3>2 DEF ReplySets, AnyReply, Answer
  <2>3. replied' \in [Checks -> [Databases -> Answer]]
    BY <1>1, <2>1, <2>2
  <2>4. Names(d)' /\ pc'[d] # "search"
    <3>1. replied'[d] = o.replies /\ warnings'[d] = o.unreachable /\ manuscript'[d] = o.for /\ pc'[d] = "fetch"
      BY <1>1, <1>2, <2>1
    <3>2. Unanswered(d)' = o.unreachable
      BY <3>1, OutcomeNames DEF Unanswered
    <3>3. o.unreachable \subseteq Databases
      BY OutcomeIs
    <3> QED
      BY <3>1, <3>2, <3>3 DEF Names
  <2>5. ASSUME NEW c \in Checks, c # d PROVE Names(c)' /\ (pc'[c] = "search" => Databases \cap warnings'[c] = {})
    <3>1. replied'[c] = replied[c] /\ manuscript' = manuscript /\ warnings'[c] = warnings[c] /\ pc'[c] = pc[c]
      BY <1>1, <1>2, <2>1, <2>5
    <3>2. Unanswered(c)' = Unanswered(c)
      BY <3>1 DEF Unanswered
    <3> QED
      BY <1>1, <3>1, <3>2 DEF Names
  <2> QED
    BY <2>3, <2>4, <2>5 DEF NamesInv
<1>4. ASSUME NEW d \in Checks, TooShort(d) PROVE NamesInv'
  <2>1. /\ replied' = replied /\ manuscript' = manuscript /\ warnings' = [warnings EXCEPT ![d] = {"too short"}]
        /\ pc[d] = "search" /\ pc' = [pc EXCEPT ![d] = "fetch"]
    BY <1>4 DEF TooShort
  <2>2. Databases \cap {"too short"} = {} /\ Databases \cap warnings[d] = {}
    BY <1>1, <2>1, SharedAssumption
  <2>3. \A c \in Checks : Alike(c)
    BY <1>2, <2>1, <2>2 DEF Alike
  <2> QED
    BY <2>1, <2>3, AllAlike
<1>5. ASSUME NEW d \in Checks, Retrieved(d) PROVE NamesInv'
  <2>1. /\ pc' = [pc EXCEPT ![d] = pc'[d]] /\ pc'[d] # "search" /\ pc[d] = "fetch" /\ manuscript' = manuscript
        /\ warnings' = [warnings EXCEPT ![d] = warnings'[d]]
    BY <1>5, RetrievedIs
  <2>2. replied' = replied
    BY <1>5 DEF Retrieved
  <2>3. PICK said : /\ warnings'[d] = IF Full(d) = <<>> /\ said = {} /\ Databases # {} THEN {"none found"} ELSE said
                    /\ \/ said = warnings[d] \cup {"abstracts only"}
                       \/ said = warnings[d] \cup {}
    <3> DEFINE x == warnings[d] \cup (IF Fetching /\ Chosen(manuscript[d], sources[d]) # {} /\ AbstractsOnly(d)
                                      THEN {"abstracts only"} ELSE {})
    <3>1. warnings'[d] = IF Full(d) = <<>> /\ x = {} /\ Databases # {} THEN {"none found"} ELSE x
      BY <1>2, <1>5 DEF Retrieved, Full
    <3>2. \/ x = warnings[d] \cup {"abstracts only"}
          \/ x = warnings[d] \cup {}
      OBVIOUS
    <3> HIDE DEF x
    <3> QED
      BY <3>1, <3>2
  <2>4. Databases \cap warnings'[d] = Databases \cap warnings[d]
    BY <2>3, SharedAssumption
  <2>5. \A c \in Checks : Alike(c)
    BY <1>2, <2>1, <2>2, <2>4 DEF Alike
  <2> QED
    BY <2>2, <2>5, AllAlike
<1>6. CASE UNCHANGED checkVars
  <2>1. replied' = replied /\ \A c \in Checks : Alike(c)
    BY <1>6 DEF checkVars, Alike
  <2> QED
    BY <2>1, AllAlike
<1> QED
  BY <1>3, <1>4, <1>5, <1>6 DEF Next, Fetch, Match, Time, vars, checkVars

LEMMA NamesAlways == Spec => []NamesInv
  BY NamesInit, NamesStep, SourcesAlways, PTL DEF Spec

-----------------------------------------------------------------------------
(* What is said of the sources                                               *)

\* Some candidate has links and still only an abstract.
AbstractLeft(c) == \E s \in Range(sources[c]) : s.kind = "abstract" /\ s.links # <<>>
Says(c) ==
  /\ sources[c] = <<>> /\ Databases # {} => warnings[c] # {}
  /\ Fetching /\ FulltextMaxDocs > 0 /\ AbstractLeft(c) => "abstracts only" \in warnings[c]
  /\ "abstracts only" \in warnings[c] => AbstractLeft(c)

Said == \A c \in Checks : pc[c] \notin {"search", "fetch"} => Says(c)

LEMMA RetrievedSays ==
  ASSUME SourcesInv, MergeInv, NEW c \in Checks, Retrieved(c)
  PROVE  Says(c)'
<1> DEFINE S == sources[c]
           got == {i \in DOMAIN S : Obtained(c, i)}
           said == warnings[c] \cup (IF Fetching /\ Chosen(manuscript[c], S) # {} /\ AbstractsOnly(c)
                                     THEN {"abstracts only"} ELSE {})
<1>1. /\ S \in Seq(Candidate) /\ IsFiniteSet(DOMAIN S)
      /\ "abstracts only" \notin warnings[c] /\ \A i \in DOMAIN S : S[i].kind = "abstract"
  <2>1. S \in Seq(Candidate)
    BY DEF SourcesInv, CheckTypes
  <2>2. DOMAIN S = 1 .. Len(S) /\ Len(S) \in Nat
    BY <2>1, LenProperties
  <2>3. IsFiniteSet(1 .. Len(S))
    BY <2>2, FS_Interval
  <2> QED
    BY <2>1, <2>2, <2>3 DEF MergeInv, OnlyAbstracts, Retrieved
<1>2. warnings'[c] = IF Full(c) = <<>> /\ said = {} /\ Databases # {} THEN {"none found"} ELSE said
  BY DEF Retrieved, Full, SourcesInv, CheckTypes
<1>3. sources'[c] = Full(c)
  BY RetrievedIs DEF SourcesInv, CheckTypes
<1>4. /\ Full(c) \in Seq(Candidate) /\ DOMAIN Full(c) = DOMAIN S
      /\ \A i \in DOMAIN S : /\ Full(c)[i].links = S[i].links
                             /\ ~Obtained(c, i) => Full(c)[i] = S[i]
                             /\ Obtained(c, i) => Full(c)[i].kind = "fulltext" /\ S[i].links # <<>>
  BY FullIs
<1>5. got \subseteq WithLinks(S) /\ IsFiniteSet(WithLinks(S)) /\ IsFiniteSet(got)
  <2>1. got \subseteq WithLinks(S)
    BY <1>4 DEF WithLinks
  <2>2. IsFiniteSet(WithLinks(S)) /\ IsFiniteSet(got)
    BY <1>1, FS_Subset DEF WithLinks
  <2> QED
    BY <2>1, <2>2
<1>6. AbstractsOnly(c) <=> Cardinality(got) < Cardinality(WithLinks(S))
  BY DEF AbstractsOnly
<1> HIDE DEF S
<1>7. AbstractLeft(c)' <=> \E i \in WithLinks(S) : i \notin got
  <2>1. AbstractLeft(c)' <=> \E i \in DOMAIN Full(c) : Full(c)[i].kind = "abstract" /\ Full(c)[i].links # <<>>
    BY <1>3 DEF AbstractLeft, Range
  <2>2. \A i \in DOMAIN S : Full(c)[i].kind = "abstract" /\ Full(c)[i].links # <<>> <=> i \in WithLinks(S) /\ i \notin got
    BY <1>1, <1>4 DEF WithLinks
  <2>3. WithLinks(S) \subseteq DOMAIN S
    BY DEF WithLinks
  <2> QED
    BY <1>4, <2>1, <2>2, <2>3
<1> HIDE DEF got
<1>8. (\E i \in WithLinks(S) : i \notin got) => AbstractsOnly(c) /\ WithLinks(S) # {}
  <2> SUFFICES ASSUME \E i \in WithLinks(S) : i \notin got PROVE AbstractsOnly(c) /\ WithLinks(S) # {}
    OBVIOUS
  <2>1. got # WithLinks(S)
    OBVIOUS
  <2>2. Cardinality(got) <= Cardinality(WithLinks(S)) /\ Cardinality(got) # Cardinality(WithLinks(S))
    BY <1>5, <2>1, FS_Subset
  <2>3. Cardinality(got) \in Nat /\ Cardinality(WithLinks(S)) \in Nat
    BY <1>5, FS_CardinalityType
  <2> QED
    BY <1>6, <2>2, <2>3
<1>9. AbstractsOnly(c) => \E i \in WithLinks(S) : i \notin got
  <2> SUFFICES ASSUME WithLinks(S) \subseteq got PROVE ~AbstractsOnly(c)
    OBVIOUS
  <2>1. got = WithLinks(S)
    BY <1>5
  <2>2. Cardinality(got) \in Nat
    BY <1>5, FS_CardinalityType
  <2> QED
    BY <1>6, <2>1, <2>2
<1>10. Full(c) = <<>> /\ Databases # {} => warnings'[c] # {}
  BY <1>2
<1>11. Fetching /\ FulltextMaxDocs > 0 /\ AbstractLeft(c)' => "abstracts only" \in warnings'[c]
  <2> SUFFICES ASSUME Fetching, FulltextMaxDocs > 0, AbstractLeft(c)' PROVE "abstracts only" \in warnings'[c]
    OBVIOUS
  <2>1. AbstractsOnly(c) /\ WithLinks(S) # {}
    BY <1>7, <1>8
  <2>2. Chosen(manuscript[c], S) # {}
    BY <1>1, <2>1, SomeAreChosen
  <2> QED
    BY <1>2, <2>1, <2>2
<1>12. "abstracts only" \in warnings'[c] => AbstractLeft(c)'
  <2> SUFFICES ASSUME "abstracts only" \in warnings'[c] PROVE AbstractLeft(c)'
    OBVIOUS
  <2>1. "abstracts only" \in said
    <3> HIDE DEF said
    <3>1. "abstracts only" \notin {"none found"}
      OBVIOUS
    <3> QED
      BY <1>2, <3>1
  <2>2. AbstractsOnly(c)
    <3> SUFFICES ASSUME ~AbstractsOnly(c) PROVE FALSE
      OBVIOUS
    <3>1. said = warnings[c]
      OBVIOUS
    <3> QED
      BY <1>1, <2>1, <3>1
  <2> QED
    BY <1>7, <1>9, <2>2
<1> QED
  BY <1>3, <1>10, <1>11, <1>12 DEF Says

LEMMA SaysStep ==
  SourcesInv /\ MergeInv /\ Said /\ [Next]_vars => Said'
<1> SUFFICES ASSUME SourcesInv, MergeInv, Said, [Next]_vars,
                    NEW c \in Checks, pc'[c] \notin {"search", "fetch"}
             PROVE  Says(c)'
  BY DEF Said
<1>1. ASSUME pc'[c] = pc[c], sources'[c] = sources[c], warnings'[c] = warnings[c] PROVE Says(c)'
  BY <1>1 DEF Said, Says, AbstractLeft
<1>2. ASSUME NEW d \in Checks, Search(d) PROVE Says(c)'
  <2>1. d # c
    BY <1>2 DEF Search, SourcesInv, CheckTypes
  <2> QED
    BY <1>1, <1>2, <2>1 DEF Search, SourcesInv, CheckTypes
<1>3. ASSUME NEW d \in Checks, TooShort(d) PROVE Says(c)'
  <2>1. d # c
    BY <1>3 DEF TooShort, SourcesInv, CheckTypes
  <2> QED
    BY <1>1, <1>3, <2>1 DEF TooShort, SourcesInv, CheckTypes
<1>4. ASSUME NEW d \in Checks, Retrieved(d) PROVE Says(c)'
  <2>1. CASE d = c
    BY <1>4, <2>1, RetrievedSays
  <2>2. CASE d # c
    <3>1. /\ pc' = [pc EXCEPT ![d] = pc'[d]] /\ sources' = [sources EXCEPT ![d] = Full(d)]
          /\ warnings' = [warnings EXCEPT ![d] = warnings'[d]]
      BY <1>4, RetrievedIs
    <3> QED
      BY <1>1, <2>2, <3>1 DEF SourcesInv, CheckTypes
  <2> QED
    BY <2>1, <2>2
<1>5. CASE UNCHANGED checkVars
  BY <1>1, <1>5 DEF checkVars
<1> QED
  BY <1>2, <1>3, <1>4, <1>5 DEF Next, Fetch, Match, Time, vars, checkVars

\* What could not be had is said, and nothing is said to be missing that is there: the
\* databases that brought nothing and failed are named and no others, abstracts are admitted
\* where there were links and only there, and a check without sources says something.
THEOREM MissingIsSaid == Spec => []SaysWhatIsMissing
<1>1. Init => Said
  BY DEF Init, Said
<1>2. NamesInv /\ Said => SaysWhatIsMissing
  BY DEF NamesInv, Names, Said, Says, AbstractLeft, SaysWhatIsMissing
<1> QED
  BY <1>1, <1>2, SaysStep, NamesAlways, SourcesAlways, PTL DEF Spec

-----------------------------------------------------------------------------
(* The encoder among the checks                                              *)

LEMMA EncodesInTurn == SourcesInv /\ MergeInv /\ [Next]_vars => [EncoderNext]_encoderVars
<1> SUFFICES ASSUME SourcesInv, MergeInv, [Next]_vars PROVE [EncoderNext]_encoderVars
  OBVIOUS
<1>1. ASSUME NEW c \in Checks, Retrieved(c) PROVE [EncoderNext]_encoderVars
  BY <1>1, RetrievedIs
<1>2. ASSUME NEW c \in Clients, Match(c) PROVE [EncoderNext]_encoderVars
  BY <1>2 DEF Match, EncoderNext
<1>3. CASE UNCHANGED encoderVars
  BY <1>3
<1> QED
  BY <1>1, <1>2, <1>3 DEF Next, Search, TooShort, Fetch, Time, vars, encoderVars

\* The checks use the encoder as its specification allows.
THEOREM ChecksUseTheEncoder == Spec => EncoderSpec
<1>1. Init => EncoderInit
  BY DEF Init
<1> QED
  BY <1>1, EncodesInTurn, SourcesAlways, PTL DEF Spec, EncoderSpec, EncoderNext

\* So the rows of the checks are their own,
THEOREM ChecksHaveTheirRows == Spec => []RowsAreOwn
  BY ChecksUseTheEncoder, RowsBelongToTheCheck, PTL

\* and no check waits for a load that nobody is at.
THEOREM ChecksWaitForALoad == Spec => []WaitsOnlyForALoad
  BY ChecksUseTheEncoder, NobodyWaitsInVain, PTL
=============================================================================

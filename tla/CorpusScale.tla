---------------------------- MODULE CorpusScale ----------------------------
(***************************************************************************)
(* backend/eval/corpus_scale.py: how the operating point moves when each   *)
(* sentence is compared with a whole corpus.  A pair is [a, b, label,      *)
(* stratum], a similarity a number of hundredths; the order a seeded       *)
(* shuffle gives is the caller's.                                          *)
(***************************************************************************)
EXTENDS Integers, Sequences, FiniteSets, FiniteSetsExt, SequencesExt, Functions, TLC, Lists

CONSTANT Cosine(_, _, _)  \* of a model and two texts

Texts(pairs) == FlattenSeq([i \in DOMAIN pairs |-> <<pairs[i].a, pairs[i].b>>])

-----------------------------------------------------------------------------
(* build_probe_with_truth() *)

PositivePairs(positives, n) == SubSeq(positives, 1, Min({n, Len(positives)}))

NegativeQueries_KeepsPartners(pool, used, n) ==
  LET after[i \in 0 .. Len(pool)] ==
        IF i = 0 THEN [queries |-> <<>>, excluded |-> {}]
        ELSE LET acc == after[i - 1]  q == pool[i].a
             IN  IF Len(acc.queries) >= n \/ q \in used \cup acc.excluded THEN acc
                 ELSE [queries |-> Append(acc.queries, q), excluded |-> acc.excluded \cup {q}]
  IN  after[Len(pool)]

\* The `a` sides no positive probe uses, each with the texts it keeps out of the corpus.
NegativeQueries(pool, used, n) ==
  LET after[i \in 0 .. Len(pool)] ==
        IF i = 0 THEN [queries |-> <<>>, excluded |-> {}]
        ELSE LET acc == after[i - 1]  q == pool[i].a
             IN  IF Len(acc.queries) >= n \/ q \in used \cup acc.excluded THEN acc
                 ELSE [queries |-> Append(acc.queries, q), excluded |-> acc.excluded \cup {q, pool[i].b}]
  IN  after[Len(pool)]

\* Every other text once, in the order it comes.
Distractors(texts, out, n) ==
  LET after[i \in 0 .. Len(texts)] ==
        IF i = 0 THEN <<>>
        ELSE LET acc == after[i - 1]
             IN  IF Len(acc) >= n \/ texts[i] \in out \cup Range(acc) THEN acc ELSE Append(acc, texts[i])
  IN  after[Len(texts)]

BuildProbe(pairs, positives, extra, n, most, poolOnly) ==
  LET chosen == PositivePairs(positives, n)
      asked == [i \in DOMAIN chosen |-> chosen[i].a]
      truths == [i \in DOMAIN chosen |-> chosen[i].b]
      negative == NegativeQueries(pairs, Range(asked) \cup Range(truths), n)
  IN  [negative |-> negative.queries, positive |-> asked, truth |-> truths,
       distractors |-> Distractors(Texts(IF poolOnly THEN extra ELSE pairs \o extra),
                                   Range(asked) \cup Range(truths) \cup negative.excluded, most)]

-----------------------------------------------------------------------------
(* measure() *)

\* The best score of a sentence against a corpus.
Top(model, q, corpus) == Max({Cosine(model, q, corpus[i]) : i \in DOMAIN corpus})

\* A corpus sentence's best score against any sentence of the manuscript.
Peak(model, probe, d) ==
  Max({Cosine(model, q, d) : q \in Range(probe.negative) \cup Range(probe.positive)})

WithoutNearDuplicates(model, probe, dropAbove) ==
  IF dropAbove = 0 THEN probe.distractors
  ELSE Those(probe.distractors, {d \in Range(probe.distractors) : Peak(model, probe, d) < dropAbove})

\* As a retriever would return them: best first, equals as they came.
RetrievalOrder(model, probe, texts) ==
  LET peak     == [i \in DOMAIN texts |-> Peak(model, probe, texts[i])]
      ahead(i) == {j \in DOMAIN texts : peak[j] > peak[i] \/ (peak[j] = peak[i] /\ j < i)}
  IN  [n \in DOMAIN texts |-> texts[CHOOSE i \in DOMAIN texts : Cardinality(ahead(i)) = n - 1]]

Total(s) == LET upTo[i \in 0 .. Len(s)] == IF i = 0 THEN 0 ELSE upTo[i - 1] + s[i] IN upTo[Len(s)]

ScaleResult_WithoutTruth(model, probe, corpus, size, t) ==
  LET n == Min({size, Len(corpus)})
      slice == SubSeq(corpus, 1, n)
      tops == [i \in DOMAIN probe.negative |-> Top(model, probe.negative[i], slice)]
      hits == [i \in DOMAIN probe.positive |-> Top(model, probe.positive[i], slice)]
  IN  [size |-> n, threshold |-> t,
       fp |-> Quantify(DOMAIN tops, LAMBDA i : tops[i] >= t),
       tp |-> Quantify(DOMAIN hits, LAMBDA i : hits[i] >= t),
       top |-> Total(tops)]

\* One row for a corpus size and a threshold; the true paraphrase is always in the corpus.
ScaleResult(model, probe, corpus, size, t) ==
  LET n == Min({size, Len(corpus)})
      slice == SubSeq(corpus, 1, n)
      tops == [i \in DOMAIN probe.negative |-> Top(model, probe.negative[i], slice)]
      hits == [i \in DOMAIN probe.positive |-> Top(model, probe.positive[i], Append(slice, probe.truth[i]))]
  IN  [size |-> n, threshold |-> t,
       fp |-> Quantify(DOMAIN tops, LAMBDA i : tops[i] >= t),
       tp |-> Quantify(DOMAIN hits, LAMBDA i : hits[i] >= t),
       top |-> Total(tops)]

\* What cannot be measured is a ValueError.
Measurable(model, probe, dropAbove) ==
  /\ probe.negative # <<>> /\ probe.distractors # <<>>
  /\ WithoutNearDuplicates(model, probe, dropAbove) # <<>>

\* The sizes are those asked for; a row has the size that the corpus allowed.
ScaleReport(model, probe, sizes, thresholds, mode, dropAbove) ==
  LET kept == WithoutNearDuplicates(model, probe, dropAbove)
      corpus == IF mode = "retrieved" THEN RetrievalOrder(model, probe, kept) ELSE kept
  IN  [probe |-> probe, corpus |-> corpus, sizes |-> sizes, thresholds |-> thresholds,
       dropped |-> Len(probe.distractors) - Len(kept),
       results |-> {ScaleResult(model, probe, corpus, n, t) : n \in sizes, t \in thresholds}]

\* `retrieved` wants every sentence it can get, `random` the largest corpus only.
PoolBudget(sizes, mode, texts) ==
  IF mode = "random" THEN Max(sizes) ELSE Max(sizes \cup {Len(texts)})

-----------------------------------------------------------------------------
(* What the report is asked *)

\* at(): the row of a size and a threshold, if there is one.
At(report, n, t) == {r \in report.results : r.size = n /\ r.threshold = t}

\* The lowest swept threshold within a number of false positives; 0 for none.
ThresholdForFpr(report, n, budget) ==
  LET within == {r.threshold : r \in {x \in report.results : x.size = n /\ x.fp <= budget}}
  IN  IF within = {} THEN 0 ELSE Min(within)

\* What is printed under each size that was asked for: its rows, and by false positives
\* allowed the lowest threshold.
Printed(report) ==
  [n \in report.sizes |-> [at |-> [t \in report.thresholds |-> At(report, n, t)],
                           lowest |-> [b \in 0 .. 1 |-> ThresholdForFpr(report, n, b)]]]

\* The k queries that score highest against the largest corpus, each with the sentence it
\* scored against.
NearMisses(model, report, k) ==
  LET corpus == SubSeq(report.corpus, 1, Min({Max(report.sizes), Len(report.corpus)}))
      top(q) == Top(model, q, corpus)
      order == SortSeq(report.probe.negative, LAMBDA p, q : top(p) > top(q))
      nearest(q) == corpus[Min({i \in DOMAIN corpus : Cosine(model, q, corpus[i]) = top(q)})]
  IN  [i \in 1 .. Min({k, Len(order)}) |-> [query |-> order[i], corpus_sentence |-> nearest(order[i])]]

\* How far the mean top score has moved from that of the smallest corpus, times the queries.
InflationTable(report) ==
  LET top(n) == (CHOOSE r \in report.results : r.size = n).top
      sizes == {r.size : r \in report.results}
  IN  [n \in sizes |-> top(n) - top(Min(sizes))]
=============================================================================

------------------------------ MODULE Metrics ------------------------------
(***************************************************************************)
(* backend/eval/metrics.py: what a run of the benchmark says of a list of  *)
(* scored pairs.  A row is [score, label, stratum], a score a number of    *)
(* hundredths, a rate one of ten-thousandths.                              *)
(***************************************************************************)
EXTENDS Integers, Sequences, FiniteSetsExt, SequencesExt, TLC

CONSTANT Grid  \* the thresholds a sweep tries

\* _rate(), rounded to four places as every metric is.
Rate(n, d) == IF d = 0 THEN 0 ELSE (20000 * n + d) \div (2 * d)

Rows(rows, Test(_)) == Quantify(DOMAIN rows, LAMBDA i : Test(rows[i]))

Confusion(rows, t) ==
  [tp |-> Rows(rows, LAMBDA r : r.label = 1 /\ r.score >= t),
   fn |-> Rows(rows, LAMBDA r : r.label = 1 /\ r.score < t),
   fp |-> Rows(rows, LAMBDA r : r.label = 0 /\ r.score >= t),
   tn |-> Rows(rows, LAMBDA r : r.label = 0 /\ r.score < t)]

\* The harmonic mean of precision and recall is 2tp / (2tp + fp + fn).
BinaryMetrics(rows, t) ==
  LET c == Confusion(rows, t)
  IN  [threshold |-> t, tp |-> c.tp, fp |-> c.fp,
       precision |-> Rate(c.tp, c.tp + c.fp), recall |-> Rate(c.tp, c.tp + c.fn),
       f1 |-> Rate(2 * c.tp, 2 * c.tp + c.fp + c.fn), fpr |-> Rate(c.fp, c.fp + c.tn)]

FprByStratum(rows, t) ==
  LET of(s) == SelectSeq(rows, LAMBDA r : r.label = 0 /\ r.stratum = s)
  IN  [s \in {rows[i].stratum : i \in {j \in DOMAIN rows : rows[j].label = 0}} |->
         BinaryMetrics(of(s), t).fpr]

Sweep(rows) == {BinaryMetrics(rows, t) : t \in Grid}

\* The key best_threshold() maximises: the objective, then fewer flags, then the higher cutoff.
Beats(m, n, objective) ==
  \/ m[objective] > n[objective]
  \/ (m[objective] = n[objective] /\ m.fpr < n.fpr)
  \/ (m[objective] = n[objective] /\ m.fpr = n.fpr /\ m.threshold >= n.threshold)

\* Where nothing is within the cap, the cap is ignored.
BestThreshold(rows, objective, cap) ==
  LET sweep == Sweep(rows)
      eligible == {m \in sweep : m.fpr <= cap}
      pool == IF eligible = {} THEN sweep ELSE eligible
  IN  CHOOSE m \in pool : \A n \in pool : Beats(m, n, objective)

\* The place percentiles() takes in a sorted list: round(p n / 100 + 1/2), where a half
\* goes to the even neighbour.  Where p n / 100 is whole and odd that is one above the
\* nearest rank.
PercentileIndex(n, p) ==
  LET whole == (p * n) \div 100
      rank == IF (p * n) % 100 = 0 /\ whole % 2 = 0 THEN whole ELSE whole + 1
  IN  Min({n, Max({1, rank})})

Percentile(values, p) ==
  IF values = <<>> THEN 0
  ELSE SortSeq(values, LAMBDA x, y : x < y)[PercentileIndex(Len(values), p)]

Separation(rows) ==
  LET of(y) == SelectSeq(rows, LAMBDA r : r.label = y)
      scores(y) == [i \in DOMAIN of(y) |-> of(y)[i].score]
      mean(s) == IF s = <<>> THEN 0 ELSE FoldSeq(LAMBDA x, acc : x + acc, 0, s) \div Len(s)
  IN  [median |-> [y \in {0, 1} |-> Percentile(scores(y), 50)], gap |-> mean(scores(1)) - mean(scores(0))]

\* Of a score in hundredths: in ten-thousandths, rounded down.
Brier(rows) ==
  LET off(r) == 100 * r.label - r.score
  IN  IF rows = <<>> THEN 0 ELSE FoldSeq(LAMBDA r, acc : off(r) * off(r) + acc, 0, rows) \div Len(rows)
=============================================================================

----------------------------- MODULE Evaluation -----------------------------
(***************************************************************************)
(* The benchmark a developer runs from backend/eval and backend/training,  *)
(* one command after another over the datasets on disk: fetch_datasets.py, *)
(* run_pairs.py with its gates, run_corpus.py, and the verdict of          *)
(* finetune_cross_encoder.py.  The models and the published sets are       *)
(* constants; a seeded shuffle is an order that the command brings.        *)
(***************************************************************************)
EXTENDS Metrics, CorpusScale

CONSTANTS
  Commands,            \* what the developer may type
  MaxCommands,         \* bound: how many of them in a session
  Hub,                 \* the published sets by name: [a, b, grade], a grade 0 .. 50
  Graded,              \* those whose label is a grade (stsb)
  Bundled,             \* the committed sample, as rows
  Rules,               \* gates.json: by name, [min_recall, max_fpr]
  Threshold, Confident, \* the matcher's 0.66 and the confident 0.78
  MaxFpr,              \* MAX_FPR
  Absent, Torn         \* a set not fetched; a file with a line that does not parse

Datasets == DOMAIN Hub \cup {"sample"}
TextsOf(rows) == UNION {{rows[i].a, rows[i].b} : i \in DOMAIN rows}
Sentences == TextsOf(Bundled) \cup UNION {TextsOf(Hub[n]) : n \in DOMAIN Hub}

\* best_threshold() tries 0.00 .. 1.00, the two cutoffs among them.
ASSUME SetsAssumption ==
  /\ Grid \subseteq Int /\ IsFiniteSet(Grid) /\ {Threshold, Confident} \subseteq Grid
  /\ IsFiniteSet(DOMAIN Hub) /\ "sample" \notin DOMAIN Hub
  /\ IsList(Bundled) /\ \A n \in DOMAIN Hub : IsList(Hub[n])

\* The most rows a set has, and the most a command can shuffle: those of its pool, or of one set.
Longest == Max({Len(Bundled)} \cup {Len(Hub[n]) : n \in DOMAIN Hub})
MostRows(c) == (Len(c.pool) + 1) * Longest

\* A shuffle only moves what it is given.
OnlyMoves(c) ==
  \A order \in {c.seed.pairs, c.seed.positives, c.seed.extra} :
    \A n \in 0 .. MostRows(c) : order[n] \in [1 .. n -> 1 .. n]

\* A tuned model is evaluated on 3000 rows of a set (finetune_cross_encoder.py:178).
ASSUME CommandsAssumption ==
  \A c \in Commands :
    /\ IsList(c.datasets)
    /\ c.kind = "fetch" => c.limit \in Nat
    /\ c.kind = "tune" => c.limit \in Nat \ {0} /\ c.limit <= 10000
    /\ c.kind = "corpus" =>
         /\ IsList(c.modes) /\ IsList(c.pool) /\ c.queries \in Nat /\ c.drop_above \in Int
         /\ c.sizes \subseteq Nat \ {0} /\ c.thresholds \subseteq Nat \ {0}
         /\ OnlyMoves(c)

ASSUME ModelsAssumption ==
  \A c \in Commands : \A a, b \in Sentences :
    /\ c.kind \in {"pairs", "corpus"} => Cosine(c.model, a, b) \in Int
    /\ c.kind = "tune" => Cosine(c.base, a, b) \in Int /\ Cosine(c.tuned, a, b) \in Int

VARIABLES
  disk,     \* eval/data: of each set, its rows
  command,  \* the one that runs
  todo,     \* its datasets still to come
  reports,  \* what it has reported
  failed,   \* any_fail
  exit,     \* its exit code
  left      \* bound: commands still to be typed

benchVars == <<disk, command, todo, reports, failed, exit, left>>

BenchInit ==
  /\ disk = [n \in Datasets |-> IF n = "sample" THEN Bundled ELSE Absent]
  /\ command = [kind |-> "none"] /\ todo = <<>> /\ reports = <<>>
  /\ failed = FALSE /\ exit = "ended" /\ left = MaxCommands

Running(kind) == exit = "running" /\ command.kind = kind
Ends(code) == exit' = code /\ UNCHANGED <<disk, command, todo, reports, failed, left>>
Passes == todo' = Tail(todo) /\ UNCHANGED <<disk, command, reports, failed, exit, left>>
Reports(r) ==
  /\ reports' = Append(reports, r) /\ todo' = Tail(todo)
  /\ UNCHANGED <<disk, command, failed, exit, left>>

StepsOf(c) ==
  IF c.kind # "corpus" THEN c.datasets
  ELSE FlattenSeq([i \in DOMAIN c.datasets |-> [j \in DOMAIN c.modes |-> <<c.datasets[i], c.modes[j]>>]])

Start(c) ==
  /\ exit # "running" /\ left > 0
  /\ command' = c /\ todo' = StepsOf(c) /\ reports' = <<>> /\ failed' = FALSE
  /\ exit' = "running" /\ left' = left - 1
  /\ UNCHANGED disk

Fetched(n) == n \in Datasets /\ disk[n] # Absent

-----------------------------------------------------------------------------
(* fetch_datasets.py *)

\* _adapt(): the middle of a graded set is dropped, after the limit has counted it.
Adapted(n, limit) ==
  LET rows == IF limit = 0 THEN Hub[n] ELSE SubSeq(Hub[n], 1, Min({limit, Len(Hub[n])}))
      clear == Those(rows, {r \in Range(rows) : r.grade >= 40 \/ r.grade <= 30})
      label(r) == IF r.grade >= 40 THEN 1 ELSE 0
  IN  [i \in DOMAIN clear |->
         [a |-> clear[i].a, b |-> clear[i].b, label |-> label(clear[i]),
          stratum |-> IF n \in Graded THEN "graded"
                      ELSE IF label(clear[i]) = 1 THEN "paraphrase" ELSE "non_paraphrase"]]

FetchUnknown ==
  /\ Running("fetch") /\ todo # <<>> /\ Head(todo) \notin DOMAIN Hub
  /\ Passes

Fetch ==
  /\ Running("fetch") /\ todo # <<>> /\ Head(todo) \in DOMAIN Hub
  /\ disk' = [disk EXCEPT ![Head(todo)] = Adapted(Head(todo), command.limit)]
  /\ todo' = Tail(todo)
  /\ UNCHANGED <<command, reports, failed, exit, left>>

\* Stopped while _write() writes in place: some of the rows are left, or a line of them cut.
FetchInterrupted ==
  /\ Running("fetch") /\ todo # <<>> /\ Head(todo) \in DOMAIN Hub
  /\ LET rows == Adapted(Head(todo), command.limit)
     IN  \E part \in {SubSeq(rows, 1, i) : i \in 0 .. Len(rows)} \cup {Torn} :
           disk' = [disk EXCEPT ![Head(todo)] = part]
  /\ exit' = "crashed"
  /\ UNCHANGED <<command, todo, reports, failed, left>>

FetchEnd == Running("fetch") /\ todo = <<>> /\ Ends("ok")

-----------------------------------------------------------------------------
(* run_pairs.py *)

Scored(model, rows) ==
  [i \in DOMAIN rows |-> [score |-> Cosine(model, rows[i].a, rows[i].b),
                          label |-> rows[i].label, stratum |-> rows[i].stratum]]

\* evaluate_gate(): at the confident cutoff; a set without a rule is only reported.
EvaluateGate(n, rows) ==
  LET at == BinaryMetrics(rows, Confident)
  IN  [at |-> at, passed |-> n \in DOMAIN Rules =>
         (at.recall >= Rules[n].min_recall /\ at.fpr <= Rules[n].max_fpr)]

PairsReport(n) ==
  LET rows == Scored(command.model, disk[n])
      gate == EvaluateGate(n, rows)
  IN  [name |-> n, at |-> BinaryMetrics(rows, Threshold),
       best_f1 |-> BestThreshold(rows, "f1", 10000),
       best_recall |-> BestThreshold(rows, "recall", MaxFpr),
       strata |-> FprByStratum(rows, Threshold), separation |-> Separation(rows),
       brier |-> Brier(rows), gate |-> gate.at, gates_pass |-> gate.passed]

PairsSkip == Running("pairs") /\ todo # <<>> /\ ~Fetched(Head(todo)) /\ Passes

PairsRun_LastDecides ==
  /\ Running("pairs") /\ todo # <<>> /\ Fetched(Head(todo)) /\ disk[Head(todo)] # Torn
  /\ LET r == PairsReport(Head(todo))
     IN  /\ reports' = Append(reports, r)
         /\ failed' = (command.gate /\ ~r.gates_pass)
  /\ todo' = Tail(todo)
  /\ UNCHANGED <<disk, command, exit, left>>

PairsRun ==
  /\ Running("pairs") /\ todo # <<>> /\ Fetched(Head(todo)) /\ disk[Head(todo)] # Torn
  /\ LET r == PairsReport(Head(todo))
     IN  /\ reports' = Append(reports, r)
         /\ failed' = (failed \/ (command.gate /\ ~r.gates_pass))
  /\ todo' = Tail(todo)
  /\ UNCHANGED <<disk, command, exit, left>>

\* load_jsonl() raises ValueError, which nothing here catches.
PairsCrash ==
  /\ Running("pairs") /\ todo # <<>> /\ Fetched(Head(todo)) /\ disk[Head(todo)] = Torn
  /\ Ends("crashed")

\* Nothing ran: the committed sample is run instead, without its gate.
PairsFallback ==
  /\ Running("pairs") /\ todo = <<>> /\ reports = <<>> /\ ~Contains(command.datasets, "sample")
  /\ reports' = <<PairsReport("sample")>>
  /\ UNCHANGED <<disk, command, todo, failed, exit, left>>

PairsEnd ==
  /\ Running("pairs") /\ todo = <<>> /\ reports # <<>>
  /\ Ends(IF failed THEN "failed" ELSE "ok")

-----------------------------------------------------------------------------
(* run_corpus.py *)

\* _pool_pairs(): the other sets that are known and fetched.
PoolNames == Those(command.pool, {n \in Range(command.pool) : Fetched(n) /\ n # Head(todo)[1]})
PoolPairs == FlattenSeq([i \in DOMAIN PoolNames |-> disk[PoolNames[i]]])

Shuffled(s, order) == [i \in DOMAIN s |-> s[order[Len(s)][i]]]

Probe(mode) ==
  LET rows == disk[Head(todo)[1]]
      extra == IF mode = "retrieved" \/ command.pool_only THEN PoolPairs ELSE <<>>
      most == PoolBudget(command.sizes, mode, Texts(rows \o extra))
  IN  BuildProbe(Shuffled(rows, command.seed.pairs),
                 Shuffled(Those(rows, {p \in Range(rows) : p.label = 1}), command.seed.positives),
                 Shuffled(extra, command.seed.extra), command.queries, most, command.pool_only)

\* The datasets load, and there is enough to measure: what fails is caught as ValueError.
CanMeasure(mode) ==
  LET wanted == mode = "retrieved" \/ command.pool_only
  IN  /\ command.sizes # {} /\ Fetched(Head(todo)[1]) /\ disk[Head(todo)[1]] # Torn
      /\ wanted => \A n \in Range(PoolNames) : disk[n] # Torn
      /\ command.pool_only => PoolPairs # <<>>
      /\ Measurable(command.model, Probe(mode), command.drop_above)

CorpusReport(mode) ==
  LET report == ScaleReport(command.model, Probe(mode), command.sizes, command.thresholds, mode, command.drop_above)
  IN  [name |-> Head(todo)[1], extra |-> IF mode = "retrieved" \/ command.pool_only THEN PoolPairs ELSE <<>>,
       report |-> report, inflation |-> InflationTable(report), printed |-> Printed(report),
       near_misses |-> NearMisses(command.model, report, command.examples)]

CorpusRun ==
  /\ Running("corpus") /\ todo # <<>> /\ CanMeasure(Head(todo)[2])
  /\ Reports(CorpusReport(Head(todo)[2]))

CorpusSkip ==
  /\ Running("corpus") /\ todo # <<>> /\ ~CanMeasure(Head(todo)[2])
  /\ Passes

CorpusEnd == Running("corpus") /\ todo = <<>> /\ Ends("ok")

-----------------------------------------------------------------------------
(* finetune_cross_encoder.py: its load_pairs() mirrors _adapt() *)

Evaluated(model, rows) ==
  LET scored == Scored(model, rows)
  IN  [at |-> BinaryMetrics(scored, Threshold), at_conf |-> BinaryMetrics(scored, Confident),
       best_f1 |-> BestThreshold(scored, "f1", 10000), brier |-> Brier(scored)]

\* gate(): a real gain, and neither false positives nor calibration worse.
Gate(before, after) ==
  /\ after.at.fpr <= before.at.fpr
  /\ after.best_f1.f1 >= before.best_f1.f1 + 100
  /\ after.brier <= before.brier

TuneUnknown ==
  /\ Running("tune") /\ ~(Range(command.datasets) \subseteq DOMAIN Hub)
  /\ Ends("crashed")

Tune ==
  /\ Running("tune") /\ todo # <<>> /\ Range(command.datasets) \subseteq DOMAIN Hub
  /\ LET rows == Adapted(Head(todo), command.limit)
         before == Evaluated(command.base, rows)
         after == Evaluated(command.tuned, rows)
     IN  Reports([name |-> Head(todo), before |-> before, after |-> after, verdict |-> Gate(before, after)])

TuneEnd ==
  /\ Running("tune") /\ todo = <<>>
  /\ Ends(IF \A i \in DOMAIN reports : reports[i].verdict THEN "ok" ELSE "failed")

-----------------------------------------------------------------------------
BenchNext ==
  \/ \E c \in Commands : Start(c)
  \/ FetchUnknown \/ Fetch \/ FetchInterrupted \/ FetchEnd
  \/ PairsSkip \/ PairsRun \/ PairsCrash \/ PairsFallback \/ PairsEnd
  \/ CorpusRun \/ CorpusSkip \/ CorpusEnd
  \/ TuneUnknown \/ Tune \/ TuneEnd

BenchSpec == BenchInit /\ [][BenchNext]_benchVars

-----------------------------------------------------------------------------
(* Properties *)

Measured == IF command.kind = "corpus" THEN Range(reports) ELSE {}

\* How far a flag is a false positive by construction (corpus_scale.py:157-159, 177-188,
\* 271-291): no query and no truth drawn with one is a distractor; the partner that a negative
\* query was drawn with is not one either, whatever other pairs and pools hold it; a corpus of
\* the pools alone has their texts only; and where near duplicates are dropped, nothing is
\* flagged at that score or above.  Another labelled paraphrase of a query, positive or
\* negative, may be a distractor: the docstring (133) and the comment at 178-179 say that
\* none is, the comment at 271-274 that some are.
CorpusIsClean ==
  \A r \in Measured :
    LET probe == r.report.probe
        distractors == Range(probe.distractors)
        rows == disk[r.name]
    IN  /\ distractors \cap (Range(probe.negative) \cup Range(probe.positive) \cup Range(probe.truth)) = {}
        /\ \A q \in Range(probe.negative) : \E i \in DOMAIN rows : rows[i].a = q /\ rows[i].b \notin distractors
        /\ command.pool_only => distractors \subseteq TextsOf(r.extra)
        /\ command.drop_above # 0 =>
             \A x \in r.report.results : x.threshold >= command.drop_above => x.fp = 0

\* Curves that can be read: a larger corpus of one ranking never flags less, a higher threshold
\* never more, a positive query finds at least its own paraphrase; of the sizes asked for, one
\* that the pool does not reach is left blank instead of showing a smaller corpus under its
\* name, the others have every row, and the threshold that keeps a budget does not fall from
\* one to a larger one; and where the whole pool of a set is the corpus, how it was ordered
\* does not matter (run_corpus.py:92-118).
CurvesAgree ==
  /\ \A r \in Measured : LET report == r.report IN
       /\ \A x, y \in report.results :
            /\ (x.threshold = y.threshold /\ x.size <= y.size)
                 => (x.fp <= y.fp /\ x.tp <= y.tp /\ x.top <= y.top)
            /\ (x.size = y.size /\ x.threshold <= y.threshold) => (x.fp >= y.fp /\ x.tp >= y.tp)
       /\ \A x \in report.results :
            x.tp >= Cardinality({i \in DOMAIN report.probe.positive :
              Cosine(command.model, report.probe.positive[i], report.probe.truth[i]) >= x.threshold})
       /\ \A n \in command.sizes : \A t \in command.thresholds :
            r.printed[n].at[t] = {} <=> n > Len(report.corpus)
       /\ \A n, k \in command.sizes : \A b \in 0 .. 1 :
            (n <= k /\ r.printed[k].lowest[b] # 0) => r.printed[n].lowest[b] \in 1 .. r.printed[k].lowest[b]
  /\ \A r, s \in Measured :
       r.name = s.name /\ Range(r.report.corpus) = Range(s.report.corpus) =>
         \A x \in r.report.results : \A y \in s.report.results :
           (x.size = Len(r.report.corpus) /\ y.size = x.size /\ y.threshold = x.threshold) => x = y

\* The exit code of a gated run tells whether every fetched set that was asked for met its rule
\* at the confident cutoff, whatever failed before or after it (run_pairs.py:10, 172-190).
GateIsHonest ==
  (command.kind = "pairs" /\ exit \in {"ok", "failed"}) =>
    (exit = "ok" <=> (command.gate => \A n \in Range(command.datasets) \cap DOMAIN Rules :
       Fetched(n) => LET m == BinaryMetrics(Scored(command.model, disk[n]), Confident)
                     IN  m.recall >= Rules[n].min_recall /\ m.fpr <= Rules[n].max_fpr))

\* The sweep never does worse than the operating points reported beside it, so a set that
\* keeps the cap at one of them is not told that its best recall breaks it.
SweepIsNotWorse ==
  command.kind = "pairs" =>
    \A i \in DOMAIN reports : LET r == reports[i] IN \A m \in {r.at, r.gate} :
      /\ r.best_f1.f1 >= m.f1
      /\ m.fpr <= MaxFpr => (r.best_recall.fpr <= MaxFpr /\ r.best_recall.recall >= m.recall)

\* A tuned model that passes has earned it against the model it was started from, on every set
\* (training/README.md:53-58): at its own best F1 it finds more pairs or flags fewer others than
\* that model did at its best, and at the matcher's threshold it flags no more.  The best
\* pretrained result of the set, which finetune_cross_encoder.py:45-46 says it must beat, is not
\* compared with: gate() (122-138) does not read BASELINES.
ShippedIsBetter ==
  (command.kind = "tune" /\ exit = "ok") =>
    \A n \in Range(command.datasets) :
      LET before == Evaluated(command.base, Adapted(n, command.limit))
          after == Evaluated(command.tuned, Adapted(n, command.limit))
      IN  /\ after.best_f1.tp > before.best_f1.tp \/ after.best_f1.fp < before.best_f1.fp
          /\ after.at.fp <= before.at.fp

\* What the two programs that end in a verdict say is borne out by the data they were given, a
\* tuned model being judged against the one it was started from.
VerdictsAreEarned == GateIsHonest /\ SweepIsNotWorse /\ ShippedIsBetter
=============================================================================

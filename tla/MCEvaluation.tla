---------------------------- MODULE MCEvaluation ----------------------------
(* Two published sets, one of them graded, whose sentences repeat, and the sample. *)
EXTENDS Evaluation

P(a, b, grade) == [a |-> a, b |-> b, grade |-> grade]
MCHub ==
  [qqp  |-> <<P("x1", "x2", 50), P("x1", "x3", 50), P("x4", "x2", 0), P("y1", "y2", 50)>>,
   stsb |-> <<P("z1", "z2", 50), P("z3", "z4", 35), P("z3", "x2", 10), P("z5", "z1", 30)>>]
MCBundled ==
  <<[a |-> "s1", b |-> "s2", label |-> 1, stratum |-> "paraphrase"],
    [a |-> "s3", b |-> "s4", label |-> 0, stratum |-> "high_overlap_negative"]>>

\* What the models make of two texts: `base` goes by topic, `tuned` knows the pairs, `mixed`
\* all but those of one topic, `worse` none; `flat` is saturated.
Topic(t) == CASE t \in {"x1", "x2", "x3", "x4"} -> 1 [] t \in {"y1", "y2", "z3", "z4"} -> 2
              [] t \in {"z1", "z2", "z5"} -> 3 [] OTHER -> 4
True == {{"x1", "x2"}, {"x1", "x3"}, {"y1", "y2"}, {"z1", "z2"}}
Number(t) == CHOOSE i \in 1 .. 15 :
  t = <<"x1", "x2", "x3", "x4", "y1", "y2", "z1", "z2", "z3", "z4", "z5", "s1", "s2", "s3", "s4">>[i]
MCCosine(model, a, b) ==
  IF a = b THEN 100
  ELSE LET noise == (7 * (Number(a) + Number(b))) % 23
           near == IF Topic(a) = Topic(b) THEN 60 ELSE 30
           known == {a, b} \in True
       IN  CASE model = "base"  -> near + noise
             [] model = "tuned" -> IF known THEN 90 ELSE near + noise - 10
             [] model = "worse" -> IF known THEN 40 ELSE near + noise
             [] model = "mixed" -> IF ~known THEN near + noise ELSE IF Topic(a) # 3 THEN 90 ELSE 40
             [] model = "flat"  -> 100

Order(f) == [n \in 0 .. 16 |-> [i \in 1 .. n |-> CASE f = "as is" -> i [] f = "reversed" -> n + 1 - i
                                                   [] f = "rotated" -> (i % n) + 1]]
Models == {"base", "tuned", "worse"}
MCCommands ==
  [kind : {"fetch"}, datasets : {<<"stsb", "none", "qqp">>}, limit : {0, 3}] \cup
  [kind : {"pairs"}, datasets : {<<"qqp", "none", "stsb">>, <<"stsb", "qqp", "sample">>},
   model : Models \cup {"flat"}, gate : BOOLEAN] \cup
  [kind : {"corpus"}, datasets : {<<"qqp">>, <<"stsb">>}, modes : {<<"random", "retrieved">>},
   pool : {<<"stsb", "qqp", "sample">>}, pool_only : BOOLEAN, drop_above : {0, 75}, queries : {1, 2},
   sizes : {{1, 2, 9}}, thresholds : {{50, 66, 78}}, examples : {1}, model : {"base", "tuned"},
   seed : [pairs : {Order("as is"), Order("rotated")}, positives : {Order("as is"), Order("reversed")},
           extra : {Order("reversed")}]] \cup
  [kind : {"tune"}, datasets : {<<"qqp", "stsb">>, <<"qqp", "none">>}, limit : {3000},
   base : {"base", "worse"}, tuned : Models \cup {"mixed"}]

MCRules == [qqp |-> [min_recall |-> 6600, max_fpr |-> 0], stsb |-> [min_recall |-> 5000, max_fpr |-> 0]]
=============================================================================

------------------------------ MODULE Pipeline ------------------------------
(***************************************************************************)
(* How a check comes to its band: the stages of backend/pipeline/stages.py *)
(* over services/plagiarism_matcher.py, services/triage.py and             *)
(* services/report.py, in checks that run on the pool's threads at once.   *)
(*                                                                         *)
(* A check has its own context; what the checks share is the one matcher   *)
(* of the process (app/factory.py) and in it _last_confident_cutoff, which *)
(* a check writes while it matches and reads when it has.  An action is    *)
(* the part of a check between two uses of that attribute, or a stage.     *)
(*                                                                         *)
(* A passage stands for a place in the manuscript with what the matcher    *)
(* and the rules see in it; texts, offsets and percentages are left out,   *)
(* scores are a few levels, and localization is part of `cited`.           *)
(***************************************************************************)
EXTENDS Integers, FiniteSets

CONSTANTS
  Checks,
  Inputs,      \* what a check may find: see InputType
  Scores,      \* the levels of similarity, as naturals
  Floor,       \* paraphrase_threshold
  Base,        \* confident_threshold, which the matcher raises to the floor
  Ceiling,     \* confidence_ceiling; the settings allow one below the base
  Rerank,      \* settings.rerank
  RerankFrom, RerankTo, MaxPairs,  \* lo, hi and max_pairs of RerankStage
  None

\* A passage: similarity to its best source sentence, `covered` by a verbatim match,
\* figures that conflict with the source's, and what triage sees around it.
PassageType ==
  [id : Nat, type : {"verbatim", "paraphrase", "translated"}, score : Scores,
   covered : BOOLEAN, figures : BOOLEAN, quoted : BOOLEAN, cited : BOOLEAN, common : BOOLEAN]

\* `words`: both sides have words; `sentences`: and sentences; `cutoff`: what
\* confident_threshold_for() makes of the number of source sentences.
InputType == [passages : SUBSET PassageType, words : BOOLEAN, sentences : BOOLEAN, cutoff : Scores]

\* The lowest cutoff there is: a small corpus is judged by the base, a larger one by a
\* cutoff clamped to the base from below, and then to the ceiling from above.
Lowest == IF Ceiling < Base THEN Ceiling ELSE Base

ASSUME PipelineAssumption ==
  /\ IsFiniteSet(Checks)
  /\ Scores \subseteq Nat \ {0} /\ Floor \in Scores /\ Base \in Scores /\ Floor <= Base
  /\ Ceiling \in Scores
  /\ \A i \in Inputs : i \in InputType /\ i.cutoff >= Lowest /\ IsFiniteSet(i.passages)
  /\ Rerank \in BOOLEAN /\ MaxPairs \in Nat
  /\ None \notin Scores /\ None \notin {"act", "look", "clear"}

VARIABLES
  last,      \* PlagiarismMatcher._last_confident_cutoff, shared
  input,     \* what each check is about
  pc,        \* the stage each check has reached
  matches,   \* artifacts["matches"]: each with its confidence and, if any, its rerank_score
  quoted,    \* artifacts["confident_threshold_used"]
  reviews,   \* overall.review_count
  summary,   \* artifacts["triage_summary"], None when triage failed
  band,      \* report.band
  beside     \* history: the checks that were matching while this one was

ownVars == <<input, matches, quoted, reviews, summary, band>>
vars == <<last, input, pc, matches, quoted, reviews, summary, band, beside>>

Confidence == {"confident", "review"}
Match == [passage : UNION {i.passages : i \in Inputs}, confidence : Confidence,
          rerank : Scores \cup {None}]

\* Inside matcher.check().
Matching == {c \in Checks : pc[c] \in {"measure", "compare", "return"}}

TypeOK ==
  /\ last \in Scores
  /\ input \in [Checks -> Inputs]
  /\ pc \in [Checks -> {"new", "match", "measure", "compare", "return",
                        "rerank", "triage", "report", "done", "failed"}]
  /\ \A c \in Checks : \A m \in matches[c] :
       m \in Match /\ m.passage \in input[c].passages
  /\ quoted \in [Checks -> Scores \cup {None}]
  /\ reviews \in [Checks -> Nat]
  /\ \A c \in Checks : summary[c] = None \/ summary[c] \in [act : Nat, look : Nat]
  /\ band \in [Checks -> {"act", "look", "clear", None}]
  /\ beside \in [Checks -> SUBSET Checks]

Init ==
  /\ last = Base
  /\ input \in [Checks -> Inputs]
  /\ pc = [c \in Checks |-> "new"]
  /\ matches = [c \in Checks |-> {}]
  /\ quoted = [c \in Checks |-> None]
  /\ reviews = [c \in Checks |-> 0]
  /\ summary = [c \in Checks |-> None]
  /\ band = [c \in Checks |-> None]
  /\ beside = [c \in Checks |-> {}]

Goto(c, l) == pc' = [pc EXCEPT ![c] = l]

-----------------------------------------------------------------------------
(* Parse and retrieve *)

\* The manuscript is read, and sources are: uploads that were not skipped, or what
\* the academic search brought.
Gather(c) ==
  /\ pc[c] = "new"
  /\ Goto(c, "match")
  /\ UNCHANGED <<last, ownVars, beside>>

\* PipelineError: no text, a limit exceeded, no source at all.
GiveUp(c) ==
  /\ pc[c] = "new"
  /\ Goto(c, "failed")
  /\ UNCHANGED <<last, ownVars, beside>>

-----------------------------------------------------------------------------
(* PlagiarismMatcher.check() *)

\* Who shares the matcher with whom.
Tell(c) ==
  beside' = [d \in Checks |->
               IF d = c THEN beside[c] \cup Matching
               ELSE IF d \in Matching THEN beside[d] \cup {c} ELSE beside[d]]

\* The attribute is reset; the verbatim search that follows uses nothing shared.
BeginMatch_NoReset(c) ==
  /\ pc[c] = "match" /\ input[c].words
  /\ Goto(c, "measure")
  /\ Tell(c)
  /\ UNCHANGED <<last, ownVars>>
BeginMatch(c) ==
  /\ pc[c] = "match" /\ input[c].words
  /\ last' = Base
  /\ Goto(c, "measure")
  /\ Tell(c)
  /\ UNCHANGED ownVars

\* The same, and there is nothing to match: _empty_report().
EmptyReport(c) ==
  /\ pc[c] = "match" /\ ~input[c].words
  /\ last' = Base
  /\ Goto(c, "rerank")
  /\ Tell(c)
  /\ UNCHANGED ownVars

Verbatims(c) ==
  {[passage |-> p, confidence |-> "confident", rerank |-> None] :
     p \in {q \in input[c].passages : q.type = "verbatim"}}

\* The numeric guard fires.
Conflicts(p, cutoff) == p.score >= cutoff /\ p.type # "translated" /\ p.figures

BandOf(p, cutoff) ==
  IF p.score >= cutoff /\ ~Conflicts(p, cutoff) THEN "confident" ELSE "review"

\* The best sentences at or above the floor that no verbatim match covers.
Semantic(c, cutoff) ==
  {[passage |-> p, confidence |-> BandOf(p, cutoff), rerank |-> None] :
     p \in {q \in input[c].passages : q.type # "verbatim" /\ q.score >= Floor /\ ~q.covered}}

\* The cutoff for this corpus is computed, kept for the comparison, and left in the
\* attribute for the report; without sentences there is no comparison.
Measure(c) ==
  /\ pc[c] = "measure"
  /\ IF input[c].sentences
     THEN last' = input[c].cutoff /\ Goto(c, "compare")
     ELSE UNCHANGED last /\ Goto(c, "return")
  /\ matches' = [matches EXCEPT ![c] = Verbatims(c)]
  /\ UNCHANGED <<input, quoted, reviews, summary, band, beside>>

\* Sentences are embedded and compared; without embeddings the check goes on.
Compare(c) ==
  /\ pc[c] = "compare"
  /\ \/ matches' = [matches EXCEPT ![c] = @ \cup Semantic(c, input[c].cutoff)]
     \/ UNCHANGED matches
  /\ Goto(c, "return")
  /\ UNCHANGED <<last, input, quoted, reviews, summary, band, beside>>

ReviewCount(ms) == Cardinality({m \in ms : m.confidence = "review"})

\* The aggregates, and the attribute is read for the report.
Return(c) ==
  /\ pc[c] = "return"
  /\ reviews' = [reviews EXCEPT ![c] = ReviewCount(matches[c])]
  /\ quoted' = [quoted EXCEPT ![c] = last]
  /\ Goto(c, "rerank")
  /\ UNCHANGED <<last, input, matches, summary, band, beside>>

-----------------------------------------------------------------------------
(* RerankStage *)

Borderline(c) ==
  {m \in matches[c] : m.passage.type # "verbatim"
                      /\ RerankFrom <= m.passage.score /\ m.passage.score <= RerankTo}

\* At most max_pairs of them, the most similar first.
Candidates(c) ==
  {S \in SUBSET Borderline(c) :
     /\ Cardinality(S) = IF Cardinality(Borderline(c)) <= MaxPairs
                         THEN Cardinality(Borderline(c)) ELSE MaxPairs
     /\ \A m \in S, n \in Borderline(c) \ S : n.passage.score <= m.passage.score}

\* `artifacts.get(...) or self.confident_threshold`
Cutoff_Floor(c) == Floor
Cutoff(c) == IF quoted[c] = None THEN Base ELSE quoted[c]

Rescored(m, s, cutoff) ==
  [m EXCEPT !.rerank = s, !.confidence = IF s >= cutoff THEN "confident" ELSE "review"]

Reranks(c) == Rerank /\ Borderline(c) # {}

\* The cross-encoder scores each pair, and confidence is decided again.
RerankStage_StaleCounts(c) ==
  /\ pc[c] = "rerank" /\ Reranks(c)
  /\ \E S \in Candidates(c) : \E s \in [S -> Scores] :
       matches' = [matches EXCEPT ![c] = (@ \ S) \cup {Rescored(m, s[m], Cutoff(c)) : m \in S}]
  /\ Goto(c, "triage")
  /\ UNCHANGED <<last, input, quoted, reviews, summary, band, beside>>
RerankStage(c) ==
  /\ pc[c] = "rerank" /\ Reranks(c)
  /\ \E S \in Candidates(c) : \E s \in [S -> Scores] :
       LET after == (matches[c] \ S) \cup {Rescored(m, s[m], Cutoff(c)) : m \in S}
       IN  /\ matches' = [matches EXCEPT ![c] = after]
           /\ reviews' = [reviews EXCEPT ![c] = ReviewCount(after)]
  /\ Goto(c, "triage")
  /\ UNCHANGED <<last, input, quoted, summary, band, beside>>

\* It is off, has nothing to do, or its model is not there.
SkipRerank(c) ==
  /\ pc[c] = "rerank"
  /\ Goto(c, "triage")
  /\ UNCHANGED <<last, ownVars, beside>>

-----------------------------------------------------------------------------
(* services/triage.py and services/report.py *)

Attributed(p) == p.quoted /\ p.cited

\* classify(): the priority of the rule that applies, 1 is the most urgent.
Priority(m) ==
  LET p == m.passage
      copied == p.type = "verbatim"
  IN  CASE copied /\ p.common                     -> 4
        [] ~copied /\ m.confidence = "review"     -> 3
        [] copied /\ ~p.common                    ->
             IF Attributed(p) THEN 5 ELSE IF p.quoted \/ p.cited THEN 2 ELSE 1
        [] ~copied /\ m.confidence = "confident"  ->
             IF Attributed(p) THEN 5 ELSE IF p.cited THEN 3 ELSE 1

CountOf(c, priorities) == Cardinality({m \in matches[c] : Priority(m) \in priorities})

\* Localize and triage; triage may fail, and the check goes on without it.
Triage(c) ==
  /\ pc[c] = "triage"
  /\ \/ summary' = [summary EXCEPT ![c] = [act |-> CountOf(c, {1, 2}), look |-> CountOf(c, {3})]]
     \/ UNCHANGED summary
  /\ Goto(c, "report")
  /\ UNCHANGED <<last, input, matches, quoted, reviews, band, beside>>

\* build_report()
Report(c) ==
  /\ pc[c] = "report"
  /\ LET ts == IF summary[c] = None THEN [act |-> 0, look |-> 0] ELSE summary[c]
     IN  band' = [band EXCEPT ![c] = IF ts.act > 0 THEN "act"
                                     ELSE IF ts.look > 0 \/ reviews[c] > 0 THEN "look"
                                     ELSE "clear"]
  /\ Goto(c, "done")
  /\ UNCHANGED <<last, input, matches, quoted, reviews, summary, beside>>

Step(c) ==
  \/ Gather(c) \/ GiveUp(c)
  \/ BeginMatch(c) \/ EmptyReport(c) \/ Measure(c) \/ Compare(c) \/ Return(c)
  \/ RerankStage(c) \/ SkipRerank(c) \/ Triage(c) \/ Report(c)

Next == \E c \in Checks : Step(c)

Spec == Init /\ [][Next]_vars

-----------------------------------------------------------------------------
(* Properties *)

\* The cutoff a check applies to its own sentences.
Applied(c) == IF input[c].sentences THEN input[c].cutoff ELSE Base

\* What is true of plagiarism_matcher.py:312-313, "it scales with corpus size, so the report
\* must quote this", with one matcher for all threads: a check that shared it with no other
\* quotes the cutoff it applied, whatever checks came before; one that did not quotes its
\* own, that of a check beside it, or the base such a check began with.
QuotesOneBeside ==
  \A c \in Checks : quoted[c] # None =>
    /\ beside[c] = {} => quoted[c] = Applied(c)
    /\ quoted[c] \in {Applied(c), Base} \cup {Applied(d) : d \in beside[c]}

\* stages.py:214-219: the cutoff may be another check's, but no match is ever asserted
\* whose last score, the cross-encoder's if it has one, is under both the base and the
\* ceiling.  (Where the settings put the ceiling under the base, a large corpus is judged
\* by the ceiling: plagiarism_matcher.py:263.)
NothingAssertedBelowLowest ==
  \A c \in Checks : \A m \in matches[c] :
    m.passage.type # "verbatim" /\ m.confidence = "confident" =>
      (IF m.rerank = None THEN m.passage.score ELSE m.rerank) >= Lowest

\* report.py:33-36 says of "clear" that no passage matched.  What it is worth: no match
\* waits for the author's judgement, even where the reranker changed its mind after the
\* matcher counted; and where triage ran, each one left is boilerplate or quoted and cited.
\* Where triage failed (stages.py:247) nothing more is promised: uncited copies, word for
\* word, stay under "clear".
ClearUpToTriage ==
  \A c \in Checks : band[c] = "clear" =>
    /\ \A m \in matches[c] : m.confidence = "confident"
    /\ summary[c] # None =>
         \A m \in matches[c] : \/ m.passage.quoted /\ m.passage.cited
                               \/ m.passage.type = "verbatim" /\ m.passage.common

=============================================================================

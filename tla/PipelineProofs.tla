--------------------------- MODULE PipelineProofs ---------------------------
(***************************************************************************)
(* Theorems about the two programs that score pairs of sentences: what a   *)
(* check asserts and what it quotes, of any number of checks that share    *)
(* the matcher, any inputs and any number of levels; and what the commands *)
(* of the benchmark report, of any models, sets, rules and shuffles.       *)
(***************************************************************************)
EXTENDS Pipeline, Evaluation, ListProofs

\* The part of the types the proofs use.
Typed ==
  /\ last \in Scores
  /\ input \in [Checks -> Inputs]
  /\ pc \in [Checks -> {"new", "match", "measure", "compare", "return",
                        "rerank", "triage", "report", "done", "failed"}]
  /\ DOMAIN matches = Checks
  /\ \A c \in Checks : \A m \in matches[c] : m \in Match
  /\ quoted \in [Checks -> Scores \cup {None}]
  /\ beside \in [Checks -> SUBSET Checks]

\* No cutoff that anyone applies, now or later, is under both the base and the ceiling.
CutoffsFromLowest ==
  /\ last >= Lowest
  /\ \A c \in Checks : quoted[c] # None => quoted[c] >= Lowest

\* Checks inside the matcher together know of each other.
Acquainted == \A c, d \in Matching : c # d => d \in beside[c]

\* What a check will find in the attribute if it reads it now.
Readable(c) == {Applied(c), Base} \cup {Applied(d) : d \in beside[c]}

AttributeFollows ==
  \A c \in Matching :
    /\ last \in Readable(c)
    /\ beside[c] = {} => last = IF pc[c] = "measure" THEN Base ELSE Applied(c)

IInv == Typed /\ CutoffsFromLowest /\ Acquainted /\ AttributeFollows
          /\ QuotesOneBeside /\ NothingAssertedBelowLowest

-----------------------------------------------------------------------------

LEMMA LowestIs == Lowest \in Scores /\ Lowest \in Nat /\ Base \in Nat /\ Lowest <= Base
  BY PipelineAssumption DEF Lowest

LEMMA CutoffTyped ==
  ASSUME Typed, CutoffsFromLowest, NEW c \in Checks
  PROVE  /\ Cutoff(c) \in Scores /\ Cutoff(c) >= Lowest
         /\ input[c].cutoff \in Scores /\ input[c].cutoff >= Lowest
  BY PipelineAssumption, LowestIs DEF Typed, CutoffsFromLowest, Cutoff, InputType

\* What the matcher makes of passages: typed, and asserted at the cutoff or above.
LEMMA MatcherAsserts ==
  ASSUME Typed, CutoffsFromLowest, NEW c \in Checks,
         NEW m \in Verbatims(c) \cup Semantic(c, input[c].cutoff)
  PROVE  /\ m \in Match
         /\ m.passage.type # "verbatim" /\ m.confidence = "confident"
              => m.rerank = None /\ m.passage.score >= Lowest
<1> DEFINE k == input[c].cutoff
<1>1. input[c] \in Inputs /\ k \in Nat /\ k >= Lowest /\ Lowest \in Nat
  BY CutoffTyped, LowestIs, PipelineAssumption DEF Typed
<1>2. \A p \in input[c].passages : p.score \in Nat /\ p \in UNION {i.passages : i \in Inputs}
  BY <1>1, PipelineAssumption DEF InputType, PassageType
<1>3. CASE m \in Verbatims(c)
  BY <1>2, <1>3 DEF Verbatims, Match, Confidence
<1>4. CASE m \in Semantic(c, k)
  <2>1. PICK p \in input[c].passages :
          m = [passage |-> p, confidence |-> BandOf(p, k), rerank |-> None]
    BY <1>4 DEF Semantic
  <2>2. BandOf(p, k) \in Confidence
    BY DEF BandOf, Confidence
  <2>3. BandOf(p, k) = "confident" => p.score >= k
    BY DEF BandOf
  <2>4. p.score \in Nat
    BY <1>2
  <2>5. m \in Match
    BY <1>2, <2>1, <2>2 DEF Match
  <2>6. m.confidence = "confident" => p.score >= Lowest
    BY <1>1, <2>1, <2>3, <2>4
  <2> QED
    BY <2>1, <2>5, <2>6
<1> QED
  BY <1>3, <1>4

\* What the cross-encoder makes of a match.
LEMMA RerankAsserts ==
  ASSUME Typed, CutoffsFromLowest, NEW c \in Checks, NEW m \in Match, NEW s \in Scores
  PROVE  LET r == Rescored(m, s, Cutoff(c))
         IN  /\ r \in Match /\ r.rerank = s /\ r.rerank # None
             /\ r.confidence = "confident" => s >= Lowest
<1>1. Cutoff(c) \in Nat /\ Cutoff(c) >= Lowest /\ s \in Nat /\ Lowest \in Nat /\ s # None
  BY CutoffTyped, LowestIs, PipelineAssumption
<1> DEFINE conf == IF s >= Cutoff(c) THEN "confident" ELSE "review"
           r == Rescored(m, s, Cutoff(c))
<1>2. r = [[m EXCEPT !.rerank = s] EXCEPT !.confidence = conf]
  BY DEF Rescored, Match
<1>3. m = [passage |-> m.passage, confidence |-> m.confidence, rerank |-> m.rerank]
  BY DEF Match
<1>4. r = [passage |-> m.passage, confidence |-> conf, rerank |-> s]
  BY <1>2, <1>3
<1>5. conf \in Confidence /\ (conf = "confident" => s >= Lowest)
  BY <1>1 DEF Confidence
<1>6. r \in Match
  BY <1>4, <1>5 DEF Match
<1> QED
  BY <1>1, <1>4, <1>5, <1>6

THEOREM InvariantStarts == Init => IInv
  BY PipelineAssumption, LowestIs DEF Init, IInv, Typed, CutoffsFromLowest, Acquainted, AttributeFollows,
     Matching, QuotesOneBeside, NothingAssertedBelowLowest

\* The stages that neither use the attribute nor touch a match.
LEMMA OtherStages ==
  ASSUME IInv, NEW c \in Checks,
         Gather(c) \/ GiveUp(c) \/ SkipRerank(c) \/ Triage(c) \/ Report(c) \/ UNCHANGED vars
  PROVE  IInv'
<1>1. /\ UNCHANGED <<last, input, matches, quoted, beside>>
      /\ pc' \in [Checks -> {"new", "match", "measure", "compare", "return",
                             "rerank", "triage", "report", "done", "failed"}]
      /\ \A d \in Checks : d \in Matching' => d \in Matching /\ pc'[d] = pc[d]
  BY DEF IInv, Typed, Gather, GiveUp, SkipRerank, Triage, Report, ownVars, vars, Goto, Matching
<1>2. Matching' \subseteq Matching
  BY <1>1 DEF Matching
<1>3. Typed' /\ CutoffsFromLowest'
  BY <1>1 DEF IInv, Typed, CutoffsFromLowest
<1>4. Acquainted' /\ AttributeFollows'
  BY <1>1, <1>2 DEF IInv, Acquainted, AttributeFollows, Readable, Applied, Matching
<1>5. QuotesOneBeside' /\ NothingAssertedBelowLowest'
  BY <1>1 DEF IInv, QuotesOneBeside, NothingAssertedBelowLowest, Applied
<1> QED
  BY <1>3, <1>4, <1>5 DEF IInv

\* A check resets the attribute, and those inside the matcher learn of each other.
LEMMA MatchBegins ==
  ASSUME IInv, NEW c \in Checks, BeginMatch(c) \/ EmptyReport(c)
  PROVE  IInv'
<1> USE DEF IInv, Typed
<1>1. /\ last' = Base /\ Base \in Scores /\ Base >= Lowest
      /\ UNCHANGED <<input, matches, quoted>>
      /\ pc[c] = "match"
      /\ pc' \in [Checks -> {"new", "match", "measure", "compare", "return",
                             "rerank", "triage", "report", "done", "failed"}]
      /\ pc'[c] \in {"measure", "rerank"}
      /\ \A d \in Checks \ {c} : pc'[d] = pc[d]
  BY PipelineAssumption, LowestIs DEF BeginMatch, EmptyReport, Goto, ownVars
<1>2. /\ beside' \in [Checks -> SUBSET Checks]
      /\ beside'[c] = beside[c] \cup Matching
      /\ \A d \in Checks : d # c => beside'[d] = IF d \in Matching THEN beside[d] \cup {c} ELSE beside[d]
  <2>1. Tell(c)
    BY DEF BeginMatch, EmptyReport
  <2>2. Matching \subseteq Checks
    BY DEF Matching
  <2> HIDE DEF IInv
  <2>3. beside \in [Checks -> SUBSET Checks]
    BY DEF IInv
  <2> QED
    BY <2>1, <2>2, <2>3 DEF Tell
<1>3. /\ c \notin Matching
      /\ \A d \in Checks : d # c => (d \in Matching' <=> d \in Matching)
  BY <1>1 DEF Matching
<1>4. Typed' /\ CutoffsFromLowest'
  BY <1>1, <1>2 DEF CutoffsFromLowest
<1>5. Acquainted'
  BY <1>2, <1>3 DEF Acquainted, Matching
<1>6. AttributeFollows'
  BY <1>1, <1>2, <1>3 DEF AttributeFollows, Readable, Applied, Matching
<1>7. QuotesOneBeside'
  <2> SUFFICES ASSUME NEW d \in Checks, quoted[d] # None
               PROVE  /\ beside'[d] = {} => quoted[d] = Applied(d)
                      /\ quoted[d] \in {Applied(d), Base} \cup {Applied(e) : e \in beside'[d]}
    BY <1>1 DEF QuotesOneBeside, Applied
  <2>1. beside[d] \subseteq beside'[d]
    BY <1>2
  <2> QED
    BY <2>1 DEF QuotesOneBeside
<1>8. NothingAssertedBelowLowest'
  BY <1>1 DEF NothingAssertedBelowLowest
<1> QED
  BY <1>4, <1>5, <1>6, <1>7, <1>8

\* A check leaves its cutoff in the attribute.
LEMMA Measures == ASSUME IInv, NEW c \in Checks, Measure(c) PROVE IInv'
<1> USE DEF IInv, Typed
<1>1. /\ UNCHANGED <<input, quoted, beside>>
      /\ pc[c] = "measure"
      /\ \A d \in Checks \ {c} : pc'[d] = pc[d] /\ matches'[d] = matches[d]
      /\ pc' \in [Checks -> {"new", "match", "measure", "compare", "return",
                             "rerank", "triage", "report", "done", "failed"}]
      /\ DOMAIN matches' = Checks /\ matches'[c] = Verbatims(c)
  BY DEF Measure, Goto
<1>2. \/ input[c].sentences /\ last' = Applied(c) /\ pc'[c] = "compare" /\ last' = input[c].cutoff
      \/ ~input[c].sentences /\ last' = last /\ pc'[c] = "return" /\ Applied(c) = Base
  BY DEF Measure, Goto, Applied
<1>3. Matching' = Matching /\ c \in Matching
  BY <1>1, <1>2 DEF Matching
<1>4. last' \in Scores /\ last' >= Lowest
  BY <1>2, CutoffTyped DEF CutoffsFromLowest
<1>5. Typed' /\ CutoffsFromLowest'
  BY <1>1, <1>4, MatcherAsserts DEF CutoffsFromLowest
<1>6. Acquainted'
  BY <1>1, <1>3 DEF Acquainted
<1>7. AttributeFollows'
  <2> SUFFICES ASSUME NEW d \in Matching
               PROVE  /\ last' \in Readable(d)
                      /\ beside[d] = {} => last' = IF pc'[d] = "measure" THEN Base ELSE Applied(d)
    BY <1>1, <1>3 DEF AttributeFollows, Readable, Applied
  <2>1. CASE d = c
    BY <1>2, <1>3, <2>1 DEF AttributeFollows, Readable
  <2>2. CASE d # c
    <3>1. c \in beside[d] /\ pc'[d] = pc[d]
      BY <1>1, <1>3, <2>2 DEF Acquainted, Matching
    <3> QED
      BY <1>2, <3>1 DEF AttributeFollows, Readable
  <2> QED BY <2>1, <2>2
<1>8. QuotesOneBeside'
  BY <1>1 DEF QuotesOneBeside, Applied
<1>9. NothingAssertedBelowLowest'
  BY <1>1, MatcherAsserts DEF NothingAssertedBelowLowest
<1> QED
  BY <1>5, <1>6, <1>7, <1>8, <1>9

\* A check compares sentences at its own cutoff.
LEMMA Compares == ASSUME IInv, NEW c \in Checks, Compare(c) PROVE IInv'
<1> USE DEF IInv, Typed
<1>1. /\ UNCHANGED <<last, input, quoted, beside>>
      /\ pc[c] = "compare" /\ pc'[c] = "return"
      /\ \A d \in Checks \ {c} : pc'[d] = pc[d] /\ matches'[d] = matches[d]
      /\ pc' \in [Checks -> {"new", "match", "measure", "compare", "return",
                             "rerank", "triage", "report", "done", "failed"}]
      /\ DOMAIN matches' = Checks
      /\ matches'[c] \subseteq matches[c] \cup Semantic(c, input[c].cutoff)
  BY DEF Compare, Goto
<1>2. Matching' = Matching
  BY <1>1 DEF Matching
<1>3. Typed' /\ CutoffsFromLowest'
  BY <1>1, MatcherAsserts DEF CutoffsFromLowest
<1>4. Acquainted' /\ AttributeFollows' /\ QuotesOneBeside'
  BY <1>1, <1>2 DEF Acquainted, AttributeFollows, Readable, QuotesOneBeside, Applied, Matching
<1>5. NothingAssertedBelowLowest'
  BY <1>1, MatcherAsserts DEF NothingAssertedBelowLowest
<1> QED
  BY <1>3, <1>4, <1>5

\* A check quotes what it finds in the attribute.
LEMMA Returns == ASSUME IInv, NEW c \in Checks, Return(c) PROVE IInv'
<1> USE DEF IInv, Typed
<1>1. /\ UNCHANGED <<last, input, matches, beside>>
      /\ pc[c] = "return" /\ pc'[c] = "rerank"
      /\ \A d \in Checks \ {c} : pc'[d] = pc[d] /\ quoted'[d] = quoted[d]
      /\ pc' \in [Checks -> {"new", "match", "measure", "compare", "return",
                             "rerank", "triage", "report", "done", "failed"}]
      /\ quoted' \in [Checks -> Scores \cup {None}] /\ quoted'[c] = last
  BY DEF Return, Goto
<1>2. c \in Matching /\ Matching' = Matching \ {c}
  BY <1>1 DEF Matching
<1>3. Typed' /\ CutoffsFromLowest' /\ Acquainted'
  BY <1>1, <1>2 DEF CutoffsFromLowest, Acquainted
<1>4. AttributeFollows'
  BY <1>1, <1>2 DEF AttributeFollows, Readable, Applied, Matching
<1>5. QuotesOneBeside'
  BY <1>1, <1>2 DEF QuotesOneBeside, AttributeFollows, Readable, Applied
<1>6. NothingAssertedBelowLowest'
  BY <1>1 DEF NothingAssertedBelowLowest
<1> QED
  BY <1>3, <1>4, <1>5, <1>6

\* The cross-encoder asserts at the quoted cutoff, its own or another's.
LEMMA Reranking == ASSUME IInv, NEW c \in Checks, RerankStage(c) PROVE IInv'
<1> USE DEF IInv, Typed
<1>1. /\ UNCHANGED <<last, input, quoted, beside>>
      /\ pc[c] = "rerank" /\ pc'[c] = "triage"
      /\ \A d \in Checks \ {c} : pc'[d] = pc[d] /\ matches'[d] = matches[d]
      /\ pc' \in [Checks -> {"new", "match", "measure", "compare", "return",
                             "rerank", "triage", "report", "done", "failed"}]
      /\ DOMAIN matches' = Checks
  BY DEF RerankStage, Goto
<1>2. PICK S \in SUBSET matches[c] : \E s \in [S -> Scores] :
        matches'[c] = (matches[c] \ S) \cup {Rescored(m, s[m], Cutoff(c)) : m \in S}
  <2>1. PICK S \in Candidates(c) : \E s \in [S -> Scores] :
          matches' = [matches EXCEPT ![c] = (@ \ S) \cup {Rescored(m, s[m], Cutoff(c)) : m \in S}]
    BY DEF RerankStage
  <2>2. S \in SUBSET matches[c]
    BY DEF Candidates, Borderline
  <2> QED
    BY <2>1, <2>2
<1>3. \A r \in matches'[c] :
        \/ r \in matches[c]
        \/ r \in Match /\ r.rerank # None /\ (r.confidence = "confident" => r.rerank >= Lowest)
  BY <1>2, RerankAsserts
<1>4. Matching' = Matching
  BY <1>1 DEF Matching
<1>5. Typed' /\ CutoffsFromLowest'
  BY <1>1, <1>3 DEF CutoffsFromLowest
<1>6. Acquainted' /\ AttributeFollows' /\ QuotesOneBeside'
  BY <1>1, <1>4 DEF Acquainted, AttributeFollows, Readable, QuotesOneBeside, Applied, Matching
<1>7. NothingAssertedBelowLowest'
  BY <1>1, <1>3 DEF NothingAssertedBelowLowest
<1> QED
  BY <1>5, <1>6, <1>7

THEOREM InvariantKept == IInv /\ [Next]_vars => IInv'
<1> SUFFICES ASSUME IInv, [Next]_vars PROVE IInv'
  OBVIOUS
<1>1. CASE UNCHANGED vars
  <2>1. UNCHANGED <<last, input, pc, matches, quoted, beside>>
    BY <1>1 DEF vars, ownVars
  <2> QED
    BY <2>1 DEF IInv, Typed, CutoffsFromLowest, Acquainted, AttributeFollows, Readable, Applied, Matching,
       QuotesOneBeside, NothingAssertedBelowLowest
<1>2. ASSUME NEW c \in Checks, Step(c) PROVE IInv'
  BY <1>2, OtherStages, MatchBegins, Measures, Compares, Returns, Reranking DEF Step
<1> QED
  BY <1>1, <1>2 DEF Next

THEOREM InvariantHolds == Spec => []IInv
  BY InvariantStarts, InvariantKept, PTL DEF Spec

\* No match is asserted on a score below the configured threshold, or below the ceiling
\* where the settings put that one lower, whichever check's cutoff the report quotes.
THEOREM NothingBelowLowest == Spec => []NothingAssertedBelowLowest
  BY InvariantHolds, PTL DEF IInv

\* A check alone in the matcher quotes its own cutoff, and any other that of a check
\* beside it, or the base.
THEOREM CutoffOfACompanion == Spec => []QuotesOneBeside
  BY InvariantHolds, PTL DEF IInv

-----------------------------------------------------------------------------
(* The counts and the band *)

SummaryType == [act : Nat, look : Nat]
Tally(c) == [act |-> CountOf(c, {1, 2}), look |-> CountOf(c, {3})]

\* What one check's counts, summary and band are worth at each of its stages.
Sound(c) ==
  /\ \A m \in matches[c] : m.passage \in input[c].passages
  /\ IsFiniteSet(matches[c])
  /\ pc[c] \in {"new", "match"} => matches[c] = {} /\ reviews[c] = 0
  /\ pc[c] \in {"rerank", "triage", "report", "done"} => reviews[c] = ReviewCount(matches[c])
  /\ pc[c] \notin {"report", "done"} => summary[c] = None
  /\ summary[c] # None => summary[c] = Tally(c)
  /\ pc[c] # "done" => band[c] = None
  /\ band[c] = "clear" => reviews[c] = 0 /\ (summary[c] # None => Tally(c).act = 0 /\ Tally(c).look = 0)

SInv ==
  /\ reviews \in [Checks -> Nat]
  /\ summary \in [Checks -> SummaryType \cup {None}]
  /\ band \in [Checks -> {"act", "look", "clear", None}]
  /\ \A c \in Checks : Sound(c)


\* What the matcher makes of a finite manuscript is finite.
LEMMA FiniteMatches ==
  ASSUME Typed, NEW c \in Checks
  PROVE  /\ IsFiniteSet(Verbatims(c)) /\ IsFiniteSet(Semantic(c, input[c].cutoff))
         /\ \A m \in Verbatims(c) \cup Semantic(c, input[c].cutoff) : m.passage \in input[c].passages
<1> DEFINE V == {q \in input[c].passages : q.type = "verbatim"}
           W == {q \in input[c].passages : q.type # "verbatim" /\ q.score >= Floor /\ ~q.covered}
           v == [p \in V |-> [passage |-> p, confidence |-> "confident", rerank |-> None]]
           w == [p \in W |-> [passage |-> p, confidence |-> BandOf(p, input[c].cutoff), rerank |-> None]]
<1>1. IsFiniteSet(input[c].passages)
  BY PipelineAssumption DEF Typed
<1>2. IsFiniteSet(V) /\ IsFiniteSet(W)
  BY <1>1, FS_Subset
<1>3. Verbatims(c) = {v[p] : p \in V}
  BY DEF Verbatims
<1>4. Semantic(c, input[c].cutoff) = {w[p] : p \in W}
  BY DEF Semantic
<1>5. DOMAIN v = V /\ DOMAIN w = W
  OBVIOUS
<1> HIDE DEF V, W, v, w
<1>6. IsFiniteSet({v[p] : p \in V}) /\ IsFiniteSet({w[p] : p \in W})
  BY <1>2, <1>5, FiniteImage
<1>7. \A m \in Verbatims(c) : m.passage \in input[c].passages
  BY DEF Verbatims
<1>8. \A m \in Semantic(c, input[c].cutoff) : m.passage \in input[c].passages
  BY DEF Semantic
<1> QED
  BY <1>3, <1>4, <1>6, <1>7, <1>8

LEMMA Counts ==
  ASSUME NEW ms, IsFiniteSet(ms)
  PROVE  /\ ReviewCount(ms) \in Nat
         /\ ReviewCount(ms) = 0 => \A m \in ms : m.confidence # "review"
<1> DEFINE R == {m \in ms : m.confidence = "review"}
<1>1. IsFiniteSet(R)
  BY FS_Subset
<1>2. Cardinality(R) \in Nat /\ (Cardinality(R) = 0 => R = {})
  BY <1>1, FS_CardinalityType, FS_EmptySet
<1> QED
  BY <1>2 DEF ReviewCount

LEMMA TallyCounts ==
  ASSUME NEW c \in Checks, IsFiniteSet(matches[c])
  PROVE  /\ Tally(c) \in SummaryType
         /\ Tally(c).act = 0 /\ Tally(c).look = 0 => \A m \in matches[c] : Priority(m) \notin {1, 2, 3}
<1> DEFINE A == {m \in matches[c] : Priority(m) \in {1, 2}}
           L == {m \in matches[c] : Priority(m) \in {3}}
<1>1. IsFiniteSet(A) /\ IsFiniteSet(L)
  BY FS_Subset
<1>2. /\ Cardinality(A) \in Nat /\ (Cardinality(A) = 0 => A = {})
      /\ Cardinality(L) \in Nat /\ (Cardinality(L) = 0 => L = {})
  BY <1>1, FS_CardinalityType, FS_EmptySet
<1>3. Tally(c) = [act |-> Cardinality(A), look |-> Cardinality(L)]
  BY DEF Tally, CountOf
<1>4. Tally(c) \in SummaryType
  BY <1>2, <1>3 DEF SummaryType
<1>5. Tally(c).act = 0 /\ Tally(c).look = 0 => A = {} /\ L = {}
  BY <1>2, <1>3
<1> QED
  BY <1>4, <1>5

\* A match that no rule asks the author about is boilerplate or properly attributed.
LEMMA Unasked ==
  ASSUME NEW m \in Match, m.passage.type \in {"verbatim", "paraphrase", "translated"}, Priority(m) \notin {1, 2, 3}
  PROVE  (m.passage.quoted /\ m.passage.cited) \/ (m.passage.type = "verbatim" /\ m.passage.common)
<1>1. m.confidence \in {"confident", "review"}
  BY DEF Match, Confidence
<1> QED
  BY <1>1 DEF Priority, Attributed

THEOREM SoundStarts == Init => SInv
  BY FS_EmptySet, PipelineAssumption DEF Init, SInv, Sound, Confidence

\* A check's counts and its band are its own: what another does leaves them alone.
LEMMA OwnCounts ==
  ASSUME IInv, SInv, NEW c \in Checks, Step(c), NEW d \in Checks, d # c
  PROVE  Sound(d)'
<1>1. /\ input' = input /\ pc'[d] = pc[d] /\ matches'[d] = matches[d] /\ reviews'[d] = reviews[d]
      /\ summary'[d] = summary[d] /\ band'[d] = band[d]
  BY DEF IInv, Typed, SInv, Step, Gather, GiveUp, BeginMatch, EmptyReport, Measure, Compare, Return,
     RerankStage, SkipRerank, Triage, Report, ownVars, Goto
<1>2. Sound(d)
  BY DEF SInv
<1> QED
  BY <1>1, <1>2 DEF Sound, Tally, CountOf

\* Each stage of a check keeps its own counts sound.
LEMMA EarlyStages ==
  ASSUME IInv, SInv, NEW c \in Checks,
         Gather(c) \/ GiveUp(c) \/ BeginMatch(c) \/ EmptyReport(c) \/ SkipRerank(c)
  PROVE  Sound(c)'
<1>1. /\ UNCHANGED <<input, matches, reviews, summary, band>>
      /\ \/ pc[c] \in {"new", "match"} /\ pc'[c] \in {"match", "measure", "failed", "rerank"}
         \/ pc[c] = "rerank" /\ pc'[c] = "triage"
  BY DEF IInv, Typed, Gather, GiveUp, BeginMatch, EmptyReport, SkipRerank, ownVars, Goto
<1>2. Sound(c) /\ ReviewCount({}) = 0
  BY FS_EmptySet DEF SInv, ReviewCount
<1>3. Tally(c)' = Tally(c)
  BY <1>1 DEF Tally, CountOf
<1> QED
  BY <1>1, <1>2, <1>3 DEF Sound

LEMMA MatcherStages ==
  ASSUME IInv, SInv, NEW c \in Checks, Measure(c) \/ Compare(c) \/ Return(c)
  PROVE  Sound(c)' /\ reviews' \in [Checks -> Nat]
<1>1. /\ UNCHANGED <<input, summary, band>>
      /\ \/ pc[c] = "measure" /\ pc'[c] \in {"compare", "return"} /\ matches'[c] = Verbatims(c) /\ UNCHANGED reviews
         \/ pc[c] = "compare" /\ pc'[c] = "return" /\ UNCHANGED reviews
              /\ matches'[c] \in {matches[c], matches[c] \cup Semantic(c, input[c].cutoff)}
         \/ pc[c] = "return" /\ pc'[c] = "rerank" /\ matches'[c] = matches[c]
              /\ reviews' = [reviews EXCEPT ![c] = ReviewCount(matches[c])]
  BY DEF IInv, Typed, Measure, Compare, Return, Goto
<1>2. Sound(c) /\ reviews \in [Checks -> Nat]
  BY DEF SInv
<1>3. IsFiniteSet(matches'[c]) /\ \A m \in matches'[c] : m.passage \in input[c].passages
  <2>1. /\ IsFiniteSet(Verbatims(c)) /\ IsFiniteSet(Semantic(c, input[c].cutoff))
        /\ \A m \in Verbatims(c) \cup Semantic(c, input[c].cutoff) : m.passage \in input[c].passages
    BY FiniteMatches DEF IInv
  <2>2. IsFiniteSet(matches[c]) /\ \A m \in matches[c] : m.passage \in input[c].passages
    BY <1>2 DEF Sound
  <2>3. IsFiniteSet(matches[c] \cup Semantic(c, input[c].cutoff))
    BY <2>1, <2>2, FS_Union
  <2> QED
    BY <1>1, <2>1, <2>2, <2>3
<1>4. band[c] = None /\ None # "clear" /\ summary[c] = None
  BY <1>1, <1>2, PipelineAssumption DEF Sound
<1>5. ReviewCount(matches[c]) \in Nat
  BY <1>2, Counts DEF Sound
<1> QED
  BY <1>1, <1>2, <1>3, <1>4, <1>5 DEF Sound

LEMMA RerankKeepsCounts ==
  ASSUME IInv, SInv, NEW c \in Checks, RerankStage(c)
  PROVE  Sound(c)' /\ reviews' \in [Checks -> Nat]
<1>1. /\ UNCHANGED <<input, summary, band>> /\ pc[c] = "rerank" /\ pc'[c] = "triage"
      /\ reviews' = [reviews EXCEPT ![c] = ReviewCount(matches'[c])]
  BY DEF IInv, Typed, RerankStage, Goto
<1>2. PICK S \in SUBSET matches[c] : \E s \in [S -> Scores] :
        matches'[c] = (matches[c] \ S) \cup {Rescored(m, s[m], Cutoff(c)) : m \in S}
  <2>1. PICK S \in Candidates(c) : \E s \in [S -> Scores] :
          matches' = [matches EXCEPT ![c] = (@ \ S) \cup {Rescored(m, s[m], Cutoff(c)) : m \in S}]
    BY DEF RerankStage
  <2>2. S \in SUBSET matches[c]
    BY DEF Candidates, Borderline
  <2> QED
    BY <2>1, <2>2 DEF IInv, Typed
<1>3. PICK s \in [S -> Scores] :
        matches'[c] = (matches[c] \ S) \cup {Rescored(m, s[m], Cutoff(c)) : m \in S}
  BY <1>2
<1>4. Sound(c) /\ reviews \in [Checks -> Nat]
  BY DEF SInv
<1>5. IsFiniteSet(S) /\ IsFiniteSet(matches[c] \ S)
  BY <1>4, FS_Subset DEF Sound
<1>6. IsFiniteSet({Rescored(m, s[m], Cutoff(c)) : m \in S})
  <2> DEFINE f == [m \in S |-> Rescored(m, s[m], Cutoff(c))]
  <2>1. DOMAIN f = S /\ {Rescored(m, s[m], Cutoff(c)) : m \in S} = {f[m] : m \in S}
    OBVIOUS
  <2> HIDE DEF f
  <2>2. IsFiniteSet({f[m] : m \in S})
    BY <1>5, <2>1, FiniteImage
  <2> QED
    BY <2>1, <2>2
<1>7. IsFiniteSet(matches'[c])
  <2> DEFINE U == {Rescored(m, s[m], Cutoff(c)) : m \in S}
  <2>1. IsFiniteSet(U) /\ matches'[c] = (matches[c] \ S) \cup U
    BY <1>3, <1>6
  <2> HIDE DEF U
  <2> QED
    BY <1>5, <2>1, FS_Union
<1>8. \A m \in S : Rescored(m, s[m], Cutoff(c)).passage = m.passage
  <2> SUFFICES ASSUME NEW m \in S PROVE Rescored(m, s[m], Cutoff(c)).passage = m.passage
    OBVIOUS
  <2>1. m \in Match
    BY DEF IInv, Typed
  <2>2. m = [passage |-> m.passage, confidence |-> m.confidence, rerank |-> m.rerank]
    BY <2>1 DEF Match
  <2> QED
    BY <2>2 DEF Rescored
<1>9. \A m \in matches'[c] : m.passage \in input[c].passages
  BY <1>3, <1>4, <1>8 DEF Sound
<1>10. band[c] = None /\ None # "clear" /\ summary[c] = None
  BY <1>1, <1>4, PipelineAssumption DEF Sound
<1>11. ReviewCount(matches'[c]) \in Nat
  BY <1>7, Counts
<1> QED
  BY <1>1, <1>4, <1>7, <1>9, <1>10, <1>11 DEF Sound

LEMMA LateStages ==
  ASSUME IInv, SInv, NEW c \in Checks, Triage(c) \/ Report(c)
  PROVE  /\ Sound(c)'
         /\ summary' \in [Checks -> SummaryType \cup {None}]
         /\ band' \in [Checks -> {"act", "look", "clear", None}]
<1> USE DEF SInv
<1>1. Sound(c) /\ pc[c] \in {"triage", "report"}
  BY DEF Triage, Report
<1>2. /\ Tally(c) \in SummaryType /\ Tally(c)' = Tally(c)
      /\ UNCHANGED <<input, matches, reviews>>
  BY <1>1, TallyCounts DEF Sound, Triage, Report, Tally, CountOf
<1>3. CASE Triage(c)
  <2>1. /\ pc'[c] = "report" /\ UNCHANGED band
        /\ summary' = [summary EXCEPT ![c] = Tally(c)] \/ UNCHANGED summary
    BY <1>3 DEF Triage, Goto, Tally, IInv, Typed
  <2> QED
    BY <1>1, <1>2, <1>3, <2>1, PipelineAssumption DEF Sound, Triage
<1>4. CASE Report(c)
  <2> DEFINE ts == IF summary[c] = None THEN [act |-> 0, look |-> 0] ELSE summary[c]
  <2>1. /\ pc[c] = "report" /\ pc'[c] = "done" /\ UNCHANGED summary
        /\ band' = [band EXCEPT ![c] = IF ts.act > 0 THEN "act"
                                       ELSE IF ts.look > 0 \/ reviews[c] > 0 THEN "look" ELSE "clear"]
    BY <1>4 DEF Report, Goto, IInv, Typed
  <2>2. ts \in SummaryType /\ ts.act \in Nat /\ ts.look \in Nat /\ reviews[c] \in Nat
    BY DEF SummaryType
  <2>3. band'[c] = "clear" => reviews[c] = 0 /\ ts.act = 0 /\ ts.look = 0
    BY <2>1, <2>2
  <2> HIDE DEF ts
  <2>4. summary[c] # None => ts = Tally(c)
    BY <1>1 DEF ts, Sound
  <2> QED
    BY <1>1, <1>2, <2>1, <2>3, <2>4 DEF Sound
<1> QED
  BY <1>3, <1>4

THEOREM SoundKept == IInv /\ SInv /\ [Next]_vars => SInv'
<1> SUFFICES ASSUME IInv, SInv, [Next]_vars PROVE SInv'
  OBVIOUS
<1>1. CASE UNCHANGED vars
  BY <1>1 DEF vars, ownVars, SInv, Sound, Tally, CountOf
<1>2. ASSUME NEW c \in Checks, Step(c) PROVE SInv'
  <2>1. \A d \in Checks \ {c} : Sound(d)'
    BY <1>2, OwnCounts
  <2>2. Sound(c)'
    BY <1>2, EarlyStages, MatcherStages, RerankKeepsCounts, LateStages DEF Step
  <2>3. CASE Gather(c) \/ GiveUp(c) \/ BeginMatch(c) \/ EmptyReport(c) \/ SkipRerank(c)
    BY <2>1, <2>2, <2>3 DEF SInv, Gather, GiveUp, BeginMatch, EmptyReport, SkipRerank, ownVars
  <2>4. CASE Measure(c) \/ Compare(c) \/ Return(c) \/ RerankStage(c)
    <3>1. UNCHANGED <<summary, band>>
      BY <2>4 DEF Measure, Compare, Return, RerankStage
    <3>2. reviews' \in [Checks -> Nat]
      BY <2>4, MatcherStages, RerankKeepsCounts
    <3> QED
      BY <2>1, <2>2, <3>1, <3>2 DEF SInv
  <2>5. CASE Triage(c) \/ Report(c)
    <3>1. UNCHANGED reviews
      BY <2>5 DEF Triage, Report
    <3> QED
      BY <2>1, <2>2, <2>5, <3>1, LateStages DEF SInv
  <2> QED
    BY <1>2, <2>3, <2>4, <2>5 DEF Step
<1> QED
  BY <1>1, <1>2 DEF Next

THEOREM SoundHolds == Spec => []SInv
  BY SoundStarts, SoundKept, InvariantStarts, InvariantKept, PTL DEF Spec

\* Every variable of a check keeps its type.
THEOREM TypeCorrect == Spec => []TypeOK
<1>1. IInv /\ SInv => TypeOK
  BY DEF IInv, Typed, SInv, Sound, SummaryType, TypeOK
<1> QED
  BY <1>1, InvariantHolds, SoundHolds, PTL

\* Under "clear" no match waits for the author's judgement, though the reranker may have
\* changed its mind after the matcher counted; and where triage ran, none is left that is
\* neither boilerplate nor quoted and cited.  Where triage failed, copies may be left.
THEOREM ClearHoldsUpToTriage == Spec => []ClearUpToTriage
<1>1. IInv /\ SInv => ClearUpToTriage
  <2> SUFFICES ASSUME IInv, SInv, NEW c \in Checks, band[c] = "clear", NEW m \in matches[c]
               PROVE  /\ m.confidence = "confident"
                      /\ summary[c] # None =>
                           \/ m.passage.quoted /\ m.passage.cited
                           \/ m.passage.type = "verbatim" /\ m.passage.common
    BY DEF ClearUpToTriage
  <2>1. Sound(c) /\ m \in Match /\ pc[c] = "done"
    BY PipelineAssumption DEF SInv, IInv, Typed, Sound
  <2>2. m.confidence # "review"
    BY <2>1, Counts DEF Sound
  <2>3. m.confidence = "confident"
    BY <2>1, <2>2 DEF Match, Confidence
  <2>4. m.passage.type \in {"verbatim", "paraphrase", "translated"}
    BY <2>1, PipelineAssumption DEF Sound, IInv, Typed, InputType, PassageType
  <2>5. summary[c] # None => Priority(m) \notin {1, 2, 3}
    BY <2>1, TallyCounts DEF Sound
  <2> QED
    BY <2>1, <2>3, <2>4, <2>5, Unasked
<1> QED
  BY <1>1, InvariantHolds, SoundHolds, PTL

-----------------------------------------------------------------------------
(* run_pairs.py, run_corpus.py, finetune_cross_encoder.py: rates             *)

LEMMA DivIs ==
  ASSUME NEW a \in Int, NEW b \in Int, b > 0
  PROVE  a \div b \in Int /\ b * (a \div b) <= a /\ a < b * (a \div b) + b
OBVIOUS

LEMMA DivAtMost ==
  ASSUME NEW a \in Int, NEW b \in Int, b > 0, NEW q \in Int, a < b * (q + 1)
  PROVE  a \div b <= q
<1> DEFINE x == a \div b
<1>1. x \in Int /\ b * x <= a
  BY DivIs
<1> SUFFICES ASSUME x >= q + 1 PROVE FALSE
  BY <1>1
<1> HIDE DEF x
<1>2. b * x >= b * (q + 1)
  BY <1>1
<1> QED
  BY <1>1, <1>2

LEMMA DivAtLeast ==
  ASSUME NEW a \in Int, NEW b \in Int, b > 0, NEW q \in Int, b * q <= a
  PROVE  q <= a \div b
<1> DEFINE x == a \div b
<1>1. x \in Int /\ a < b * x + b
  BY DivIs
<1> SUFFICES ASSUME x + 1 <= q PROVE FALSE
  BY <1>1
<1> HIDE DEF x
<1>2. b * (x + 1) <= b * q
  BY <1>1
<1>3. b * (x + 1) = b * x + b
  BY <1>1
<1> QED
  BY <1>1, <1>2, <1>3

\* A rate lies between none and all.
LEMMA RateIs ==
  ASSUME NEW n \in Nat, NEW d \in Nat
  PROVE  Rate(n, d) \in Int /\ Rate(n, d) >= 0 /\ (n <= d => Rate(n, d) <= 10000)
<1>1. CASE d = 0
  BY <1>1 DEF Rate
<1>2. CASE d # 0
  <2> DEFINE a == 20000 * n + d
             b == 2 * d
  <2>1. Rate(n, d) = a \div b
    BY <1>2 DEF Rate
  <2>2. a \in Int /\ b \in Int /\ b > 0 /\ b * 0 <= a
    BY <1>2
  <2>3. n <= d => a < b * (10000 + 1)
    BY <1>2
  <2> HIDE DEF a, b
  <2>4. a \div b \in Int /\ 0 <= a \div b
    BY <2>2, DivIs, DivAtLeast
  <2>5. n <= d => a \div b <= 10000
    BY <2>2, <2>3, DivAtMost
  <2> QED
    BY <2>1, <2>4, <2>5
<1> QED
  BY <1>1, <1>2

\* Rounding keeps the order of two fractions.
LEMMA RateKeepsOrder ==
  ASSUME NEW n \in Nat, NEW d \in Nat, NEW m \in Nat, NEW e \in Nat,
         n * e <= m * d, e = 0 => n = 0
  PROVE  Rate(n, d) <= Rate(m, e)
<1>1. CASE d = 0
  BY <1>1, RateIs DEF Rate
<1>2. CASE d # 0 /\ n = 0
  <2> DEFINE a == 20000 * n + d
             b == 2 * d
  <2>1. a \in Int /\ b \in Int /\ b > 0 /\ a < b * (0 + 1) /\ Rate(n, d) = a \div b
    BY <1>2 DEF Rate
  <2> HIDE DEF a, b
  <2>2. Rate(n, d) <= 0
    BY <2>1, DivAtMost
  <2> QED
    BY <2>2, RateIs
<1>3. CASE d # 0 /\ e # 0
  <2> DEFINE a == 20000 * n + d
             b == 2 * d
             c == 20000 * m + e
             f == 2 * e
             q == a \div b
  <2>1. Rate(n, d) = q /\ Rate(m, e) = c \div f
    BY <1>3 DEF Rate
  <2>2. a \in Int /\ b \in Int /\ b > 0 /\ c \in Int /\ f \in Int /\ f > 0
    BY <1>3
  <2>3. q \in Int /\ b * q <= a
    BY <2>2, DivIs
  <2> HIDE DEF q
  <2>4. e * (b * q) <= e * a
    BY <2>2, <2>3
  <2>5. e * a = 20000 * (n * e) + d * e
    BY <2>2
  <2>6. e * (b * q) = d * (f * q)
    BY <2>3
  <2>7. d * c = 20000 * (m * d) + d * e
    OBVIOUS
  <2>8. d * (f * q) <= d * c
    <3> DEFINE x == n * e
               y == m * d
               z == d * e
               l == e * a
               r == d * c
    <3>1. x \in Int /\ y \in Int /\ z \in Int /\ x <= y /\ l = 20000 * x + z /\ r = 20000 * y + z
      BY <2>5, <2>7
    <3> HIDE DEF x, y, z, l, r
    <3>2. l \in Int /\ r \in Int /\ l <= r
      BY <3>1
    <3> DEFINE k == e * (b * q)
    <3>3. k \in Int /\ k <= l /\ k = d * (f * q)
      BY <2>2, <2>3, <2>4, <2>6 DEF l
    <3> HIDE DEF k
    <3>4. k <= r
      BY <3>2, <3>3
    <3> QED
      BY <3>3, <3>4 DEF r
  <2>9. f * q <= c
    <3> DEFINE x == f * q
    <3>1. x \in Int /\ d \in Nat \ {0} /\ d * x <= d * c
      BY <1>3, <2>3, <2>8
    <3> HIDE DEF x, c
    <3>2. c \in Int
      BY <2>2
    <3> QED
      BY <3>1, <3>2 DEF x
  <2> HIDE DEF a, b, c, f
  <2> QED
    BY <2>1, <2>2, <2>3, <2>9, DivAtLeast
<1> QED
  BY <1>1, <1>2, <1>3

\* Among no more than ten thousand, four places tell any two counts apart.
LEMMA RateTells ==
  ASSUME NEW n \in Nat, NEW m \in Nat, NEW d \in Nat, d <= 10000, n <= d, Rate(n, d) <= Rate(m, d)
  PROVE  n <= m
<1> SUFFICES ASSUME m + 1 <= n PROVE FALSE
  OBVIOUS
<1> DEFINE a == 20000 * n + d
           c == 20000 * m + d
           b == 2 * d
           x == a \div b
           y == c \div b
<1>1. d # 0 /\ Rate(n, d) = x /\ Rate(m, d) = y
  BY DEF Rate
<1>2. a \in Int /\ c \in Int /\ b \in Int /\ b > 0 /\ b <= 20000 /\ a >= c + 20000
  BY <1>1
<1>3. x \in Int /\ a < b * x + b /\ y \in Int /\ b * y <= c
  BY <1>2, DivIs
<1>4. x <= y
  BY <1>1
<1> HIDE DEF a, b, c, x, y
<1>5. b * x <= b * y
  BY <1>2, <1>3, <1>4
<1> QED
  BY <1>2, <1>3, <1>5

\* Of finitely many, one that a measure puts first.
LEMMA Foremost ==
  ASSUME NEW T, IsFiniteSet(T), T # {}, NEW g, DOMAIN g = T, \A t \in T : g[t] \in Int
  PROVE  \E t \in T : \A u \in T : g[u] <= g[t]
<1> DEFINE S == {g[t] : t \in T}
<1>1. S \in SUBSET Int /\ IsFiniteSet(S) /\ S # {}
  BY FiniteImage
<1>2. PICK x \in S : \A y \in S : y <= x
  <2> HIDE DEF S
  <2> QED
    BY <1>1, FiniteMax
<1> QED
  BY <1>2

-----------------------------------------------------------------------------
(* metrics.py                                                                *)

Labelled(rows, y) == Cardinality({i \in DOMAIN rows : rows[i].label = y})

Scores01(rows) == \A i \in DOMAIN rows : rows[i].score \in Int /\ rows[i].label \in {0, 1}

LEMMA ConfusionIs ==
  ASSUME NEW rows, IsFiniteSet(DOMAIN rows), NEW t
  PROVE  LET c == Confusion(rows, t) IN c.tp \in Nat /\ c.fn \in Nat /\ c.fp \in Nat /\ c.tn \in Nat
<1> DEFINE D == DOMAIN rows
           tp == {i \in D : rows[i].label = 1 /\ rows[i].score >= t}
           fn == {i \in D : rows[i].label = 1 /\ rows[i].score < t}
           fp == {i \in D : rows[i].label = 0 /\ rows[i].score >= t}
           tn == {i \in D : rows[i].label = 0 /\ rows[i].score < t}
<1>1. tp \in SUBSET D /\ fn \in SUBSET D /\ fp \in SUBSET D /\ tn \in SUBSET D
  OBVIOUS
<1>2. Confusion(rows, t) = [tp |-> Cardinality(tp), fn |-> Cardinality(fn), fp |-> Cardinality(fp), tn |-> Cardinality(tn)]
  BY DEF Confusion, Rows, Quantify
<1> HIDE DEF D, tp, fn, fp, tn
<1>3. IsFiniteSet(D)
  BY DEF D
<1>4. IsFiniteSet(tp) /\ IsFiniteSet(fn) /\ IsFiniteSet(fp) /\ IsFiniteSet(tn)
  BY <1>1, <1>3, FS_Subset
<1>5. Cardinality(tp) \in Nat /\ Cardinality(fn) \in Nat /\ Cardinality(fp) \in Nat /\ Cardinality(tn) \in Nat
  BY <1>4, FS_CardinalityType
<1> QED
  BY <1>2, <1>5

\* Whatever the threshold, the flagged and the others of a label are all of that label.
LEMMA CountsAddUp ==
  ASSUME NEW rows, IsFiniteSet(DOMAIN rows), Scores01(rows), NEW t \in Int
  PROVE  LET c == Confusion(rows, t)
         IN  c.tp + c.fn = Labelled(rows, 1) /\ c.fp + c.tn = Labelled(rows, 0)
<1> DEFINE D == DOMAIN rows
           of(y) == {i \in D : rows[i].label = y}
           hit(y) == {i \in D : rows[i].label = y /\ rows[i].score >= t}
           miss(y) == {i \in D : rows[i].label = y /\ rows[i].score < t}
<1>1. Confusion(rows, t) = [tp |-> Cardinality(hit(1)), fn |-> Cardinality(miss(1)),
                            fp |-> Cardinality(hit(0)), tn |-> Cardinality(miss(0))]
  BY DEF Confusion, Rows, Quantify
<1>2. ASSUME NEW y \in {0, 1} PROVE Cardinality(hit(y)) + Cardinality(miss(y)) = Cardinality(of(y))
  <2>1. hit(y) \in SUBSET D /\ miss(y) \in SUBSET D
    OBVIOUS
  <2>2. hit(y) \cup miss(y) = of(y) /\ hit(y) \cap miss(y) = {}
    <3>1. \A i \in D : rows[i].score \in Int /\ t \in Int
      BY DEF Scores01
    <3>2. \A i \in D : (rows[i].score >= t \/ rows[i].score < t) /\ ~(rows[i].score >= t /\ rows[i].score < t)
      BY <3>1
    <3> QED
      BY <3>2
  <2> DEFINE A == hit(y)
             B == miss(y)
  <2>3. IsFiniteSet(D)
    OBVIOUS
  <2> HIDE DEF hit, miss, D
  <2>4. IsFiniteSet(A) /\ IsFiniteSet(B)
    BY <2>1, <2>3, FS_Subset
  <2> HIDE DEF A, B
  <2>5. Cardinality(A \cup B) = Cardinality(A) + Cardinality(B) - Cardinality(A \cap B)
    BY <2>4, FS_Union
  <2>6. Cardinality(A \cap B) = 0
    BY <2>2, FS_EmptySet DEF A, B
  <2>7. Cardinality(A) \in Nat /\ Cardinality(B) \in Nat
    BY <2>4, FS_CardinalityType
  <2>8. Cardinality(A \cup B) = Cardinality(A) + Cardinality(B)
    BY <2>5, <2>6, <2>7
  <2>9. A \cup B = of(y)
    BY <2>2 DEF A, B
  <2> HIDE DEF of
  <2> QED
    BY <2>8, <2>9 DEF A, B
<1>3. Labelled(rows, 0) = Cardinality(of(0)) /\ Labelled(rows, 1) = Cardinality(of(1))
  BY DEF Labelled
<1> HIDE DEF hit, miss, of, D
<1> QED
  BY <1>1, <1>2, <1>3

LEMMA MetricsAre ==
  ASSUME NEW rows, IsFiniteSet(DOMAIN rows), NEW t
  PROVE  LET m == BinaryMetrics(rows, t)
             c == Confusion(rows, t)
         IN  /\ m.threshold = t /\ m.tp = c.tp /\ m.fp = c.fp
             /\ m.f1 = Rate(2 * c.tp, 2 * c.tp + c.fp + c.fn) /\ m.fpr = Rate(c.fp, c.fp + c.tn)
             /\ m.f1 \in Int /\ m.recall \in Int /\ m.fpr \in Int /\ m.fpr <= 10000
<1> DEFINE c == Confusion(rows, t)
           m == BinaryMetrics(rows, t)
<1>1. c.tp \in Nat /\ c.fn \in Nat /\ c.fp \in Nat /\ c.tn \in Nat
  BY ConfusionIs
<1>2. /\ m.threshold = t /\ m.tp = c.tp /\ m.fp = c.fp /\ m.recall = Rate(c.tp, c.tp + c.fn)
      /\ m.f1 = Rate(2 * c.tp, 2 * c.tp + c.fp + c.fn) /\ m.fpr = Rate(c.fp, c.fp + c.tn)
  BY DEF BinaryMetrics
<1> HIDE DEF c, m
<1> DEFINE a == c.tp
           b == c.fp
           n == 2 * c.tp
           d == 2 * c.tp + c.fp + c.fn
           e == c.tp + c.fn
           f == c.fp + c.tn
<1>3. a \in Nat /\ b \in Nat /\ n \in Nat /\ d \in Nat /\ e \in Nat /\ f \in Nat /\ b <= f
  BY <1>1
<1>4. m.f1 = Rate(n, d) /\ m.recall = Rate(a, e) /\ m.fpr = Rate(b, f)
  BY <1>2
<1> HIDE DEF a, b, n, d, e, f
<1>5. m.f1 \in Int /\ m.recall \in Int
  <2>1. Rate(n, d) \in Int
    BY <1>3, RateIs
  <2>2. Rate(a, e) \in Int
    BY <1>3, RateIs
  <2> QED
    BY <1>4, <2>1, <2>2
<1>6. m.fpr \in Int /\ m.fpr <= 10000
  BY <1>3, <1>4, RateIs
<1> QED
  BY <1>2, <1>5, <1>6 DEF c, m

\* The chosen point keeps the cap if any point does, and of those that do it is the best.
LEMMA BestIs ==
  ASSUME NEW rows, IsFiniteSet(DOMAIN rows), NEW objective \in {"f1", "recall"}, NEW cap
  PROVE  LET best == BestThreshold(rows, objective, cap)
         IN  /\ \E t \in Grid : best = BinaryMetrics(rows, t)
             /\ \A t \in Grid : LET m == BinaryMetrics(rows, t)
                               IN  m.fpr <= cap => best.fpr <= cap /\ m[objective] <= best[objective]
<1> DEFINE at == [t \in Grid |-> BinaryMetrics(rows, t)]
           sweep == {at[t] : t \in Grid}
           eligible == {m \in sweep : m.fpr <= cap}
           pool == IF eligible = {} THEN sweep ELSE eligible
           T == {t \in Grid : at[t] \in pool}
           best == BestThreshold(rows, objective, cap)
<1>1. /\ Grid \subseteq Int /\ IsFiniteSet(Grid) /\ Threshold \in Grid
  BY SetsAssumption
<1>2. \A t \in Grid : /\ at[t].f1 \in Int /\ at[t].recall \in Int /\ at[t].fpr \in Int
                     /\ at[t].threshold = t
  BY MetricsAre
<1>3. \A t \in Grid : at[t][objective] \in Int
  BY <1>2
<1>4. best = CHOOSE m \in pool : \A n \in pool : Beats(m, n, objective)
  BY DEF BestThreshold, Sweep
<1> HIDE DEF at, best
<1>5. IsFiniteSet(T) /\ T # {}
  <2>1. T \in SUBSET Grid /\ T # {}
    BY <1>1
  <2> QED
    BY <1>1, <2>1, FS_Subset
<1>6. pool = {at[t] : t \in T}
  OBVIOUS
<1> HIDE DEF T, pool
<1>7. T \subseteq Grid
  BY DEF T
<1>8. PICK x \in T : \A u \in T : at[u][objective] <= at[x][objective]
  <2> DEFINE g == [t \in T |-> at[t][objective]]
  <2>1. DOMAIN g = T /\ \A t \in T : g[t] \in Int
    BY <1>3, <1>7
  <2>2. \E t \in T : \A u \in T : g[u] <= g[t]
    <3> HIDE DEF g
    <3> QED
      BY <1>5, <2>1, Foremost
  <2> QED
    BY <2>2
<1> DEFINE T2 == {t \in T : at[t][objective] = at[x][objective]}
<1>9. T2 \in SUBSET T /\ x \in T2 /\ IsFiniteSet(T2)
  BY <1>5, <1>8, FS_Subset
<1>10. PICK y \in T2 : \A u \in T2 : at[y].fpr <= at[u].fpr
  <2> DEFINE g == [t \in T2 |-> -at[t].fpr]
  <2>1. \A t \in T2 : g[t] \in Int /\ at[t].fpr \in Int /\ g[t] = -at[t].fpr
    BY <1>2, <1>7
  <2>2. DOMAIN g = T2 /\ T2 # {}
    BY <1>9
  <2>3. PICK t \in T2 : \A u \in T2 : g[u] <= g[t]
    <3> HIDE DEF g, T2
    <3> QED
      BY <1>9, <2>1, <2>2, Foremost
  <2> HIDE DEF g, T2
  <2>4. \A u \in T2 : at[t].fpr <= at[u].fpr
    BY <2>1, <2>3
  <2> QED
    BY <2>4
<1> DEFINE T3 == {t \in T2 : at[t].fpr = at[y].fpr}
<1>11. T3 \in SUBSET T2 /\ y \in T3 /\ IsFiniteSet(T3)
  BY <1>9, <1>10, FS_Subset
<1>12. PICK z \in T3 : \A u \in T3 : u <= z
  <2>1. T3 \in SUBSET Int
    BY <1>1, <1>7
  <2> HIDE DEF T3
  <2> QED
    BY <1>11, <2>1, FiniteMax
<1>13. at[z] \in pool /\ \A n \in pool : Beats(at[z], n, objective)
  <2>1. z \in T2 /\ z \in T /\ z \in Grid /\ at[z][objective] = at[x][objective] /\ at[z].fpr = at[y].fpr
    BY <1>7, <1>9, <1>12
  <2>2. ASSUME NEW u \in T PROVE Beats(at[z], at[u], objective)
    <3>1. /\ u \in Grid /\ at[u][objective] \in Int /\ at[z][objective] \in Int /\ at[u].fpr \in Int
          /\ at[z].fpr \in Int /\ at[u].threshold = u /\ at[z].threshold = z /\ u \in Int /\ z \in Int
      BY <1>1, <1>2, <1>3, <1>7, <2>1
    <3>2. at[u][objective] <= at[z][objective]
      BY <1>8, <2>1
    <3>3. u \in T2 => at[z].fpr <= at[u].fpr
      BY <1>10, <2>1
    <3>4. u \in T3 => u <= z
      BY <1>12
    <3>5. CASE u \in T3
      <4>1. at[u][objective] = at[z][objective] /\ at[u].fpr = at[z].fpr
        BY <2>1, <3>5
      <4> QED
        BY <3>1, <3>4, <3>5, <4>1 DEF Beats
    <3>6. CASE u \in T2 /\ u \notin T3
      <4>1. at[u][objective] = at[z][objective] /\ at[u].fpr # at[z].fpr
        BY <2>1, <3>6
      <4>2. at[z].fpr < at[u].fpr
        BY <3>1, <3>3, <3>6, <4>1
      <4> QED
        BY <4>1, <4>2 DEF Beats
    <3>7. CASE u \notin T2
      <4>1. at[u][objective] # at[z][objective]
        BY <2>1, <3>7
      <4>2. at[z][objective] > at[u][objective]
        BY <3>1, <3>2, <4>1
      <4> QED
        BY <4>2 DEF Beats
    <3> QED
      BY <3>5, <3>6, <3>7
  <2> QED
    BY <1>6, <2>1, <2>2
<1>14. best \in pool /\ \A n \in pool : Beats(best, n, objective)
  BY <1>4, <1>13
<1>15. PICK s \in T : best = at[s]
  BY <1>6, <1>14
<1>16. s \in Grid /\ best = BinaryMetrics(rows, s)
  BY <1>7, <1>15 DEF at
<1>17. ASSUME NEW t \in Grid, at[t].fpr <= cap PROVE best.fpr <= cap /\ at[t][objective] <= best[objective]
  <2>1. pool = eligible /\ at[t] \in pool
    BY <1>17 DEF pool
  <2>2. best.fpr <= cap
    BY <1>14, <2>1
  <2>3. Beats(best, at[t], objective)
    BY <1>14, <2>1
  <2>4. at[t][objective] \in Int /\ best[objective] \in Int
    BY <1>3, <1>7, <1>15
  <2> QED
    BY <2>2, <2>3, <2>4 DEF Beats
<1> QED
  BY <1>16, <1>17 DEF at, best

-----------------------------------------------------------------------------
(* What the sets on disk hold, and which command runs                        *)

IsRows(rows) == IsList(rows) /\ TextsOf(rows) \subseteq Sentences /\ Len(rows) <= Longest

\* No set is longer than the longest.
LEMMA LongestIs ==
  /\ Longest \in Nat /\ Len(Bundled) <= Longest
  /\ \A n \in DOMAIN Hub : Len(Hub[n]) <= Longest
<1> DEFINE L == [n \in DOMAIN Hub |-> Len(Hub[n])]
           S == {Len(Bundled)} \cup {L[n] : n \in DOMAIN Hub}
<1>1. Len(Bundled) \in Nat /\ \A n \in DOMAIN Hub : Len(Hub[n]) \in Nat
  BY SetsAssumption, ListIs
<1>2. IsFiniteSet({L[n] : n \in DOMAIN Hub})
  <2> HIDE DEF L
  <2>1. DOMAIN L = DOMAIN Hub
    BY DEF L
  <2> QED
    BY <2>1, SetsAssumption, FiniteImage
<1>3. IsFiniteSet(S) /\ S \subseteq Nat /\ S # {}
  <2>1. IsFiniteSet({Len(Bundled)})
    BY FS_Singleton
  <2> QED
    BY <1>1, <1>2, <2>1, FS_Union
<1>4. Longest = Max(S)
  BY DEF Longest
<1>5. \E x \in S : \A y \in S : y <= x
  <2> HIDE DEF S
  <2>1. S \in SUBSET Int
    BY <1>3
  <2> QED
    BY <1>3, <2>1, FiniteMax
<1>6. Longest \in S /\ \A y \in S : y <= Longest
  <2> HIDE DEF S
  <2>1. \E x \in S : \A y \in S : x >= y
    BY <1>3, <1>5
  <2>2. Max(S) \in S /\ \A y \in S : Max(S) >= y
    BY <2>1 DEF Max
  <2> QED
    BY <1>3, <1>4, <2>2
<1> QED
  BY <1>1, <1>3, <1>6

\* What _adapt() writes: pairs of the set, labelled, no more than the limit.
LEMMA AdaptedIs ==
  ASSUME NEW n \in DOMAIN Hub, NEW limit \in Nat
  PROVE  LET rows == Adapted(n, limit)
         IN  /\ IsRows(rows) /\ \A i \in DOMAIN rows : rows[i].label \in {0, 1}
             /\ limit # 0 => Len(rows) <= limit
<1> DEFINE all == Hub[n]
           m == Min({limit, Len(all)})
           some == IF limit = 0 THEN all ELSE SubSeq(all, 1, m)
           P == {r \in Range(some) : r.grade >= 40 \/ r.grade <= 30}
           clear == Those(some, P)
           rows == Adapted(n, limit)
<1>1. IsList(all) /\ Len(all) \in Nat
  BY SetsAssumption, ListIs
<1>2. m \in Nat /\ m <= limit /\ m \in 0 .. Len(all)
  BY <1>1, MinOfTwo
<1>3. rows = [i \in DOMAIN clear |->
         [a |-> clear[i].a, b |-> clear[i].b, label |-> IF clear[i].grade >= 40 THEN 1 ELSE 0,
          stratum |-> IF n \in Graded THEN "graded"
                      ELSE IF (IF clear[i].grade >= 40 THEN 1 ELSE 0) = 1 THEN "paraphrase" ELSE "non_paraphrase"]]
  BY DEF Adapted
<1> HIDE DEF all, m, rows
<1>4. /\ IsList(some) /\ Range(some) \subseteq Range(all) /\ (limit # 0 => Len(some) <= limit)
      /\ Len(some) \in Nat /\ Len(some) <= Len(all)
  BY <1>1, <1>2, FirstOf
<1> HIDE DEF some, P
<1>5. /\ IsList(clear) /\ Range(clear) \subseteq Range(all) /\ Len(clear) \in Nat /\ Len(some) \in Nat
      /\ DOMAIN clear = 1 .. Len(clear) /\ Len(clear) <= Len(some)
  <2>1. some \in Seq(Range(some))
    BY <1>4 DEF IsList
  <2>2. clear \in Seq(Range(some)) /\ Range(clear) = Range(some) \cap P /\ Len(clear) <= Len(some)
    BY <2>1, ThoseAre, ThoseShorter
  <2> HIDE DEF clear
  <2>3. IsList(clear)
    BY <2>2, ListOf
  <2> QED
    BY <1>4, <2>2, <2>3, ListIs
<1> HIDE DEF clear
<1>6. IsList(rows) /\ Len(rows) = Len(clear) /\ DOMAIN rows = 1 .. Len(clear)
  <2>1. rows = [i \in 1 .. Len(clear) |-> rows[i]]
    BY <1>3, <1>5
  <2> QED
    BY <1>5, <2>1, Listed
<1>7. \A i \in 1 .. Len(clear) : /\ rows[i].a = clear[i].a /\ rows[i].b = clear[i].b
                                /\ rows[i].label \in {0, 1}
  BY <1>3, <1>5
<1>8. TextsOf(rows) \subseteq Sentences
  <2> SUFFICES ASSUME NEW i \in 1 .. Len(clear) PROVE rows[i].a \in Sentences /\ rows[i].b \in Sentences
    BY <1>6 DEF TextsOf
  <2>1. clear[i] \in Range(all)
    BY <1>5 DEF Range
  <2>2. PICK j \in DOMAIN all : clear[i] = all[j]
    BY <2>1 DEF Range
  <2>3. {all[j].a, all[j].b} \subseteq TextsOf(all)
    BY DEF TextsOf
  <2>4. TextsOf(all) \subseteq Sentences
    BY DEF Sentences, all
  <2> QED
    BY <1>7, <2>2, <2>3, <2>4
<1> QED
  <2>1. Len(rows) <= Longest /\ (limit # 0 => Len(rows) <= limit)
    <3>1. Longest \in Nat /\ Len(all) <= Longest
      BY LongestIs DEF all
    <3> QED
      BY <1>1, <1>4, <1>5, <1>6, <3>1
  <2> QED
    BY <1>6, <1>7, <1>8, <2>1 DEF IsRows, rows

\* A set on disk is absent, torn, or rows of sentences that are known.
OnDisk ==
  /\ DOMAIN disk = Datasets /\ IsRows(disk["sample"])
  /\ \A n \in Datasets : disk[n] \in {Absent, Torn} \/ IsRows(disk[n])

KnownCommand == command \in Commands \/ (command.kind = "none" /\ exit = "ended")

Bench == OnDisk /\ KnownCommand /\ IsList(reports)

LEMMA SampleIs == IsRows(Bundled)
  BY SetsAssumption, LongestIs DEF IsRows, Sentences

LEMMA BenchStarts == BenchInit => Bench
<1> SUFFICES ASSUME BenchInit PROVE Bench
  OBVIOUS
<1>1. OnDisk
  BY SampleIs DEF BenchInit, OnDisk, Datasets
<1>2. IsList(<<>>)
  BY DEF IsList
<1> QED
  BY <1>1, <1>2 DEF BenchInit, Bench, KnownCommand

\* Only a fetch writes to the disk.
LEMMA Written ==
  ASSUME Bench, NEW n \in DOMAIN Hub, NEW rows, disk' = [disk EXCEPT ![n] = rows],
         rows = Torn \/ IsRows(rows)
  PROVE  OnDisk'
<1>1. n \in Datasets /\ n # "sample" /\ "sample" \in Datasets
  BY SetsAssumption DEF Datasets
<1>2. DOMAIN disk' = Datasets /\ disk'[n] = rows /\ \A x \in Datasets \ {n} : disk'[x] = disk[x]
  BY <1>1 DEF Bench, OnDisk
<1>3. ASSUME NEW x \in Datasets PROVE disk'[x] \in {Absent, Torn} \/ IsRows(disk'[x])
  <2>1. CASE x = n
    BY <1>2, <2>1
  <2>2. CASE x # n
    BY <1>2, <2>2 DEF Bench, OnDisk
  <2> QED
    BY <2>1, <2>2
<1>4. IsRows(disk'["sample"])
  BY <1>1, <1>2 DEF Bench, OnDisk
<1> QED
  BY <1>2, <1>3, <1>4 DEF OnDisk

LEMMA CommandIs ==
  ASSUME Bench, NEW kind \in {"fetch", "pairs", "corpus", "tune"}, command.kind = kind
  PROVE  command \in Commands /\ IsList(command.datasets)
<1>1. command \in Commands
  BY DEF Bench, KnownCommand
<1> QED
  BY <1>1, CommandsAssumption

LEMMA BenchKept == Bench /\ [BenchNext]_benchVars => Bench'
<1> SUFFICES ASSUME Bench, [BenchNext]_benchVars PROVE Bench'
  OBVIOUS
<1> USE DEF Bench
<1>1. CASE UNCHANGED benchVars
  BY <1>1 DEF benchVars, OnDisk, KnownCommand
<1>2. ASSUME NEW c \in Commands, Start(c) PROVE Bench'
  <2>1. IsList(<<>>)
    BY DEF IsList
  <2> QED
    BY <1>2, <2>1 DEF Start, OnDisk, KnownCommand
<1>3. CASE Fetch \/ FetchInterrupted
  <2> DEFINE n == Head(todo)
             rows == Adapted(n, command.limit)
  <2>1. n \in DOMAIN Hub /\ command.kind = "fetch"
    BY <1>3 DEF Fetch, FetchInterrupted, Running
  <2>2. command \in Commands /\ command.limit \in Nat
    BY <2>1, CommandIs, CommandsAssumption
  <2>3. IsRows(rows)
    BY <2>1, <2>2, AdaptedIs
  <2>4. ASSUME NEW i \in 0 .. Len(rows) PROVE IsRows(SubSeq(rows, 1, i))
    <3> DEFINE some == SubSeq(rows, 1, i)
    <3>1. IsList(rows)
      BY <2>3 DEF IsRows
    <3> HIDE DEF rows
    <3>2. IsList(some) /\ Len(some) = i /\ \A j \in 1 .. i : j \in DOMAIN rows /\ some[j] = rows[j]
      BY <3>1, FirstOf
    <3>3. DOMAIN some = 1 .. i
      BY <3>2, ListIs
    <3>4. TextsOf(some) \subseteq TextsOf(rows)
      BY <3>2, <3>3 DEF TextsOf
    <3>5. Len(some) <= Longest
      <4>1. Longest \in Nat /\ Len(rows) <= Longest /\ Len(rows) \in Nat
        BY <2>3, <3>1, LongestIs, ListIs DEF IsRows
      <4> QED
        BY <3>2, <4>1
    <3> QED
      BY <2>3, <3>2, <3>4, <3>5 DEF IsRows
  <2> HIDE DEF n, rows
  <2>5. UNCHANGED <<command, reports>> /\ OnDisk'
    <3>1. CASE Fetch
      <4>1. disk' = [disk EXCEPT ![n] = rows]
        BY <3>1 DEF Fetch, n, rows
      <4> QED
        BY <2>1, <2>3, <3>1, <4>1, Written DEF Fetch
    <3>2. CASE FetchInterrupted
      <4>1. PICK r \in {SubSeq(rows, 1, i) : i \in 0 .. Len(rows)} \cup {Torn} : disk' = [disk EXCEPT ![n] = r]
        BY <3>2 DEF FetchInterrupted, n, rows
      <4>2. r = Torn \/ IsRows(r)
        BY <2>4, <4>1
      <4> QED
        BY <2>1, <3>2, <4>1, <4>2, Written DEF FetchInterrupted
    <3> QED
      BY <1>3, <3>1, <3>2
  <2> QED
    BY <2>2, <2>5 DEF KnownCommand
<1>4. ASSUME UNCHANGED <<disk, command>>, command \in Commands, UNCHANGED reports \/ \E r : reports' = Append(reports, r)
      PROVE  Bench'
  <2>1. IsList(reports')
    <3>1. CASE UNCHANGED reports
      BY <3>1
    <3>2. CASE \E r : reports' = Append(reports, r)
      <4>1. PICK r : reports' = Append(reports, r)
        BY <3>2
      <4> QED
        BY <4>1, LongerList
    <3> QED
      BY <1>4, <3>1, <3>2
  <2> QED
    BY <1>4, <2>1 DEF OnDisk, KnownCommand
<1>5. CASE PairsSkip \/ PairsRun \/ PairsCrash \/ PairsEnd
  <2>1. UNCHANGED <<disk, command>> /\ command.kind = "pairs"
    BY <1>5 DEF PairsSkip, PairsRun, PairsCrash, PairsEnd, Passes, Ends, Running
  <2>2. UNCHANGED reports \/ \E r : reports' = Append(reports, r)
    BY <1>5 DEF PairsSkip, PairsRun, PairsCrash, PairsEnd, Passes, Ends
  <2> QED
    BY <1>4, <2>1, <2>2, CommandIs
<1>6. CASE PairsFallback
  <2>1. UNCHANGED <<disk, command>> /\ command.kind = "pairs"
    BY <1>6 DEF PairsFallback, Running
  <2>2. reports = <<>> /\ reports' = Append(<<>>, PairsReport("sample"))
    BY <1>6 DEF PairsFallback
  <2>3. UNCHANGED reports \/ \E r : reports' = Append(reports, r)
    BY <2>2
  <2> QED
    BY <1>4, <2>1, <2>3, CommandIs
<1>7. CASE CorpusRun \/ CorpusSkip \/ CorpusEnd
  <2>1. UNCHANGED <<disk, command>> /\ command.kind = "corpus"
    BY <1>7 DEF CorpusRun, CorpusSkip, CorpusEnd, Passes, Ends, Reports, Running
  <2>2. UNCHANGED reports \/ \E r : reports' = Append(reports, r)
    BY <1>7 DEF CorpusRun, CorpusSkip, CorpusEnd, Passes, Ends, Reports
  <2> QED
    BY <1>4, <2>1, <2>2, CommandIs
<1>8. CASE TuneUnknown \/ Tune \/ TuneEnd
  <2>1. UNCHANGED <<disk, command>> /\ command.kind = "tune"
    BY <1>8 DEF TuneUnknown, Tune, TuneEnd, Ends, Reports, Running
  <2>2. UNCHANGED reports \/ \E r : reports' = Append(reports, r)
    BY <1>8 DEF TuneUnknown, Tune, TuneEnd, Ends, Reports
  <2> QED
    BY <1>4, <2>1, <2>2, CommandIs
<1>9. CASE FetchUnknown \/ FetchEnd
  <2>1. UNCHANGED <<disk, command, reports>> /\ command.kind = "fetch"
    BY <1>9 DEF FetchUnknown, FetchEnd, Passes, Ends, Running
  <2> QED
    BY <1>4, <2>1, CommandIs
<1> QED
  BY <1>1, <1>2, <1>3, <1>5, <1>6, <1>7, <1>8, <1>9 DEF BenchNext

-----------------------------------------------------------------------------
(* run_pairs.py: the exit code and the sweep                                 *)

\* What is left of a command's datasets after k of them.
Rest(k) == SubSeq(command.datasets, k + 1, Len(command.datasets))

\* A set that is there and does not meet its rule.
Misses(n) == Fetched(n) /\ ~EvaluateGate(n, Scored(command.model, disk[n])).passed

MissesAny(k) == \E i \in 1 .. k : Misses(command.datasets[i])

\* any_fail is what the datasets so far amount to, and the exit code follows it.
PairsSoFar ==
  command.kind = "pairs" /\ exit \in {"running", "ok", "failed"} =>
    \E k \in 0 .. Len(command.datasets) :
      /\ todo = Rest(k) /\ failed \in BOOLEAN
      /\ failed <=> (command.gate /\ MissesAny(k))
      /\ exit # "running" => k = Len(command.datasets) /\ (exit = "ok" <=> ~failed)

LEMMA PairsStart == BenchInit => PairsSoFar
  BY DEF BenchInit, PairsSoFar

LEMMA PairsKept == Bench /\ PairsSoFar /\ [BenchNext]_benchVars => PairsSoFar'
<1> SUFFICES ASSUME Bench, PairsSoFar, [BenchNext]_benchVars PROVE PairsSoFar'
  OBVIOUS
<1> DEFINE ds == command.datasets
           Known == ds' = ds /\ command' = command /\ disk' = disk
<1>1. ASSUME UNCHANGED <<command, disk>> PROVE \A k : Rest(k)' = Rest(k) /\ (MissesAny(k)' <=> MissesAny(k))
  BY <1>1 DEF Rest, MissesAny, Misses, Fetched, Datasets, EvaluateGate, Scored
<1>2. CASE UNCHANGED benchVars
  BY <1>1, <1>2 DEF benchVars, PairsSoFar
<1>3. ASSUME NEW c \in Commands, Start(c), c.kind = "pairs" PROVE PairsSoFar'
  <2>1. /\ command' = c /\ todo' = c.datasets /\ failed' = FALSE /\ exit' = "running"
    BY <1>3 DEF Start, StepsOf
  <2>2. IsList(c.datasets)
    BY CommandsAssumption
  <2>3. 0 \in 0 .. Len(c.datasets) /\ SubSeq(c.datasets, 0 + 1, Len(c.datasets)) = c.datasets
    BY <2>2, ListIs, RestIs
  <2>4. ~MissesAny(0)'
    BY DEF MissesAny
  <2>5. Rest(0)' = todo'
    BY <2>1, <2>3 DEF Rest
  <2> QED
    BY <2>1, <2>3, <2>4, <2>5 DEF PairsSoFar
<1>4. ASSUME command'.kind # "pairs" PROVE PairsSoFar'
  BY <1>4 DEF PairsSoFar
<1>5. ASSUME NEW k \in 0 .. Len(command.datasets), command.kind = "pairs", todo = Rest(k), todo # <<>>
      PROVE  /\ k + 1 \in 0 .. Len(command.datasets) /\ Head(todo) = command.datasets[k + 1]
             /\ Tail(todo) = Rest(k + 1)
             /\ MissesAny(k + 1) <=> (MissesAny(k) \/ Misses(Head(todo)))
  <2>1. IsList(command.datasets)
    BY <1>5, CommandIs
  <2>2. Len(command.datasets) \in Nat
    BY <2>1, ListIs
  <2>3. k # Len(command.datasets)
    BY <1>5, <2>1, RestIs DEF Rest
  <2>4. k \in 0 .. Len(command.datasets) - 1 /\ k + 1 \in 0 .. Len(command.datasets) /\ (k + 1) + 1 = k + 2
    BY <2>2, <2>3
  <2>5. Head(todo) = command.datasets[k + 1] /\ Tail(todo) = Rest(k + 1)
    <3>1. todo = SubSeq(ds, k + 1, Len(ds))
      BY <1>5 DEF Rest
    <3>2. /\ Head(SubSeq(ds, k + 1, Len(ds))) = ds[k + 1]
          /\ Tail(SubSeq(ds, k + 1, Len(ds))) = SubSeq(ds, k + 2, Len(ds))
      BY <2>1, <2>4, RestIs
    <3>3. Rest(k + 1) = SubSeq(ds, k + 2, Len(ds))
      BY <2>4 DEF Rest
    <3> QED
      BY <3>1, <3>2, <3>3
  <2>6. \A i : i \in 1 .. k + 1 <=> (i \in 1 .. k \/ i = k + 1)
    BY <2>2
  <2> QED
    BY <2>4, <2>5, <2>6 DEF MissesAny
<1>6. ASSUME PairsSkip \/ PairsRun PROVE PairsSoFar'
  <2>1. /\ command.kind = "pairs" /\ exit = "running" /\ todo # <<>> /\ todo' = Tail(todo)
        /\ UNCHANGED <<disk, command, exit>>
    BY <1>6 DEF PairsSkip, PairsRun, Passes, Running
  <2>2. PICK k \in 0 .. Len(command.datasets) :
          todo = Rest(k) /\ failed \in BOOLEAN /\ (failed <=> (command.gate /\ MissesAny(k)))
    BY <2>1 DEF PairsSoFar
  <2>3. /\ k + 1 \in 0 .. Len(command.datasets) /\ Tail(todo) = Rest(k + 1)
        /\ MissesAny(k + 1) <=> (MissesAny(k) \/ Misses(Head(todo)))
    BY <1>5, <2>1, <2>2
  <2>4. failed' \in BOOLEAN /\ (failed' <=> (command.gate /\ MissesAny(k + 1)))
    <3>1. CASE PairsSkip
      <4>1. ~Misses(Head(todo)) /\ failed' = failed
        BY <3>1 DEF PairsSkip, Passes, Misses
      <4> QED
        BY <2>2, <2>3, <4>1
    <3>2. CASE PairsRun
      <4> DEFINE r == PairsReport(Head(todo))
      <4>1. failed' = (failed \/ (command.gate /\ ~r.gates_pass)) /\ Fetched(Head(todo))
        BY <3>2 DEF PairsRun
      <4>2. r.gates_pass = EvaluateGate(Head(todo), Scored(command.model, disk[Head(todo)])).passed
        BY DEF PairsReport
      <4> HIDE DEF r
      <4>3. Misses(Head(todo)) <=> ~r.gates_pass
        BY <4>1, <4>2 DEF Misses
      <4> QED
        BY <2>2, <2>3, <4>1, <4>3
    <3> QED
      BY <1>6, <3>1, <3>2
  <2>5. Rest(k + 1)' = Rest(k + 1) /\ (MissesAny(k + 1)' <=> MissesAny(k + 1))
    BY <1>1, <2>1
  <2> QED
    BY <2>1, <2>3, <2>4, <2>5 DEF PairsSoFar
<1>7. ASSUME PairsFallback PROVE PairsSoFar'
  <2>1. command.kind = "pairs" /\ UNCHANGED <<disk, command, todo, failed, exit>>
    BY <1>7 DEF PairsFallback, Running
  <2> QED
    BY <1>1, <2>1 DEF PairsSoFar
<1>8. ASSUME PairsEnd PROVE PairsSoFar'
  <2>1. /\ command.kind = "pairs" /\ exit = "running" /\ todo = <<>> /\ UNCHANGED <<disk, command, todo, failed>>
        /\ exit' = IF failed THEN "failed" ELSE "ok"
    BY <1>8 DEF PairsEnd, Ends, Running
  <2>2. PICK k \in 0 .. Len(command.datasets) :
          todo = Rest(k) /\ failed \in BOOLEAN /\ (failed <=> (command.gate /\ MissesAny(k)))
    BY <2>1 DEF PairsSoFar
  <2>3. k = Len(command.datasets)
    BY <2>1, <2>2, CommandIs, RestIs DEF Rest
  <2>4. Rest(k)' = Rest(k) /\ (MissesAny(k)' <=> MissesAny(k))
    BY <1>1, <2>1
  <2> QED
    BY <2>1, <2>2, <2>3, <2>4 DEF PairsSoFar
<1>9. CASE PairsCrash
  BY <1>9 DEF PairsCrash, Ends, PairsSoFar
<1>10. CASE \E c \in Commands : Start(c)
  <2>1. PICK c \in Commands : Start(c)
    BY <1>10
  <2>2. command' = c
    BY <2>1 DEF Start
  <2> QED
    BY <1>3, <1>4, <2>1, <2>2
<1>11. CASE FetchUnknown \/ Fetch \/ FetchInterrupted \/ FetchEnd
  BY <1>4, <1>11 DEF FetchUnknown, Fetch, FetchInterrupted, FetchEnd, Passes, Ends, Running
<1>12. CASE CorpusRun \/ CorpusSkip \/ CorpusEnd
  BY <1>4, <1>12 DEF CorpusRun, CorpusSkip, CorpusEnd, Passes, Ends, Reports, Running
<1>13. CASE TuneUnknown \/ Tune \/ TuneEnd
  BY <1>4, <1>13 DEF TuneUnknown, Tune, TuneEnd, Ends, Reports, Running
<1> QED
  BY <1>2, <1>6, <1>7, <1>8, <1>9, <1>10, <1>11, <1>12, <1>13 DEF BenchNext

LEMMA HonestGate == Bench /\ PairsSoFar => GateIsHonest
<1> SUFFICES ASSUME Bench, PairsSoFar, command.kind = "pairs", exit \in {"ok", "failed"}
             PROVE  exit = "ok" <=>
                      (command.gate => \A n \in Range(command.datasets) \cap DOMAIN Rules :
                         Fetched(n) => LET m == BinaryMetrics(Scored(command.model, disk[n]), Confident)
                                       IN  m.recall >= Rules[n].min_recall /\ m.fpr <= Rules[n].max_fpr)
  BY DEF GateIsHonest
<1>1. exit = "ok" <=> ~(command.gate /\ MissesAny(Len(command.datasets)))
  BY DEF PairsSoFar
<1>2. DOMAIN command.datasets = 1 .. Len(command.datasets)
  BY CommandIs, ListIs
<1> DEFINE Meets(n) == LET m == BinaryMetrics(Scored(command.model, disk[n]), Confident)
                       IN  m.recall >= Rules[n].min_recall /\ m.fpr <= Rules[n].max_fpr
<1>3. \A n : Misses(n) <=> (Fetched(n) /\ n \in DOMAIN Rules /\ ~Meets(n))
  BY DEF Misses, EvaluateGate
<1> HIDE DEF Meets
<1>4. MissesAny(Len(command.datasets)) <=> \E n \in Range(command.datasets) : Misses(n)
  BY <1>2 DEF MissesAny, Range
<1>5. exit = "ok" <=> (command.gate => \A n \in Range(command.datasets) \cap DOMAIN Rules : Fetched(n) => Meets(n))
  BY <1>1, <1>3, <1>4
<1> QED
  BY <1>5 DEF Meets

\* A report whose sweep does no worse than the two points beside it.
SweepFine(r) ==
  \A m \in {r.at, r.gate} :
    /\ r.best_f1.f1 >= m.f1
    /\ m.fpr <= MaxFpr => (r.best_recall.fpr <= MaxFpr /\ r.best_recall.recall >= m.recall)

\* Both points are in the sweep, and no rate is above one, so the sweep for F1 has no cap.
LEMMA ReportFine == ASSUME NEW n, IsRows(disk[n]) PROVE SweepFine(PairsReport(n))
<1> DEFINE rows == Scored(command.model, disk[n])
           r == PairsReport(n)
           best == BestThreshold(rows, "f1", 10000)
           bestRecall == BestThreshold(rows, "recall", MaxFpr)
           at(t) == BinaryMetrics(rows, t)
<1>1. IsFiniteSet(DOMAIN rows)
  BY ListIs DEF IsRows, Scored
<1>2. /\ r.best_f1 = best /\ r.best_recall = bestRecall
      /\ r.at = at(Threshold) /\ r.gate = at(Confident)
  BY DEF PairsReport, EvaluateGate
<1> HIDE DEF rows, r
<1>3. \A t \in Grid : /\ at(t).f1 \in Int /\ at(t).recall \in Int /\ at(t).fpr \in Int /\ at(t).fpr <= 10000
  BY <1>1, MetricsAre
<1>4. /\ \E t \in Grid : best = at(t)
      /\ \A t \in Grid : at(t).fpr <= 10000 => best.fpr <= 10000 /\ at(t)["f1"] <= best["f1"]
  BY <1>1, BestIs
<1>5. /\ \E t \in Grid : bestRecall = at(t)
      /\ \A t \in Grid : at(t).fpr <= MaxFpr => bestRecall.fpr <= MaxFpr /\ at(t)["recall"] <= bestRecall["recall"]
  BY <1>1, BestIs
<1> HIDE DEF best, bestRecall, at
<1>6. \A t \in Grid : /\ best.f1 >= at(t).f1
                      /\ at(t).fpr <= MaxFpr =>
                           (bestRecall.fpr <= MaxFpr /\ bestRecall.recall >= at(t).recall)
  BY <1>3, <1>4, <1>5
<1>7. Threshold \in Grid /\ Confident \in Grid
  BY SetsAssumption
<1> QED
  BY <1>2, <1>6, <1>7 DEF SweepFine, r

SweepsSoFar == command.kind = "pairs" => \A r \in Range(reports) : SweepFine(r)

LEMMA SweepsStart == BenchInit => SweepsSoFar
  BY DEF BenchInit, SweepsSoFar

LEMMA SweepsKept == Bench /\ SweepsSoFar /\ [BenchNext]_benchVars => SweepsSoFar'
<1> SUFFICES ASSUME Bench, SweepsSoFar, [BenchNext]_benchVars, command'.kind = "pairs"
             PROVE  \A r \in Range(reports') : SweepFine(r)
  BY DEF SweepsSoFar, SweepFine
<1>1. ASSUME UNCHANGED <<command, reports>> PROVE \A r \in Range(reports') : SweepFine(r)
  BY <1>1 DEF SweepsSoFar
<1>2. CASE \E c \in Commands : Start(c)
  BY <1>2 DEF Start, Range
<1>3. CASE PairsRun
  <2> DEFINE n == Head(todo)
             r == PairsReport(n)
  <2>1. /\ command.kind = "pairs" /\ n \in Datasets /\ disk[n] \notin {Absent, Torn}
        /\ reports' = Append(reports, r)
    BY <1>3 DEF PairsRun, Running, Fetched
  <2>2. IsRows(disk[n])
    BY <2>1 DEF Bench, OnDisk
  <2> HIDE DEF n
  <2>3. SweepFine(r)
    BY <2>2, ReportFine
  <2> HIDE DEF r
  <2>4. Range(reports') = Range(reports) \cup {r}
    BY <2>1, LongerList DEF Bench
  <2> QED
    BY <2>1, <2>3, <2>4 DEF SweepsSoFar
<1>4. CASE PairsFallback
  <2> DEFINE r == PairsReport("sample")
  <2>1. reports' = <<r>>
    BY <1>4 DEF PairsFallback
  <2>2. SweepFine(r)
    BY ReportFine DEF Bench, OnDisk
  <2> HIDE DEF r
  <2> QED
    BY <2>1, <2>2 DEF Range
<1>5. CASE UNCHANGED benchVars \/ PairsSkip \/ PairsCrash \/ PairsEnd
  BY <1>1, <1>5 DEF benchVars, PairsSkip, PairsCrash, PairsEnd, Passes, Ends
<1>6. CASE FetchUnknown \/ Fetch \/ FetchInterrupted \/ FetchEnd
  BY <1>6 DEF FetchUnknown, Fetch, FetchInterrupted, FetchEnd, Passes, Ends, Running
<1>7. CASE CorpusRun \/ CorpusSkip \/ CorpusEnd
  BY <1>7 DEF CorpusRun, CorpusSkip, CorpusEnd, Passes, Ends, Reports, Running
<1>8. CASE TuneUnknown \/ Tune \/ TuneEnd
  BY <1>8 DEF TuneUnknown, Tune, TuneEnd, Ends, Reports, Running
<1> QED
  BY <1>2, <1>3, <1>4, <1>5, <1>6, <1>7, <1>8 DEF BenchNext

LEMMA HonestSweep == Bench /\ SweepsSoFar => SweepIsNotWorse
<1> SUFFICES ASSUME Bench, SweepsSoFar, command.kind = "pairs", NEW i \in DOMAIN reports PROVE SweepFine(reports[i])
  BY DEF SweepIsNotWorse, SweepFine
<1> QED
  BY DEF SweepsSoFar, Range

-----------------------------------------------------------------------------
(* finetune_cross_encoder.py: what a model that is shipped has shown         *)

\* Scoring changes no label, so two models are measured on as many pairs of each kind.
LEMMA ScoredIs ==
  ASSUME NEW rows, IsRows(rows), \A i \in DOMAIN rows : rows[i].label \in {0, 1},
         NEW model, \A a, b \in Sentences : Cosine(model, a, b) \in Int
  PROVE  LET scored == Scored(model, rows)
         IN  /\ IsFiniteSet(DOMAIN scored) /\ Scores01(scored)
             /\ \A y \in {0, 1} : Labelled(scored, y) = Labelled(rows, y)
<1> DEFINE scored == Scored(model, rows)
<1>1. IsFiniteSet(DOMAIN rows)
  BY ListIs DEF IsRows
<1>2. DOMAIN scored = DOMAIN rows
      /\ \A i \in DOMAIN rows : /\ scored[i].score = Cosine(model, rows[i].a, rows[i].b)
                                /\ scored[i].label = rows[i].label
  BY DEF Scored
<1>3. ASSUME NEW i \in DOMAIN rows PROVE rows[i].a \in Sentences /\ rows[i].b \in Sentences
  BY DEF IsRows, TextsOf
<1> HIDE DEF scored
<1>4. Scores01(scored)
  BY <1>2, <1>3 DEF Scores01
<1>5. ASSUME NEW y \in {0, 1} PROVE Labelled(scored, y) = Labelled(rows, y)
  <2>1. {i \in DOMAIN scored : scored[i].label = y} = {i \in DOMAIN rows : rows[i].label = y}
    BY <1>2
  <2> QED
    BY <2>1 DEF Labelled
<1> QED
  BY <1>1, <1>2, <1>4, <1>5 DEF scored

\* The counts of a confusion whose positives are p.
CountsOf(c, p) == c.tp \in Nat /\ c.fp \in Nat /\ c.fn \in Nat /\ c.tp + c.fn = p

F1(c) == Rate(2 * c.tp, 2 * c.tp + c.fp + c.fn)

\* A greater F1 over the same pairs takes more hits or fewer flags.
LEMMA HigherF1 ==
  ASSUME NEW p \in Nat, NEW c, CountsOf(c, p), NEW k, CountsOf(k, p), F1(k) >= F1(c) + 100
  PROVE  k.tp > c.tp \/ k.fp < c.fp
<1> DEFINE tp == c.tp
           fp == c.fp
           fn == c.fn
           tq == k.tp
           fq == k.fp
           fm == k.fn
<1>1. tp \in Nat /\ fp \in Nat /\ fn \in Nat /\ tp + fn = p /\ tq \in Nat /\ fq \in Nat /\ fm \in Nat /\ tq + fm = p
  BY DEF CountsOf
<1>2. Rate(2 * tq, 2 * tq + fq + fm) >= Rate(2 * tp, 2 * tp + fp + fn) + 100
  BY DEF F1
<1> SUFFICES ASSUME tq <= tp, fp <= fq PROVE FALSE
  BY <1>1
<1> HIDE DEF tp, fp, fn, tq, fq, fm
<1> DEFINE n == 2 * tq
           d == tq + fq + p
           m == 2 * tp
           e == tp + fp + p
<1>3. 2 * tq + fq + fm = d /\ 2 * tp + fp + fn = e
  BY <1>1
<1>4. n \in Nat /\ d \in Nat /\ m \in Nat /\ e \in Nat
  BY <1>1
<1>5. n * e <= m * d
  <2>1. tq * fp <= tp * fp /\ tp * fp <= tp * fq /\ tq * p <= tp * p /\ tq * tp = tp * tq
    BY <1>1
  <2>2. n * e = 2 * (tq * tp + tq * fp + tq * p)
    BY <1>1
  <2>3. m * d = 2 * (tp * tq + tp * fq + tp * p)
    BY <1>1
  <2> QED
    BY <1>1, <2>1, <2>2, <2>3
<1>6. e = 0 => n = 0
  BY <1>1
<1>7. Rate(n, d) >= Rate(m, e) + 100
  BY <1>2, <1>3
<1> HIDE DEF n, d, m, e
<1>8. Rate(n, d) <= Rate(m, e)
  BY <1>4, <1>5, <1>6, RateKeepsOrder
<1>9. \A x, y \in Nat : Rate(x, y) \in Int
  BY RateIs
<1>10. Rate(n, d) \in Int /\ Rate(m, e) \in Int
  BY <1>4, <1>9, Zenon
<1> QED
  BY <1>7, <1>8, <1>9, <1>10

Improves(before, after) ==
  /\ after.best_f1.tp > before.best_f1.tp \/ after.best_f1.fp < before.best_f1.fp
  /\ after.at.fp <= before.at.fp

\* What the gate lets through is better.  The sets are cut to so many rows that a rate tells
\* each count from the next.
LEMMA GateTells ==
  ASSUME NEW n \in DOMAIN Hub, NEW limit \in Nat \ {0}, limit <= 10000, NEW base, NEW tuned,
         \A a, b \in Sentences : Cosine(base, a, b) \in Int /\ Cosine(tuned, a, b) \in Int,
         Gate(Evaluated(base, Adapted(n, limit)), Evaluated(tuned, Adapted(n, limit)))
  PROVE  Improves(Evaluated(base, Adapted(n, limit)), Evaluated(tuned, Adapted(n, limit)))
<1> DEFINE rows == Adapted(n, limit)
           was == Scored(base, rows)
           is == Scored(tuned, rows)
           before == Evaluated(base, rows)
           after == Evaluated(tuned, rows)
<1>1. IsRows(rows) /\ (\A i \in DOMAIN rows : rows[i].label \in {0, 1}) /\ Len(rows) <= limit
  <2>1. limit \in Nat /\ limit # 0
    OBVIOUS
  <2> QED
    BY <2>1, AdaptedIs
<1>2. /\ before.at = BinaryMetrics(was, Threshold) /\ after.at = BinaryMetrics(is, Threshold)
      /\ before.best_f1 = BestThreshold(was, "f1", 10000) /\ after.best_f1 = BestThreshold(is, "f1", 10000)
  BY DEF Evaluated
<1>3. /\ after.at.fpr <= before.at.fpr
      /\ after.best_f1.f1 >= before.best_f1.f1 + 100
  BY DEF Gate
<1> HIDE DEF rows, before, after
<1>4. /\ IsFiniteSet(DOMAIN was) /\ Scores01(was) /\ \A y \in {0, 1} : Labelled(was, y) = Labelled(rows, y)
      /\ IsFiniteSet(DOMAIN is) /\ Scores01(is) /\ \A y \in {0, 1} : Labelled(is, y) = Labelled(rows, y)
  BY <1>1, ScoredIs
<1>5. Labelled(rows, 1) \in Nat /\ Labelled(rows, 0) \in Nat /\ Labelled(rows, 0) <= 10000
  <2> DEFINE of(y) == {i \in DOMAIN rows : rows[i].label = y}
  <2>1. DOMAIN rows = 1 .. Len(rows) /\ Len(rows) \in Nat
    BY <1>1, ListIs DEF IsRows
  <2>2. IsFiniteSet(1 .. Len(rows)) /\ Cardinality(1 .. Len(rows)) = Len(rows)
    <3>1. 1 \in Int /\ Len(rows) \in Int /\ (1 > Len(rows) => Len(rows) = 0)
      BY <2>1
    <3>2. /\ IsFiniteSet(1 .. Len(rows))
          /\ Cardinality(1 .. Len(rows)) = IF 1 > Len(rows) THEN 0 ELSE Len(rows) - 1 + 1
      BY <3>1, FS_Interval
    <3> QED
      BY <2>1, <3>1, <3>2
  <2>3. ASSUME NEW y \in {0, 1}
        PROVE  Cardinality(of(y)) \in Nat /\ Cardinality(of(y)) <= Len(rows)
    <3>1. of(y) \subseteq 1 .. Len(rows)
      BY <2>1
    <3> HIDE DEF of
    <3>2. IsFiniteSet(of(y)) /\ Cardinality(of(y)) <= Cardinality(1 .. Len(rows))
      BY <2>2, <3>1, FS_Subset
    <3> QED
      BY <2>2, <3>2, FS_CardinalityType
  <2>4. Labelled(rows, 0) = Cardinality(of(0)) /\ Labelled(rows, 1) = Cardinality(of(1))
    BY DEF Labelled
  <2> HIDE DEF of
  <2>5. Cardinality(of(0)) \in Nat /\ Cardinality(of(0)) <= Len(rows) /\ Cardinality(of(1)) \in Nat
    BY <2>3
  <2>6. Len(rows) <= 10000
    BY <1>1, <2>1
  <2>7. Cardinality(of(0)) <= 10000
    BY <2>1, <2>5, <2>6
  <2> QED
    BY <2>4, <2>5, <2>7
<1> HIDE DEF was, is
<1> DEFINE p == Labelled(rows, 1)
           q == Labelled(rows, 0)
<1>6. p \in Nat /\ q \in Nat /\ q <= 10000
  BY <1>5
<1>7. ASSUME NEW t \in Int
      PROVE  /\ LET c == Confusion(was, t)
                IN  /\ c.tp \in Nat /\ c.fn \in Nat /\ c.fp \in Nat /\ c.tn \in Nat
                    /\ c.tp + c.fn = p /\ c.fp + c.tn = q
             /\ LET c == Confusion(is, t)
                IN  /\ c.tp \in Nat /\ c.fn \in Nat /\ c.fp \in Nat /\ c.tn \in Nat
                    /\ c.tp + c.fn = p /\ c.fp + c.tn = q
  BY <1>4, ConfusionIs, CountsAddUp
<1> HIDE DEF p, q
<1>8. Grid \subseteq Int /\ Threshold \in Grid
  BY SetsAssumption
<1>9. after.at.fp <= before.at.fp
  <2> DEFINE c == Confusion(was, Threshold)
             e == Confusion(is, Threshold)
             x == c.fp
             y == e.fp
             z == e.tn
  <2>1. /\ before.at.fp = x /\ before.at.fpr = Rate(x, x + c.tn)
        /\ after.at.fp = y /\ after.at.fpr = Rate(y, y + e.tn)
    BY <1>2, <1>4, MetricsAre
  <2>2. /\ x \in Nat /\ x + c.tn = q
        /\ y \in Nat /\ z \in Nat /\ y + z = q
    BY <1>7, <1>8
  <2>3. Rate(y, q) <= Rate(x, q)
    BY <1>3, <2>1, <2>2
  <2> HIDE DEF x, y, z
  <2>4. y <= q
    BY <2>2
  <2>5. y <= x
    BY <1>6, <2>2, <2>3, <2>4, RateTells
  <2> QED
    BY <2>1, <2>5
<1>10. after.best_f1.tp > before.best_f1.tp \/ after.best_f1.fp < before.best_f1.fp
  <2>1. PICK s \in Grid : before.best_f1 = BinaryMetrics(was, s)
    BY <1>2, <1>4, BestIs
  <2>2. PICK t \in Grid : after.best_f1 = BinaryMetrics(is, t)
    BY <1>2, <1>4, BestIs
  <2> DEFINE c == Confusion(was, s)
             k == Confusion(is, t)
  <2>3. before.best_f1.tp = c.tp /\ before.best_f1.fp = c.fp /\ before.best_f1.f1 = F1(c)
    BY <1>4, <2>1, MetricsAre DEF F1
  <2>4. after.best_f1.tp = k.tp /\ after.best_f1.fp = k.fp /\ after.best_f1.f1 = F1(k)
    BY <1>4, <2>2, MetricsAre DEF F1
  <2>5. CountsOf(c, p) /\ CountsOf(k, p)
    BY <1>7, <1>8 DEF CountsOf
  <2> HIDE DEF c, k
  <2>6. F1(k) >= F1(c) + 100
    BY <1>3, <2>3, <2>4
  <2>7. k.tp > c.tp \/ k.fp < c.fp
    BY <1>6, <2>5, <2>6, HigherF1
  <2> QED
    BY <2>3, <2>4, <2>7
<1> QED
  BY <1>9, <1>10 DEF Improves, after, before, rows

\* What the gate makes of the tuned model on a set.
Earned(n) == Gate(Evaluated(command.base, Adapted(n, command.limit)),
                  Evaluated(command.tuned, Adapted(n, command.limit)))

\* The reports are the verdicts on the datasets so far, and a success is one on all of them.
TunesSoFar ==
  command.kind = "tune" /\ exit \in {"running", "ok", "failed"} =>
    \E k \in 0 .. Len(command.datasets) :
      /\ todo = Rest(k) /\ Len(reports) = k
      /\ \A i \in 1 .. k : /\ command.datasets[i] \in DOMAIN Hub
                           /\ reports[i].verdict <=> Earned(command.datasets[i])
      /\ exit = "ok" => k = Len(command.datasets) /\ \A i \in 1 .. k : Earned(command.datasets[i])

LEMMA TunesStart == BenchInit => TunesSoFar
  BY DEF BenchInit, TunesSoFar

LEMMA TunesKept == Bench /\ TunesSoFar /\ [BenchNext]_benchVars => TunesSoFar'
<1> SUFFICES ASSUME Bench, TunesSoFar, [BenchNext]_benchVars PROVE TunesSoFar'
  OBVIOUS
<1> DEFINE ds == command.datasets
<1>1. ASSUME UNCHANGED command PROVE \A k : Rest(k)' = Rest(k) /\ (Earned(k)' <=> Earned(k))
  BY <1>1 DEF Rest, Earned, Gate, Evaluated, Scored
<1>2. CASE UNCHANGED benchVars
  BY <1>1, <1>2 DEF benchVars, TunesSoFar
<1>3. ASSUME NEW c \in Commands, Start(c), c.kind = "tune" PROVE TunesSoFar'
  <2>1. command' = c /\ todo' = c.datasets /\ reports' = <<>> /\ exit' = "running"
    BY <1>3 DEF Start, StepsOf
  <2>2. IsList(c.datasets)
    BY CommandsAssumption
  <2>3. 0 \in 0 .. Len(c.datasets) /\ SubSeq(c.datasets, 0 + 1, Len(c.datasets)) = c.datasets
    BY <2>2, ListIs, RestIs
  <2>4. Rest(0)' = todo' /\ Len(reports') = 0
    BY <2>1, <2>3 DEF Rest
  <2> QED
    BY <2>1, <2>3, <2>4 DEF TunesSoFar
<1>4. ASSUME command'.kind # "tune" PROVE TunesSoFar'
  BY <1>4 DEF TunesSoFar
<1>5. ASSUME Tune PROVE TunesSoFar'
  <2> DEFINE r == [name |-> Head(todo),
                   before |-> Evaluated(command.base, Adapted(Head(todo), command.limit)),
                   after |-> Evaluated(command.tuned, Adapted(Head(todo), command.limit)),
                   verdict |-> Gate(Evaluated(command.base, Adapted(Head(todo), command.limit)),
                                    Evaluated(command.tuned, Adapted(Head(todo), command.limit)))]
  <2>1. /\ command.kind = "tune" /\ exit = "running" /\ todo # <<>> /\ Range(ds) \subseteq DOMAIN Hub
        /\ todo' = Tail(todo) /\ reports' = Append(reports, r) /\ UNCHANGED <<command, exit>>
    BY <1>5 DEF Tune, Reports, Running
  <2>2. r.verdict <=> Earned(Head(todo))
    BY DEF Earned
  <2> HIDE DEF r
  <2>3. PICK k \in 0 .. Len(ds) :
          /\ todo = Rest(k) /\ Len(reports) = k
          /\ \A i \in 1 .. k : ds[i] \in DOMAIN Hub /\ (reports[i].verdict <=> Earned(ds[i]))
    BY <2>1 DEF TunesSoFar
  <2>4. IsList(ds) /\ Len(ds) \in Nat
    BY <2>1, CommandIs, ListIs
  <2>5. k # Len(ds)
    BY <2>1, <2>3, <2>4, RestIs DEF Rest
  <2>6. k \in 0 .. Len(ds) - 1 /\ k + 1 \in 0 .. Len(ds) /\ (k + 1) + 1 = k + 2 /\ k + 1 \in 1 .. Len(ds)
    BY <2>4, <2>5
  <2>7. Head(todo) = ds[k + 1] /\ Tail(todo) = Rest(k + 1)
    <3>1. todo = SubSeq(ds, k + 1, Len(ds))
      BY <2>3 DEF Rest
    <3>2. /\ Head(SubSeq(ds, k + 1, Len(ds))) = ds[k + 1]
          /\ Tail(SubSeq(ds, k + 1, Len(ds))) = SubSeq(ds, k + 2, Len(ds))
      BY <2>4, <2>6, RestIs
    <3>3. Rest(k + 1) = SubSeq(ds, k + 2, Len(ds))
      BY <2>6 DEF Rest
    <3> QED
      BY <3>1, <3>2, <3>3
  <2>8. /\ Len(reports') = k + 1 /\ reports'[k + 1] = r
        /\ \A i \in 1 .. k : reports'[i] = reports[i]
    <3>1. reports \in Seq(Range(reports) \cup {r}) /\ r \in Range(reports) \cup {r}
      BY SeqMonotonic DEF Bench, IsList
    <3> QED
      BY <2>1, <2>3, <3>1, AppendProperties
  <2>9. ds[k + 1] \in DOMAIN Hub
    BY <2>1, <2>4, <2>6, ListIs DEF Range
  <2>10. ASSUME NEW i \in 1 .. k + 1
         PROVE  ds[i] \in DOMAIN Hub /\ (reports'[i].verdict <=> Earned(ds[i]))
    <3>1. CASE i = k + 1
      BY <2>2, <2>7, <2>8, <2>9, <3>1
    <3>2. CASE i # k + 1
      BY <2>3, <2>8, <3>2
    <3> QED
      BY <3>1, <3>2
  <2>11. Rest(k + 1)' = Rest(k + 1) /\ ds' = ds /\ \A n : Earned(n)' <=> Earned(n)
    BY <1>1, <2>1
  <2>12. exit' # "ok" /\ todo' = Rest(k + 1)'
    BY <2>1, <2>7, <2>11
  <2>13. k + 1 \in 0 .. Len(ds')
    BY <2>6, <2>11
  <2>14. \A i \in 1 .. k + 1 : ds'[i] \in DOMAIN Hub /\ (reports'[i].verdict <=> Earned(ds[i])')
    BY <2>10, <2>11
  <2> QED
    BY <2>8, <2>12, <2>13, <2>14 DEF TunesSoFar
<1>6. ASSUME TuneEnd PROVE TunesSoFar'
  <2>1. /\ command.kind = "tune" /\ exit = "running" /\ todo = <<>> /\ UNCHANGED <<command, todo, reports>>
        /\ exit' = IF \A i \in DOMAIN reports : reports[i].verdict THEN "ok" ELSE "failed"
    BY <1>6 DEF TuneEnd, Ends, Running
  <2>2. PICK k \in 0 .. Len(ds) :
          /\ todo = Rest(k) /\ Len(reports) = k
          /\ \A i \in 1 .. k : ds[i] \in DOMAIN Hub /\ (reports[i].verdict <=> Earned(ds[i]))
    BY <2>1 DEF TunesSoFar
  <2>3. k = Len(ds)
    BY <2>1, <2>2, CommandIs, RestIs DEF Rest
  <2>4. DOMAIN reports = 1 .. k
    BY <2>2, ListIs DEF Bench
  <2>5. Rest(k)' = Rest(k) /\ ds' = ds /\ \A n : Earned(n)' <=> Earned(n)
    BY <1>1, <2>1
  <2>6. exit' = "ok" => \A i \in 1 .. k : Earned(ds[i])
    BY <2>1, <2>2, <2>4
  <2> QED
    BY <2>1, <2>2, <2>3, <2>5, <2>6 DEF TunesSoFar
<1>7. CASE TuneUnknown
  BY <1>7 DEF TuneUnknown, Ends, TunesSoFar
<1>8. CASE \E c \in Commands : Start(c)
  <2>1. PICK c \in Commands : Start(c)
    BY <1>8
  <2>2. command' = c
    BY <2>1 DEF Start
  <2> QED
    BY <1>3, <1>4, <2>1, <2>2
<1>9. CASE FetchUnknown \/ Fetch \/ FetchInterrupted \/ FetchEnd
  BY <1>4, <1>9 DEF FetchUnknown, Fetch, FetchInterrupted, FetchEnd, Passes, Ends, Running
<1>10. CASE CorpusRun \/ CorpusSkip \/ CorpusEnd
  BY <1>4, <1>10 DEF CorpusRun, CorpusSkip, CorpusEnd, Passes, Ends, Reports, Running
<1>11. CASE PairsSkip \/ PairsRun \/ PairsCrash \/ PairsFallback \/ PairsEnd
  BY <1>4, <1>11 DEF PairsSkip, PairsRun, PairsCrash, PairsFallback, PairsEnd, Passes, Ends, Running
<1> QED
  BY <1>2, <1>5, <1>6, <1>7, <1>8, <1>9, <1>10, <1>11 DEF BenchNext

LEMMA HonestTune == Bench /\ TunesSoFar => ShippedIsBetter
<1> SUFFICES ASSUME Bench, TunesSoFar, command.kind = "tune", exit = "ok", NEW n \in Range(command.datasets)
             PROVE  Improves(Evaluated(command.base, Adapted(n, command.limit)),
                             Evaluated(command.tuned, Adapted(n, command.limit)))
  BY DEF ShippedIsBetter, Improves
<1>1. command \in Commands /\ IsList(command.datasets)
  BY CommandIs
<1>2. command.limit \in Nat \ {0} /\ command.limit <= 10000
  BY <1>1, CommandsAssumption
<1>3. \A a, b \in Sentences : Cosine(command.base, a, b) \in Int /\ Cosine(command.tuned, a, b) \in Int
  BY <1>1, ModelsAssumption
<1>4. PICK i \in 1 .. Len(command.datasets) : n = command.datasets[i]
  BY <1>1, ListIs
<1>5. n \in DOMAIN Hub /\ Earned(n)
  BY <1>4 DEF TunesSoFar
<1>6. Gate(Evaluated(command.base, Adapted(n, command.limit)), Evaluated(command.tuned, Adapted(n, command.limit)))
  BY <1>5 DEF Earned
<1> QED
  BY <1>2, <1>3, <1>5, <1>6, GateTells

-----------------------------------------------------------------------------
\* The exit code of a gated run and the shipping of a model rest on the data, and the sweep
\* does no worse than the points beside it, for every published set, model and rule.
THEOREM VerdictsHold == BenchSpec => []VerdictsAreEarned
<1> DEFINE Inv == Bench /\ PairsSoFar /\ SweepsSoFar /\ TunesSoFar
<1>1. BenchInit => Inv
  BY BenchStarts, PairsStart, SweepsStart, TunesStart
<1>2. Inv /\ [BenchNext]_benchVars => Inv'
  BY BenchKept, PairsKept, SweepsKept, TunesKept
<1>3. Inv => VerdictsAreEarned
  BY HonestGate, HonestSweep, HonestTune DEF VerdictsAreEarned
<1> QED
  BY <1>1, <1>2, <1>3, PTL DEF BenchSpec


-----------------------------------------------------------------------------
(* build_probe_with_truth(): the lists that its loops make                   *)

\* The loop over the texts.
Collects(u, texts, out, n) ==
  /\ u[0] = <<>>
  /\ \A i \in 1 .. Len(texts) :
       u[i] = IF Len(u[i - 1]) >= n \/ texts[i] \in out \cup Range(u[i - 1]) THEN u[i - 1]
              ELSE Append(u[i - 1], texts[i])
  /\ Distractors(texts, out, n) = u[Len(texts)]

LEMMA DistractorsUnfold ==
  ASSUME NEW texts, IsList(texts), NEW out, NEW n
  PROVE  \E u : Collects(u, texts, out, n)
<1> DEFINE N == Len(texts)
           S == Range(texts)
           B == Seq(S)
           next(i, acc) == IF Len(acc) >= n \/ texts[i] \in out \cup Range(acc) THEN acc ELSE Append(acc, texts[i])
           step == [x \in (1 .. N) \X B |-> next(x[1], x[2])]
           Body(u) == [i \in 0 .. N |-> IF i = 0 THEN <<>> ELSE next(i, u[i - 1])]
           F == CHOOSE u : u = Body(u)
<1>1. N \in Nat /\ <<>> \in B /\ \A i \in 1 .. N : texts[i] \in S
  BY ListIs, EmptySeq
<1>2. F[N] = Distractors(texts, out, n)
  BY DEF Distractors
<1>3. \A i \in 1 .. N, b \in B : next(i, b) \in B
  BY <1>1, AppendProperties
<1> HIDE DEF next
<1>4. step \in [(1 .. N) \X B -> B] /\ \A i \in 1 .. N, b \in B : step[<<i, b>>] = next(i, b)
  BY <1>3
<1> HIDE DEF N, B, S, step
<1>5. PICK f : f \in [0 .. N -> B] /\ f[0] = <<>> /\ \A i \in 1 .. N : f[i] = step[<<i, f[i - 1]>>]
  <2>1. step \in Steps(N, B)
    BY <1>4 DEF Steps
  <2>2. \E f : Follows(f, N, B, <<>>, step)
    BY <1>1, <2>1, Recursion, Zenon
  <2> QED
    BY <2>2 DEF Follows
<1>6. ASSUME NEW i \in 0 .. N PROVE f[i] = IF i = 0 THEN <<>> ELSE next(i, f[i - 1])
  <2>1. CASE i = 0
    BY <1>5, <2>1
  <2>2. CASE i # 0
    <3>1. i \in 1 .. N /\ i - 1 \in 0 .. N
      BY <1>1, <2>2
    <3>2. f[i] = step[<<i, f[i - 1]>>] /\ f[i - 1] \in B
      BY <1>5, <3>1
    <3> QED
      BY <1>4, <2>2, <3>1, <3>2
  <2> QED
    BY <2>1, <2>2
<1>7. f = Body(f)
  <2>1. DOMAIN f = 0 .. N /\ f = [i \in 0 .. N |-> f[i]]
    BY <1>5
  <2> QED
    BY <1>6, <2>1
<1>8. F = Body(F)
  BY <1>7
<1> HIDE DEF F
<1>9. F[0] = <<>> /\ \A i \in 1 .. N : F[i] = next(i, F[i - 1])
  <2>1. 0 \in 0 .. N /\ \A i \in 1 .. N : i \in 0 .. N /\ i # 0
    BY <1>1
  <2>2. \A i \in 0 .. N : F[i] = IF i = 0 THEN <<>> ELSE next(i, F[i - 1])
    BY <1>8
  <2> QED
    BY <2>1, <2>2
<1> QED
  BY <1>2, <1>9 DEF next, N, Collects

\* No text twice, and none that is kept out.
LEMMA DistractorsAre ==
  ASSUME NEW texts, IsList(texts), NEW out, NEW n
  PROVE  LET d == Distractors(texts, out, n)
         IN  IsList(d) /\ Distinct(d) /\ Range(d) \subseteq Range(texts) /\ Range(d) \cap out = {}
<1>1. PICK u : Collects(u, texts, out, n)
  BY DistractorsUnfold
<1> DEFINE N == Len(texts)
           Good(d) == IsList(d) /\ Distinct(d) /\ Range(d) \subseteq Range(texts) /\ Range(d) \cap out = {}
           T == {i \in Nat : Good(u[i])}
<1>2. N \in Nat /\ \A i \in 1 .. N : texts[i] \in Range(texts)
  BY ListIs
<1>3. 0 \in T
  <2>1. u[0] = <<>>
    BY <1>1 DEF Collects
  <2>2. Good(<<>>)
    BY EmptyList DEF Distinct
  <2> HIDE DEF Good
  <2> QED
    BY <2>1, <2>2
<1>4. ASSUME NEW i \in 1 .. N, i - 1 \in T PROVE i \in T
  <2> DEFINE d == u[i - 1]
             t == texts[i]
  <2>1. i \in Nat /\ Good(d) /\ t \in Range(texts)
    BY <1>2, <1>4
  <2>2. u[i] = d \/ (u[i] = Append(d, t) /\ t \notin out \cup Range(d))
    BY <1>1 DEF Collects
  <2> HIDE DEF d, t
  <2>3. ASSUME t \notin out \cup Range(d) PROVE Good(Append(d, t))
    <3> DEFINE e == Append(d, t)
               m == Len(d)
    <3>1. /\ IsList(e) /\ Range(e) = Range(d) \cup {t} /\ Len(e) = m + 1 /\ e[m + 1] = t
          /\ \A j \in 1 .. m : e[j] = d[j]
      BY <2>1, LongerList
    <3>2. m \in Nat /\ DOMAIN d = 1 .. m /\ DOMAIN e = 1 .. m + 1 /\ \A j \in 1 .. m : d[j] \in Range(d)
      <4>1. m \in Nat /\ DOMAIN d = 1 .. m /\ \A j \in 1 .. m : d[j] \in Range(d)
        BY <2>1, ListIs
      <4>2. DOMAIN e = 1 .. m + 1
        BY <3>1, ListIs
      <4> QED
        BY <4>1, <4>2
    <3> HIDE DEF e, m
    <3>3. ASSUME NEW j \in 1 .. m + 1, NEW k \in 1 .. m + 1, e[j] = e[k] PROVE j = k
      <4>1. /\ j = m + 1 \/ (j \in 1 .. m /\ e[j] = d[j] /\ d[j] # t)
            /\ k = m + 1 \/ (k \in 1 .. m /\ e[k] = d[k] /\ d[k] # t)
        BY <2>3, <3>1, <3>2
      <4>2. j \in 1 .. m /\ k \in 1 .. m => (d[j] = d[k] => j = k)
        BY <2>1, <3>2 DEF Distinct
      <4> QED
        BY <3>1, <3>3, <4>1, <4>2
    <3>4. Distinct(e)
      BY <3>2, <3>3 DEF Distinct
    <3>5. Range(e) \subseteq Range(texts) /\ Range(e) \cap out = {}
      BY <2>1, <2>3, <3>1
    <3> QED
      BY <3>1, <3>4, <3>5 DEF e
  <2> HIDE DEF Good
  <2> QED
    BY <2>1, <2>2, <2>3
<1>5. \A i \in 0 .. N : i \in T
  <2> HIDE DEF T
  <2> QED
    BY <1>2, <1>3, <1>4, InductionUpTo
<1>6. Good(u[N])
  BY <1>2, <1>5
<1> QED
  BY <1>1, <1>6 DEF Collects

\* The loop over the pairs.
Asks(u, pool, used, n) ==
  /\ u[0] = [queries |-> <<>>, excluded |-> {}]
  /\ \A i \in 1 .. Len(pool) :
       u[i] = IF Len(u[i - 1].queries) >= n \/ pool[i].a \in used \cup u[i - 1].excluded THEN u[i - 1]
              ELSE [queries |-> Append(u[i - 1].queries, pool[i].a),
                    excluded |-> u[i - 1].excluded \cup {pool[i].a, pool[i].b}]
  /\ NegativeQueries(pool, used, n) = u[Len(pool)]

LEMMA NegativeQueriesUnfold ==
  ASSUME NEW pool, IsList(pool), NEW used, NEW n
  PROVE  \E u : Asks(u, pool, used, n)
<1> DEFINE N == Len(pool)
           S == TextsOf(pool)
           B == [queries : Seq(S), excluded : SUBSET S]
           none == [queries |-> <<>>, excluded |-> {}]
           next(i, acc) == IF Len(acc.queries) >= n \/ pool[i].a \in used \cup acc.excluded THEN acc
                           ELSE [queries |-> Append(acc.queries, pool[i].a),
                                 excluded |-> acc.excluded \cup {pool[i].a, pool[i].b}]
           step == [x \in (1 .. N) \X B |-> next(x[1], x[2])]
           Body(u) == [i \in 0 .. N |-> IF i = 0 THEN none ELSE next(i, u[i - 1])]
           F == CHOOSE u : u = Body(u)
<1>1. N \in Nat /\ none \in B /\ \A i \in 1 .. N : pool[i].a \in S /\ pool[i].b \in S
  <2>1. N \in Nat /\ DOMAIN pool = 1 .. N
    BY ListIs
  <2> QED
    BY <2>1 DEF TextsOf
<1>2. F[N] = NegativeQueries(pool, used, n)
  BY DEF NegativeQueries
<1>3. ASSUME NEW i \in 1 .. N, NEW b \in B PROVE next(i, b) \in B
  <2>1. b.queries \in Seq(S) /\ b.excluded \in SUBSET S /\ pool[i].a \in S /\ pool[i].b \in S
    BY <1>1
  <2>2. Append(b.queries, pool[i].a) \in Seq(S)
    BY <2>1, AppendProperties
  <2> QED
    BY <2>1, <2>2
<1> HIDE DEF next
<1>4. step \in [(1 .. N) \X B -> B] /\ \A i \in 1 .. N, b \in B : step[<<i, b>>] = next(i, b)
  BY <1>3
<1> HIDE DEF N, B, S, step, none
<1>5. PICK f : f \in [0 .. N -> B] /\ f[0] = none /\ \A i \in 1 .. N : f[i] = step[<<i, f[i - 1]>>]
  <2>1. step \in Steps(N, B)
    BY <1>4 DEF Steps
  <2>2. \E f : Follows(f, N, B, none, step)
    BY <1>1, <2>1, Recursion, Zenon
  <2> QED
    BY <2>2 DEF Follows
<1>6. ASSUME NEW i \in 0 .. N PROVE f[i] = IF i = 0 THEN none ELSE next(i, f[i - 1])
  <2>1. CASE i = 0
    BY <1>5, <2>1
  <2>2. CASE i # 0
    <3>1. i \in 1 .. N /\ i - 1 \in 0 .. N
      BY <1>1, <2>2
    <3>2. f[i] = step[<<i, f[i - 1]>>] /\ f[i - 1] \in B
      BY <1>5, <3>1
    <3> QED
      BY <1>4, <2>2, <3>1, <3>2
  <2> QED
    BY <2>1, <2>2
<1>7. f = Body(f)
  <2>1. DOMAIN f = 0 .. N /\ f = [i \in 0 .. N |-> f[i]]
    BY <1>5
  <2> QED
    BY <1>6, <2>1
<1>8. F = Body(F)
  BY <1>7
<1> HIDE DEF F
<1>9. F[0] = none /\ \A i \in 1 .. N : F[i] = next(i, F[i - 1])
  <2>1. 0 \in 0 .. N /\ \A i \in 1 .. N : i \in 0 .. N /\ i # 0
    BY <1>1
  <2>2. \A i \in 0 .. N : F[i] = IF i = 0 THEN none ELSE next(i, F[i - 1])
    BY <1>8
  <2> QED
    BY <2>1, <2>2
<1> QED
  BY <1>2, <1>9 DEF next, none, N, Asks

\* Every query stands first in a pair of the pool whose two texts are kept out.
AskedOf(acc, pool) ==
  /\ IsList(acc.queries) /\ Range(acc.queries) \subseteq acc.excluded
  /\ \A q \in Range(acc.queries) : \E j \in DOMAIN pool : pool[j].a = q /\ {q, pool[j].b} \subseteq acc.excluded

LEMMA NegativeQueriesAre ==
  ASSUME NEW pool, IsList(pool), NEW used, NEW n
  PROVE  AskedOf(NegativeQueries(pool, used, n), pool)
<1>1. PICK u : Asks(u, pool, used, n)
  BY NegativeQueriesUnfold
<1> DEFINE N == Len(pool)
           T == {i \in Nat : AskedOf(u[i], pool)}
<1>2. N \in Nat /\ DOMAIN pool = 1 .. N
  BY ListIs
<1>3. 0 \in T
  <2> DEFINE none == [queries |-> <<>>, excluded |-> {}]
  <2>1. u[0] = none
    BY <1>1 DEF Asks
  <2>2. none.queries = <<>>
    OBVIOUS
  <2> HIDE DEF none
  <2>3. AskedOf(none, pool)
    BY <2>2, EmptyList DEF AskedOf
  <2> QED
    BY <2>1, <2>3
<1>4. ASSUME NEW i \in 1 .. N, i - 1 \in T PROVE i \in T
  <2> DEFINE acc == u[i - 1]
             a == pool[i].a
             b == pool[i].b
             more == [queries |-> Append(acc.queries, a), excluded |-> acc.excluded \cup {a, b}]
  <2>1. i \in Nat /\ AskedOf(acc, pool) /\ i \in DOMAIN pool
    BY <1>2, <1>4
  <2>2. u[i] = acc \/ u[i] = more
    BY <1>1 DEF Asks
  <2>3. AskedOf(more, pool)
    <3>1. IsList(more.queries) /\ Range(more.queries) = Range(acc.queries) \cup {a}
      BY <2>1, LongerList DEF AskedOf
    <3>2. more.excluded = acc.excluded \cup {a, b}
      OBVIOUS
    <3>3. a = pool[i].a /\ b = pool[i].b
      OBVIOUS
    <3> HIDE DEF more, acc, a, b
    <3> QED
      BY <2>1, <3>1, <3>2, <3>3 DEF AskedOf
  <2> HIDE DEF acc, more
  <2> QED
    BY <2>1, <2>2, <2>3
<1>5. \A i \in 0 .. N : i \in T
  <2> HIDE DEF T
  <2> QED
    BY <1>2, <1>3, <1>4, InductionUpTo
<1> QED
  BY <1>1, <1>2, <1>5 DEF Asks

LEMMA TextsAre ==
  ASSUME NEW pairs, IsList(pairs)
  PROVE  IsList(Texts(pairs)) /\ Range(Texts(pairs)) \subseteq TextsOf(pairs)
<1> DEFINE S == TextsOf(pairs)
           s == [i \in DOMAIN pairs |-> <<pairs[i].a, pairs[i].b>>]
<1>1. DOMAIN pairs = 1 .. Len(pairs) /\ Len(pairs) \in Nat
  BY ListIs
<1>2. \A i \in DOMAIN pairs : pairs[i].a \in S /\ pairs[i].b \in S
  BY DEF TextsOf
<1> HIDE DEF S
<1>3. \A i \in DOMAIN pairs : <<pairs[i].a, pairs[i].b>> \in Seq(S)
  BY <1>2
<1>4. s \in Seq(Seq(S))
  BY <1>1, <1>3
<1>5. Texts(pairs) = FlattenSeq(s)
  BY DEF Texts
<1>6. Texts(pairs) \in Seq(S)
  BY <1>4, <1>5, FlattenType
<1> QED
  BY <1>6, ListOf DEF S

\* The order of n things, and what it makes of a list.
Moves(order, n) == order[n] \in [1 .. n -> 1 .. n]

LEMMA ShuffledIs ==
  ASSUME NEW s, IsList(s), NEW order
  PROVE  /\ IsList(Shuffled(s, order)) /\ Len(Shuffled(s, order)) = Len(s)
         /\ Moves(order, Len(s)) =>
              \A i \in DOMAIN Shuffled(s, order) : \E k \in DOMAIN s : Shuffled(s, order)[i] = s[k]
<1> DEFINE n == Len(s)
           f == Shuffled(s, order)
<1>1. n \in Nat /\ DOMAIN s = 1 .. n
  BY ListIs
<1>2. f = [i \in 1 .. n |-> s[order[n][i]]]
  BY <1>1 DEF Shuffled
<1> HIDE DEF n, f
<1>3. f = [i \in 1 .. n |-> f[i]]
  BY <1>2
<1>4. IsList(f) /\ Len(f) = n
  BY <1>1, <1>3, Listed
<1>5. ASSUME Moves(order, n), NEW i \in DOMAIN f PROVE \E k \in DOMAIN s : f[i] = s[k]
  <2>1. i \in 1 .. n /\ f[i] = s[order[n][i]]
    BY <1>2, <1>5
  <2>2. order[n][i] \in 1 .. n
    BY <1>5, <2>1 DEF Moves
  <2> QED
    BY <1>1, <2>1, <2>2
<1> QED
  BY <1>4, <1>5 DEF n, f

-----------------------------------------------------------------------------
(* run_corpus.py: the corpus is clean                                        *)

Clean(probe, rows, extra, poolOnly) ==
  LET distractors == Range(probe.distractors)
  IN  /\ distractors \cap (Range(probe.negative) \cup Range(probe.positive) \cup Range(probe.truth)) = {}
      /\ \A q \in Range(probe.negative) : \E i \in DOMAIN rows : rows[i].a = q /\ rows[i].b \notin distractors
      /\ poolOnly => distractors \subseteq TextsOf(extra)

\* The two texts of the pair a query was taken from are both kept out, wherever they stand.
LEMMA ProbeIsClean ==
  ASSUME NEW rows, IsList(rows), NEW order, Moves(order, Len(rows)),
         NEW extra, IsList(extra), NEW mixed, Moves(mixed, Len(extra)),
         NEW positives, NEW n, NEW most, NEW poolOnly
  PROVE  Clean(BuildProbe(Shuffled(rows, order), positives, Shuffled(extra, mixed), n, most, poolOnly),
               rows, extra, poolOnly)
<1> DEFINE pairs == Shuffled(rows, order)
           given == Shuffled(extra, mixed)
           probe == BuildProbe(pairs, positives, given, n, most, poolOnly)
           chosen == PositivePairs(positives, n)
           asked == [i \in DOMAIN chosen |-> chosen[i].a]
           truths == [i \in DOMAIN chosen |-> chosen[i].b]
           used == Range(asked) \cup Range(truths)
           negative == NegativeQueries(pairs, used, n)
           source == IF poolOnly THEN given ELSE pairs \o given
           out == used \cup negative.excluded
           texts == Texts(source)
           D == Range(probe.distractors)
<1>1. /\ probe.negative = negative.queries /\ probe.positive = asked /\ probe.truth = truths
      /\ probe.distractors = Distractors(texts, out, most)
  BY DEF BuildProbe
<1> HIDE DEF probe, negative, asked, truths
<1>2. /\ IsList(pairs) /\ \A j \in DOMAIN pairs : \E k \in DOMAIN rows : pairs[j] = rows[k]
  BY ShuffledIs
<1>3. /\ IsList(given) /\ \A j \in DOMAIN given : \E k \in DOMAIN extra : given[j] = extra[k]
  BY ShuffledIs
<1> HIDE DEF pairs, given
<1>4. IsList(source)
  BY <1>2, <1>3, JoinedLists
<1>5. AskedOf(negative, pairs)
  BY <1>2, NegativeQueriesAre DEF negative
<1>6. D \cap out = {} /\ D \subseteq TextsOf(source)
  <2>1. IsList(texts) /\ Range(texts) \subseteq TextsOf(source)
    <3> HIDE DEF source
    <3> QED
      BY <1>4, TextsAre
  <2> HIDE DEF out, texts, source
  <2> QED
    BY <1>1, <2>1, DistractorsAre
<1>7. D \cap (Range(probe.negative) \cup Range(probe.positive) \cup Range(probe.truth)) = {}
  BY <1>1, <1>5, <1>6 DEF AskedOf
<1>8. ASSUME NEW q \in Range(probe.negative)
      PROVE  \E i \in DOMAIN rows : rows[i].a = q /\ rows[i].b \notin D
  <2>1. PICK j \in DOMAIN pairs : pairs[j].a = q /\ {q, pairs[j].b} \subseteq negative.excluded
    BY <1>1, <1>5 DEF AskedOf
  <2>2. PICK k \in DOMAIN rows : pairs[j] = rows[k]
    BY <1>2
  <2> QED
    BY <1>6, <2>1, <2>2
<1>9. ASSUME poolOnly PROVE D \subseteq TextsOf(extra)
  <2>1. D \subseteq TextsOf(given)
    BY <1>6, <1>9
  <2>2. TextsOf(given) \subseteq TextsOf(extra)
    BY <1>3 DEF TextsOf
  <2> QED
    BY <2>1, <2>2
<1> QED
  BY <1>7, <1>8, <1>9 DEF Clean, pairs, given, probe

\* The pool of the step at hand is rows of known sentences, as many as the longest set for each name.
LEMMA PoolIs ==
  ASSUME Bench, command.kind = "corpus", \A n \in Range(PoolNames) : disk[n] # Torn
  PROVE  IsList(PoolPairs) /\ TextsOf(PoolPairs) \subseteq Sentences /\ Len(PoolPairs) <= MostRows(command)
<1> DEFINE names == PoolNames
           pool == command.pool
           P == {n \in Range(pool) : Fetched(n) /\ n # Head(todo)[1]}
           R == UNION {Range(disk[n]) : n \in Range(names)}
           s == [i \in DOMAIN names |-> disk[names[i]]]
<1>1. IsList(pool) /\ Len(pool) \in Nat
  BY CommandIs, CommandsAssumption, ListIs
<1>2. IsList(names) /\ Range(names) = Range(pool) \cap P /\ Len(names) <= Len(pool)
  <2>1. pool \in Seq(Range(pool)) /\ names = Those(pool, P)
    BY <1>1 DEF IsList, PoolNames
  <2> HIDE DEF names, pool, P
  <2> QED
    BY <2>1, ThoseAre, ThoseShorter, ListOf
<1>3. Len(names) \in Nat /\ DOMAIN names = 1 .. Len(names) /\ Range(names) = {names[i] : i \in 1 .. Len(names)}
  <2> HIDE DEF names
  <2> QED
    BY <1>2, ListIs
<1>4. ASSUME NEW n \in Range(names) PROVE IsRows(disk[n])
  <2>1. n \in Datasets /\ disk[n] # Absent
    BY <1>2 DEF Fetched
  <2> QED
    BY <2>1 DEF Bench, OnDisk
<1>5. PoolPairs = FlattenSeq(s)
  BY DEF PoolPairs
<1> HIDE DEF names, pool
<1>6. \A i \in 1 .. Len(names) : disk[names[i]] \in Seq(R) /\ Len(disk[names[i]]) <= Longest
  <2> SUFFICES ASSUME NEW i \in 1 .. Len(names)
               PROVE  disk[names[i]] \in Seq(R) /\ Len(disk[names[i]]) <= Longest
    OBVIOUS
  <2> DEFINE d == disk[names[i]]
  <2>1. names[i] \in Range(names)
    BY <1>3
  <2>2. IsRows(d)
    BY <1>4, <2>1
  <2>3. d \in Seq(Range(d)) /\ Range(d) \subseteq R /\ Len(d) <= Longest
    BY <2>1, <2>2 DEF IsRows, IsList
  <2> HIDE DEF d, R
  <2>4. d \in Seq(R)
    BY <2>3, SeqMonotonic
  <2> QED
    BY <2>3, <2>4 DEF d
<1> HIDE DEF R
<1>7. s \in Seq(Seq(R)) /\ Len(s) = Len(names) /\ \A i \in 1 .. Len(s) : Len(s[i]) <= Longest
  BY <1>3, <1>6
<1> HIDE DEF s
<1>8. PoolPairs \in Seq(R) /\ Len(PoolPairs) <= Len(s) * Longest
  BY <1>5, <1>7, LongestIs, FlattenType, FlattenLength
<1>9. IsList(PoolPairs) /\ Range(PoolPairs) \subseteq R
  BY <1>8, ListOf
<1>10. TextsOf(PoolPairs) \subseteq Sentences
  <2> SUFFICES ASSUME NEW i \in DOMAIN PoolPairs
               PROVE  PoolPairs[i].a \in Sentences /\ PoolPairs[i].b \in Sentences
    BY DEF TextsOf
  <2>1. PoolPairs[i] \in R
    BY <1>9 DEF Range
  <2>2. PICK n \in Range(names) : PoolPairs[i] \in Range(disk[n])
    BY <2>1 DEF R
  <2>3. PICK j \in DOMAIN disk[n] : PoolPairs[i] = disk[n][j]
    BY <2>2 DEF Range
  <2>4. TextsOf(disk[n]) \subseteq Sentences
    BY <1>4 DEF IsRows
  <2> QED
    BY <2>3, <2>4 DEF TextsOf
<1>11. Len(PoolPairs) <= MostRows(command)
  <2> DEFINE x == Len(PoolPairs)
             l == Longest
             m == Len(names)
             n == Len(pool)
  <2>1. x <= m * l /\ m \in Nat /\ n \in Nat /\ m <= n /\ l \in Nat /\ MostRows(command) = (n + 1) * l
    BY <1>1, <1>2, <1>3, <1>7, <1>8, LongestIs DEF MostRows, pool
  <2>2. x \in Nat
    BY <1>9, ListIs
  <2> HIDE DEF x, l, m, n
  <2>3. m * l <= (n + 1) * l
    BY <2>1
  <2>4. x <= (n + 1) * l
    BY <2>1, <2>2, <2>3
  <2> QED
    BY <2>1, <2>4 DEF x
<1> QED
  BY <1>9, <1>10, <1>11

\* What a corpus step works on.
Wanted(mode) == mode = "retrieved" \/ command.pool_only

Extra(mode) == IF Wanted(mode) THEN PoolPairs ELSE <<>>

LEMMA StepIs ==
  ASSUME Bench, command.kind = "corpus", NEW mode, CanMeasure(mode)
  PROVE  LET rows == disk[Head(todo)[1]]
         IN  /\ IsRows(rows) /\ Len(rows) \in Nat /\ Len(rows) <= MostRows(command)
             /\ IsList(Extra(mode)) /\ TextsOf(Extra(mode)) \subseteq Sentences
             /\ Len(Extra(mode)) <= MostRows(command)
             /\ \A order \in {command.seed.pairs, command.seed.positives, command.seed.extra} :
                  \A n \in Nat : n <= MostRows(command) => Moves(order, n)
<1> DEFINE rows == disk[Head(todo)[1]]
           most == MostRows(command)
<1>1. IsRows(rows)
  BY DEF CanMeasure, Fetched, Bench, OnDisk
<1>2. command \in Commands /\ Len(command.pool) \in Nat /\ OnlyMoves(command)
  <2>1. command \in Commands
    BY CommandIs
  <2>2. IsList(command.pool) /\ OnlyMoves(command)
    BY <2>1, CommandsAssumption
  <2> QED
    BY <2>1, <2>2, ListIs
<1>3. most \in Nat /\ Longest <= most
  <2> DEFINE l == Longest
             n == Len(command.pool)
  <2>1. n \in Nat /\ l \in Nat /\ most = (n + 1) * l
    BY <1>2, LongestIs DEF MostRows
  <2> HIDE DEF l, n
  <2>2. (n + 1) * l = n * l + l /\ n * l \in Nat
    BY <2>1
  <2> QED
    BY <2>1, <2>2 DEF l
<1>4. Len(rows) \in Nat /\ Len(rows) <= most
  <2> HIDE DEF rows, most
  <2>1. Len(rows) \in Nat /\ Len(rows) <= Longest /\ Longest \in Nat
    BY <1>1, ListIs, LongestIs DEF IsRows
  <2> QED
    BY <1>3, <2>1
<1>5. IsList(Extra(mode)) /\ TextsOf(Extra(mode)) \subseteq Sentences /\ Len(Extra(mode)) <= most
  <2>1. CASE Wanted(mode)
    <3>1. \A n \in Range(PoolNames) : disk[n] # Torn
      BY <2>1 DEF CanMeasure, Wanted
    <3> QED
      BY <2>1, <3>1, PoolIs DEF Extra
  <2>2. CASE ~Wanted(mode)
    <3>1. Extra(mode) = <<>> /\ TextsOf(<<>>) = {}
      BY <2>2 DEF Extra, TextsOf
    <3> HIDE DEF most
    <3>2. Len(<<>>) = 0
      OBVIOUS
    <3> QED
      BY <1>3, <3>1, <3>2, EmptyList
  <2> QED
    BY <2>1, <2>2
<1>6. ASSUME NEW order \in {command.seed.pairs, command.seed.positives, command.seed.extra},
             NEW n \in Nat, n <= most
      PROVE  Moves(order, n)
  <2>1. n \in 0 .. most
    BY <1>3, <1>6
  <2> QED
    <3>1. \A o \in {command.seed.pairs, command.seed.positives, command.seed.extra} :
            \A k \in 0 .. MostRows(command) : o[k] \in [1 .. k -> 1 .. k]
      BY <1>2 DEF OnlyMoves
    <3> QED
      BY <2>1, <3>1 DEF Moves
<1> QED
  BY <1>1, <1>4, <1>5, <1>6

CorpusSoFar ==
  command.kind = "corpus" => \A r \in Range(reports) :
    Clean(r.report.probe, disk[r.name], r.extra, command.pool_only)

LEMMA CorpusStarts == BenchInit => CorpusSoFar
  BY DEF BenchInit, CorpusSoFar

LEMMA CorpusKept == Bench /\ CorpusSoFar /\ [BenchNext]_benchVars => CorpusSoFar'
<1> SUFFICES ASSUME Bench, CorpusSoFar, [BenchNext]_benchVars, command'.kind = "corpus"
             PROVE  \A r \in Range(reports') : Clean(r.report.probe, disk'[r.name], r.extra, command'.pool_only)
  BY DEF CorpusSoFar, Clean
<1>1. ASSUME UNCHANGED <<command, reports, disk>>
      PROVE  \A r \in Range(reports') : Clean(r.report.probe, disk'[r.name], r.extra, command'.pool_only)
  BY <1>1 DEF CorpusSoFar
<1>2. CASE \E c \in Commands : Start(c)
  BY <1>2, EmptyList DEF Start
<1>3. CASE CorpusRun
  <2> DEFINE n == Head(todo)[1]
             mode == Head(todo)[2]
             r == CorpusReport(mode)
             probe == Probe(mode)
             rows == disk[n]
  <2>1. /\ command.kind = "corpus" /\ CanMeasure(mode) /\ reports' = Append(reports, r)
        /\ disk' = disk /\ command' = command
    BY <1>3 DEF CorpusRun, Running, Reports
  <2>2. r.name = n /\ r.extra = Extra(mode) /\ r.report.probe = probe
    BY DEF CorpusReport, ScaleReport, Extra, Wanted
  <2>3. /\ IsRows(rows) /\ IsList(Extra(mode)) /\ Moves(command.seed.pairs, Len(rows))
        /\ Moves(command.seed.extra, Len(Extra(mode)))
    <3> DEFINE e == Extra(mode)
    <3>1. /\ IsRows(rows) /\ Len(rows) \in Nat /\ Len(rows) <= MostRows(command)
          /\ IsList(e) /\ Len(e) <= MostRows(command)
          /\ \A order \in {command.seed.pairs, command.seed.positives, command.seed.extra} :
               \A k \in Nat : k <= MostRows(command) => Moves(order, k)
      BY <2>1, StepIs
    <3> HIDE DEF e, rows
    <3> QED
      BY <3>1, ListIs DEF e
  <2> DEFINE positives == Shuffled(Those(rows, {p \in Range(rows) : p.label = 1}), command.seed.positives)
             most == PoolBudget(command.sizes, mode, Texts(rows \o Extra(mode)))
  <2>4. probe = BuildProbe(Shuffled(rows, command.seed.pairs), positives,
                           Shuffled(Extra(mode), command.seed.extra), command.queries, most, command.pool_only)
    BY DEF Probe, Extra, Wanted
  <2> HIDE DEF rows, positives, most, probe
  <2>5. Clean(probe, rows, Extra(mode), command.pool_only)
    BY <2>3, <2>4, ProbeIsClean DEF IsRows
  <2> HIDE DEF r, n
  <2>7. Clean(r.report.probe, disk'[r.name], r.extra, command'.pool_only)
    BY <2>1, <2>2, <2>5 DEF rows
  <2>8. Range(reports') = Range(reports) \cup {r}
    BY <2>1, LongerList DEF Bench
  <2> QED
    BY <2>1, <2>7, <2>8 DEF CorpusSoFar
<1>5. CASE UNCHANGED benchVars \/ CorpusSkip \/ CorpusEnd
  BY <1>1, <1>5 DEF benchVars, CorpusSkip, CorpusEnd, Passes, Ends
<1>6. CASE FetchUnknown \/ Fetch \/ FetchInterrupted \/ FetchEnd
  BY <1>6 DEF FetchUnknown, Fetch, FetchInterrupted, FetchEnd, Passes, Ends, Running
<1>7. CASE PairsSkip \/ PairsRun \/ PairsCrash \/ PairsFallback \/ PairsEnd
  BY <1>7 DEF PairsSkip, PairsRun, PairsCrash, PairsFallback, PairsEnd, Passes, Ends, Running
<1>8. CASE TuneUnknown \/ Tune \/ TuneEnd
  BY <1>8 DEF TuneUnknown, Tune, TuneEnd, Ends, Reports, Running
<1> QED
  BY <1>2, <1>3, <1>5, <1>6, <1>7, <1>8, SMTT(60) DEF BenchNext

-----------------------------------------------------------------------------
(* Top scores, counts and their total                                        *)

\* A model that scores the sentences by whole numbers.
Numbers(model) == \A a, b \in Sentences : Cosine(model, a, b) \in Int

LEMMA TopIs ==
  ASSUME NEW model, Numbers(model), NEW q \in Sentences,
         NEW s, IsList(s), s # <<>>, Range(s) \subseteq Sentences
  PROVE  /\ Top(model, q, s) \in Int
         /\ \A d \in Range(s) : Cosine(model, q, d) <= Top(model, q, s)
         /\ \E d \in Range(s) : Top(model, q, s) = Cosine(model, q, d)
<1> DEFINE f == [i \in DOMAIN s |-> Cosine(model, q, s[i])]
           S == {f[i] : i \in DOMAIN s}
<1>1. IsFiniteSet(DOMAIN s) /\ DOMAIN s # {}
  <2>1. Len(s) \in Nat /\ DOMAIN s = 1 .. Len(s) /\ IsFiniteSet(DOMAIN s) /\ s \in Seq(Range(s))
    BY ListIs DEF IsList
  <2>2. Len(s) # 0
    <3> DEFINE R == Range(s)
    <3> HIDE DEF R
    <3> QED
      BY <2>1, EmptySeq DEF R
  <2>3. 1 \in 1 .. Len(s)
    BY <2>1, <2>2
  <2>4. 1 \in DOMAIN s
    BY <2>1, <2>3, Zenon
  <2> QED
    BY <2>1, <2>4, Zenon
<1>2. \A i \in DOMAIN s : s[i] \in Sentences
  BY DEF Range
<1>3. DOMAIN f = DOMAIN s /\ \A i \in DOMAIN s : f[i] = Cosine(model, q, s[i]) /\ f[i] \in Int
  BY <1>2 DEF Numbers
<1> HIDE DEF f
<1>4. IsFiniteSet(S)
  BY <1>1, <1>3, FiniteImage
<1>5. S \subseteq Int /\ S # {}
  BY <1>1, <1>3
<1>6. Top(model, q, s) = Max(S)
  <2>1. S = {Cosine(model, q, s[i]) : i \in DOMAIN s}
    BY <1>3
  <2> HIDE DEF S
  <2> QED
    BY <2>1 DEF Top
<1>7. Max(S) \in S /\ Max(S) \in Int /\ \A x \in S : x <= Max(S)
  <2> HIDE DEF S
  <2> QED
    BY <1>4, <1>5, GreatestIs
<1> QED
  BY <1>3, <1>6, <1>7 DEF Range

\* More to compare with never lowers a top score.
LEMMA TopGrows ==
  ASSUME NEW model, Numbers(model), NEW q \in Sentences,
         NEW s, IsList(s), s # <<>>, NEW t, IsList(t), t # <<>>,
         Range(s) \subseteq Range(t), Range(t) \subseteq Sentences
  PROVE  Top(model, q, s) <= Top(model, q, t)
<1>1. Range(s) \subseteq Sentences
  OBVIOUS
<1>2. PICK d \in Range(s) : Top(model, q, s) = Cosine(model, q, d)
  BY <1>1, TopIs
<1> QED
  BY <1>2, TopIs

\* How many entries reach a threshold.
Over(f, t) == Cardinality({i \in DOMAIN f : f[i] >= t})

LEMMA OverGrows ==
  ASSUME NEW f, NEW g, DOMAIN f = DOMAIN g, IsFiniteSet(DOMAIN f), NEW t \in Int, NEW u \in Int, u <= t,
         \A i \in DOMAIN f : f[i] \in Int /\ g[i] \in Int /\ f[i] <= g[i]
  PROVE  Over(f, t) <= Over(g, u) /\ Over(f, t) \in Nat /\ Over(g, u) \in Nat
<1> DEFINE F == {i \in DOMAIN f : f[i] >= t}
           G == {i \in DOMAIN g : g[i] >= u}
<1>1. F \subseteq G
  <2> SUFFICES ASSUME NEW i \in DOMAIN f, f[i] >= t PROVE g[i] >= u
    OBVIOUS
  <2>1. f[i] \in Int /\ g[i] \in Int /\ f[i] <= g[i]
    OBVIOUS
  <2> QED
    BY <2>1
<1>2. F \subseteq DOMAIN f /\ G \subseteq DOMAIN f
  OBVIOUS
<1>3. Over(f, t) = Cardinality(F) /\ Over(g, u) = Cardinality(G)
  BY DEF Over
<1> HIDE DEF F, G
<1>4. IsFiniteSet(F) /\ IsFiniteSet(G)
  BY <1>2, FS_Subset
<1> QED
  BY <1>1, <1>3, <1>4, FS_Subset, FS_CardinalityType

\* The recursion of Total.
Sums(u, s) ==
  /\ u[0] = 0
  /\ \A i \in 1 .. Len(s) : u[i] = u[i - 1] + s[i]
  /\ Total(s) = u[Len(s)]

LEMMA TotalUnfold ==
  ASSUME NEW s \in Seq(Int)
  PROVE  \E u : Sums(u, s)
<1> DEFINE N == Len(s)
           step == [x \in (1 .. N) \X Int |-> x[2] + s[x[1]]]
           Body(u) == [i \in 0 .. N |-> IF i = 0 THEN 0 ELSE u[i - 1] + s[i]]
           F == CHOOSE u : u = Body(u)
<1>1. N \in Nat /\ 0 \in Int /\ \A i \in 1 .. N : s[i] \in Int
  OBVIOUS
<1>2. F[N] = Total(s)
  BY DEF Total
<1>3. step \in [(1 .. N) \X Int -> Int] /\ \A i \in 1 .. N, b \in Int : step[<<i, b>>] = b + s[i]
  BY <1>1
<1> HIDE DEF N, step
<1>4. PICK f : f \in [0 .. N -> Int] /\ f[0] = 0 /\ \A i \in 1 .. N : f[i] = step[<<i, f[i - 1]>>]
  <2>1. step \in Steps(N, Int)
    BY <1>3 DEF Steps
  <2>2. \E f : Follows(f, N, Int, 0, step)
    BY <1>1, <2>1, Recursion
  <2> QED
    BY <2>2 DEF Follows
<1>5. ASSUME NEW i \in 0 .. N PROVE f[i] = IF i = 0 THEN 0 ELSE f[i - 1] + s[i]
  <2>1. CASE i = 0
    BY <1>4, <2>1
  <2>2. CASE i # 0
    <3>1. i \in 1 .. N /\ i - 1 \in 0 .. N
      BY <1>1, <2>2
    <3>2. f[i] = step[<<i, f[i - 1]>>] /\ f[i - 1] \in Int
      BY <1>4, <3>1
    <3> QED
      BY <1>3, <2>2, <3>1, <3>2
  <2> QED
    BY <2>1, <2>2
<1>6. f = Body(f)
  <2>1. DOMAIN f = 0 .. N /\ f = [i \in 0 .. N |-> f[i]]
    BY <1>4
  <2> QED
    BY <1>5, <2>1
<1>7. F = Body(F)
  BY <1>6
<1> HIDE DEF F
<1>8. F[0] = 0 /\ \A i \in 1 .. N : F[i] = F[i - 1] + s[i]
  <2>1. 0 \in 0 .. N /\ \A i \in 1 .. N : i \in 0 .. N /\ i # 0
    BY <1>1
  <2>2. \A i \in 0 .. N : F[i] = IF i = 0 THEN 0 ELSE F[i - 1] + s[i]
    BY <1>7
  <2> QED
    BY <2>1, <2>2
<1> QED
  BY <1>2, <1>8 DEF N, Sums

LEMMA TotalGrows ==
  ASSUME NEW s \in Seq(Int), NEW t \in Seq(Int), Len(s) = Len(t), \A i \in 1 .. Len(s) : s[i] <= t[i]
  PROVE  Total(s) <= Total(t)
<1>1. PICK u : Sums(u, s)
  BY TotalUnfold
<1>2. PICK v : Sums(v, t)
  BY TotalUnfold
<1> DEFINE N == Len(s)
           T == {i \in Nat : u[i] \in Int /\ v[i] \in Int /\ u[i] <= v[i]}
<1>3. N \in Nat /\ \A i \in 1 .. N : s[i] \in Int /\ t[i] \in Int
  OBVIOUS
<1>4. 0 \in T
  BY <1>1, <1>2 DEF Sums
<1>5. ASSUME NEW i \in 1 .. N, i - 1 \in T PROVE i \in T
  <2>1. u[i] = u[i - 1] + s[i] /\ v[i] = v[i - 1] + t[i] /\ s[i] <= t[i]
    BY <1>1, <1>2 DEF Sums
  <2>2. i \in Nat /\ s[i] \in Int /\ t[i] \in Int /\ u[i - 1] \in Int /\ v[i - 1] \in Int /\ u[i - 1] <= v[i - 1]
    BY <1>3, <1>5
  <2> QED
    BY <2>1, <2>2
<1>6. \A i \in 0 .. N : i \in T
  <2> HIDE DEF T
  <2> QED
    BY <1>3, <1>4, <1>5, InductionUpTo
<1>7. u[N] <= v[N]
  BY <1>3, <1>6
<1> QED
  BY <1>1, <1>2, <1>7 DEF Sums

-----------------------------------------------------------------------------
(* measure(): the rows of a report                                           *)

TopsOf(model, queries, slice) == [i \in DOMAIN queries |-> Top(model, queries[i], slice)]

HitsOf(model, asked, truths, slice) ==
  [i \in DOMAIN asked |-> Top(model, asked[i], Append(slice, truths[i]))]

RowOf(m, t, tops, hits) ==
  [size |-> m, threshold |-> t, fp |-> Over(tops, t), tp |-> Over(hits, t), top |-> Total(tops)]

\* The questions of a probe, a corpus that is there, and sentences all of them.
Fits(probe, corpus) ==
  /\ IsList(probe.negative) /\ IsList(probe.positive) /\ IsList(probe.truth)
  /\ Len(probe.truth) = Len(probe.positive)
  /\ IsList(corpus) /\ corpus # <<>> /\ Distinct(corpus)
  /\ Range(probe.negative) \cup Range(probe.positive) \cup Range(probe.truth) \cup Range(corpus) \subseteq Sentences

RowAt(model, probe, corpus, m, t) ==
  LET slice == SubSeq(corpus, 1, m)
  IN  RowOf(m, t, TopsOf(model, probe.negative, slice), HitsOf(model, probe.positive, probe.truth, slice))

\* A result depends on the size it is cut to alone.
LEMMA ResultIs ==
  ASSUME NEW model, NEW probe, NEW corpus, Fits(probe, corpus), NEW n \in Nat \ {0}, NEW t
  PROVE  /\ Min({n, Len(corpus)}) \in 1 .. Len(corpus)
         /\ ScaleResult(model, probe, corpus, n, t) = RowAt(model, probe, corpus, Min({n, Len(corpus)}), t)
<1>1. Len(corpus) \in Nat /\ Len(corpus) # 0
  <2> DEFINE R == Range(corpus)
  <2>1. corpus \in Seq(R) /\ corpus # <<>>
    BY DEF Fits, IsList
  <2> HIDE DEF R
  <2> QED
    BY <2>1, EmptySeq
<1>2. Min({n, Len(corpus)}) \in 1 .. Len(corpus)
  BY <1>1, MinOfTwo
<1>3. ScaleResult(model, probe, corpus, n, t) = RowAt(model, probe, corpus, Min({n, Len(corpus)}), t)
  BY DEF ScaleResult, RowAt, RowOf, TopsOf, HitsOf, Over, Quantify
<1> QED
  BY <1>2, <1>3

\* The slice a row is of, and the slice with a true paraphrase.
Slices(slice, corpus, m) ==
  /\ IsList(slice) /\ slice # <<>> /\ Range(slice) = {corpus[i] : i \in 1 .. m}
  /\ Range(slice) \subseteq Range(corpus)
  /\ \A e : IsList(Append(slice, e)) /\ Append(slice, e) # <<>> /\ Range(Append(slice, e)) = Range(slice) \cup {e}

LEMMA SliceIs ==
  ASSUME NEW corpus, IsList(corpus), NEW m \in 1 .. Len(corpus)
  PROVE  Slices(SubSeq(corpus, 1, m), corpus, m)
<1> DEFINE slice == SubSeq(corpus, 1, m)
<1>1. Len(corpus) \in Nat /\ m \in 0 .. Len(corpus) /\ m # 0
  BY ListIs
<1>2. /\ IsList(slice) /\ Len(slice) = m /\ Range(slice) \subseteq Range(corpus)
      /\ \A i \in 1 .. m : slice[i] = corpus[i]
  BY <1>1, FirstOf
<1> HIDE DEF slice
<1>3. Range(slice) = {corpus[i] : i \in 1 .. m}
  <2>1. Range(slice) = {slice[i] : i \in 1 .. m}
    BY <1>2, ListIs
  <2> QED
    BY <1>2, <2>1
<1>4. \A s : Len(s) # 0 => s # <<>>
  <2>1. Len(<<>>) = 0
    OBVIOUS
  <2> QED
    BY <2>1
<1>5. ASSUME NEW e
      PROVE  IsList(Append(slice, e)) /\ Append(slice, e) # <<>> /\ Range(Append(slice, e)) = Range(slice) \cup {e}
  <2>1. /\ IsList(Append(slice, e)) /\ Range(Append(slice, e)) = Range(slice) \cup {e}
        /\ Len(Append(slice, e)) = m + 1
    BY <1>2, LongerList
  <2>2. m + 1 # 0
    BY <1>1
  <2>3. Append(slice, e) # <<>>
    BY <1>4, <2>1, <2>2
  <2> QED
    BY <2>1, <2>3
<1>6. slice # <<>>
  BY <1>1, <1>2, <1>4
<1> QED
  BY <1>2, <1>3, <1>5, <1>6, Zenon DEF slice, Slices

\* What the rows are made of: whole numbers that a longer slice does not lower.
LEMMA TopsAre ==
  ASSUME NEW model, Numbers(model), NEW probe, NEW corpus, Fits(probe, corpus),
         NEW m \in 1 .. Len(corpus), NEW k \in 1 .. Len(corpus), m <= k
  PROVE  LET s == SubSeq(corpus, 1, m)
             u == SubSeq(corpus, 1, k)
             f == TopsOf(model, probe.negative, s)
             g == TopsOf(model, probe.negative, u)
             h == HitsOf(model, probe.positive, probe.truth, s)
             j == HitsOf(model, probe.positive, probe.truth, u)
         IN  /\ \A i \in DOMAIN probe.negative : f[i] \in Int /\ g[i] \in Int /\ f[i] <= g[i]
             /\ \A i \in DOMAIN probe.positive :
                  /\ h[i] \in Int /\ j[i] \in Int /\ h[i] <= j[i]
                  /\ Cosine(model, probe.positive[i], probe.truth[i]) \in Int
                  /\ Cosine(model, probe.positive[i], probe.truth[i]) <= h[i]
<1> DEFINE s == SubSeq(corpus, 1, m)
           u == SubSeq(corpus, 1, k)
           a == probe.negative
           b == probe.positive
           c == probe.truth
<1>1. IsList(corpus) /\ Range(corpus) \subseteq Sentences
  BY DEF Fits
<1>2. /\ IsList(s) /\ s # <<>> /\ Range(s) = {corpus[i] : i \in 1 .. m} /\ Range(s) \subseteq Range(corpus)
      /\ \A e : IsList(Append(s, e)) /\ Append(s, e) # <<>> /\ Range(Append(s, e)) = Range(s) \cup {e}
  <2>1. Slices(s, corpus, m)
    BY <1>1, SliceIs
  <2> HIDE DEF s
  <2> QED
    BY <2>1, Zenon DEF Slices
<1>3. /\ IsList(u) /\ u # <<>> /\ Range(u) = {corpus[i] : i \in 1 .. k} /\ Range(u) \subseteq Range(corpus)
      /\ \A e : IsList(Append(u, e)) /\ Append(u, e) # <<>> /\ Range(Append(u, e)) = Range(u) \cup {e}
  <2>1. Slices(u, corpus, k)
    BY <1>1, SliceIs
  <2> HIDE DEF u
  <2> QED
    BY <2>1, Zenon DEF Slices
<1>4. Range(s) \subseteq Range(u)
  <2>1. \A i \in 1 .. m : i \in 1 .. k
    OBVIOUS
  <2> QED
    BY <1>2, <1>3, <2>1
<1>5. /\ DOMAIN c = DOMAIN b
      /\ \A i \in DOMAIN a : a[i] \in Sentences
      /\ \A i \in DOMAIN b : b[i] \in Sentences /\ c[i] \in Sentences
  <2>1. DOMAIN c = DOMAIN b
    <3>1. IsList(c) /\ IsList(b) /\ Len(c) = Len(b)
      BY DEF Fits
    <3> QED
      BY <3>1, ListIs
  <2> QED
    BY <2>1 DEF Fits, Range
<1>6. ASSUME NEW i \in DOMAIN a
      PROVE  /\ Top(model, a[i], s) \in Int /\ Top(model, a[i], u) \in Int
             /\ Top(model, a[i], s) <= Top(model, a[i], u)
  <2> DEFINE q == a[i]
  <2>1. q \in Sentences /\ Range(u) \subseteq Sentences /\ Range(s) \subseteq Sentences
    BY <1>1, <1>2, <1>3, <1>5
  <2> HIDE DEF q, s, u
  <2>2. Top(model, q, s) \in Int /\ Top(model, q, u) \in Int
    BY <1>2, <1>3, <2>1, TopIs
  <2>3. Top(model, q, s) <= Top(model, q, u)
    BY <1>2, <1>3, <1>4, <2>1, TopGrows
  <2> QED
    BY <2>2, <2>3 DEF q
<1>7. ASSUME NEW i \in DOMAIN b
      PROVE  /\ Top(model, b[i], Append(s, c[i])) \in Int /\ Top(model, b[i], Append(u, c[i])) \in Int
             /\ Top(model, b[i], Append(s, c[i])) <= Top(model, b[i], Append(u, c[i]))
             /\ Cosine(model, b[i], c[i]) \in Int
             /\ Cosine(model, b[i], c[i]) <= Top(model, b[i], Append(s, c[i]))
  <2> DEFINE q == b[i]
             e == c[i]
             v == Append(s, e)
             w == Append(u, e)
  <2>1. q \in Sentences /\ e \in Sentences
    BY <1>5
  <2>2. IsList(v) /\ v # <<>> /\ IsList(w) /\ w # <<>> /\ Range(v) = Range(s) \cup {e} /\ Range(w) = Range(u) \cup {e}
    BY <1>2, <1>3
  <2> HIDE DEF q, s, u, e, v, w
  <2>3. Range(v) \subseteq Range(w) /\ Range(w) \subseteq Sentences /\ Range(v) \subseteq Sentences /\ e \in Range(v)
    BY <1>1, <1>2, <1>3, <1>4, <2>1, <2>2
  <2>4. Top(model, q, v) \in Int /\ Top(model, q, w) \in Int /\ Cosine(model, q, e) <= Top(model, q, v)
    BY <2>1, <2>2, <2>3, TopIs
  <2>5. Top(model, q, v) <= Top(model, q, w)
    BY <2>1, <2>2, <2>3, TopGrows
  <2>6. Cosine(model, q, e) \in Int
    BY <2>1 DEF Numbers
  <2> QED
    BY <2>4, <2>5, <2>6 DEF q, e, v, w
<1> HIDE DEF s, u
<1> QED
  BY <1>6, <1>7 DEF TopsOf, HitsOf, s, u

\* A larger corpus and a lower threshold flag no less, and a query finds its own paraphrase.
LEMMA RowsAgree ==
  ASSUME NEW model, Numbers(model), NEW probe, NEW corpus, Fits(probe, corpus),
         NEW m \in 1 .. Len(corpus), NEW k \in 1 .. Len(corpus), m <= k,
         NEW t \in Int, NEW v \in Int, v <= t
  PROVE  LET x == RowAt(model, probe, corpus, m, t)
             y == RowAt(model, probe, corpus, k, v)
         IN  /\ x.fp \in Nat /\ y.fp \in Nat /\ x.tp \in Nat /\ y.tp \in Nat
             /\ x.fp <= y.fp /\ x.tp <= y.tp /\ x.top <= y.top
             /\ x.tp >= Cardinality({i \in DOMAIN probe.positive :
                          Cosine(model, probe.positive[i], probe.truth[i]) >= t})
<1> DEFINE s == SubSeq(corpus, 1, m)
           u == SubSeq(corpus, 1, k)
           f == TopsOf(model, probe.negative, s)
           g == TopsOf(model, probe.negative, u)
           h == HitsOf(model, probe.positive, probe.truth, s)
           j == HitsOf(model, probe.positive, probe.truth, u)
           own == [i \in DOMAIN probe.positive |-> Cosine(model, probe.positive[i], probe.truth[i])]
           x == RowAt(model, probe, corpus, m, t)
           y == RowAt(model, probe, corpus, k, v)
<1>1. /\ \A i \in DOMAIN probe.negative : f[i] \in Int /\ g[i] \in Int /\ f[i] <= g[i]
      /\ \A i \in DOMAIN probe.positive : h[i] \in Int /\ j[i] \in Int /\ h[i] <= j[i]
      /\ \A i \in DOMAIN probe.positive : own[i] \in Int /\ own[i] <= h[i]
  BY TopsAre
<1>2. /\ x.fp = Over(f, t) /\ y.fp = Over(g, v) /\ x.tp = Over(h, t) /\ y.tp = Over(j, v)
      /\ x.top = Total(f) /\ y.top = Total(g)
  BY DEF RowAt, RowOf
<1>3. /\ DOMAIN f = DOMAIN probe.negative /\ DOMAIN g = DOMAIN probe.negative
      /\ DOMAIN h = DOMAIN probe.positive /\ DOMAIN j = DOMAIN probe.positive /\ DOMAIN own = DOMAIN probe.positive
      /\ f = [i \in DOMAIN probe.negative |-> f[i]] /\ g = [i \in DOMAIN probe.negative |-> g[i]]
  BY DEF TopsOf, HitsOf
<1>4. /\ DOMAIN probe.negative = 1 .. Len(probe.negative) /\ Len(probe.negative) \in Nat
      /\ IsFiniteSet(DOMAIN probe.negative) /\ IsFiniteSet(DOMAIN probe.positive)
  BY ListIs DEF Fits
<1>5. Over(own, t) = Cardinality({i \in DOMAIN probe.positive : Cosine(model, probe.positive[i], probe.truth[i]) >= t})
  <2>1. {i \in DOMAIN own : own[i] >= t}
          = {i \in DOMAIN probe.positive : Cosine(model, probe.positive[i], probe.truth[i]) >= t}
    OBVIOUS
  <2> HIDE DEF own
  <2> QED
    BY <2>1 DEF Over
<1> HIDE DEF f, g, h, j, own, x, y
<1>6. Over(f, t) <= Over(g, v) /\ Over(f, t) \in Nat /\ Over(g, v) \in Nat
  BY <1>1, <1>3, <1>4, OverGrows
<1>7. Over(h, t) <= Over(j, v) /\ Over(h, t) \in Nat /\ Over(j, v) \in Nat
  BY <1>1, <1>3, <1>4, OverGrows
<1>8. Over(own, t) <= Over(h, t) /\ Over(own, t) \in Nat
  <2>1. t <= t
    OBVIOUS
  <2> QED
    BY <1>1, <1>3, <1>4, <2>1, OverGrows
<1>9. Total(f) <= Total(g)
  <2> DEFINE n == Len(probe.negative)
  <2>1. n \in Nat /\ (\A i \in 1 .. n : f[i] \in Int /\ g[i] \in Int /\ f[i] <= g[i])
        /\ f = [i \in 1 .. n |-> f[i]] /\ g = [i \in 1 .. n |-> g[i]]
    BY <1>1, <1>3, <1>4
  <2> HIDE DEF n
  <2>2. f \in Seq(Int) /\ g \in Seq(Int) /\ Len(f) = n /\ Len(g) = n
    BY <2>1, IntList
  <2> QED
    BY <2>1, <2>2, TotalGrows
<1>10. x.tp >= Over(own, t)
  BY <1>2, <1>7, <1>8
<1> QED
  BY <1>2, <1>5, <1>6, <1>7, <1>9, <1>10 DEF x, y

\* A report on a corpus, for every size and threshold.
MeasuredBy(report, model, sizes, thresholds) ==
  /\ Fits(report.probe, report.corpus) /\ report.sizes = sizes /\ report.thresholds = thresholds
  /\ report.results = {ScaleResult(model, report.probe, report.corpus, n, t) : n \in sizes, t \in thresholds}

CurveAgrees(report, model) ==
  /\ \A x, y \in report.results :
       /\ (x.threshold = y.threshold /\ x.size <= y.size)
            => (x.fp <= y.fp /\ x.tp <= y.tp /\ x.top <= y.top)
       /\ (x.size = y.size /\ x.threshold <= y.threshold) => (x.fp >= y.fp /\ x.tp >= y.tp)
  /\ \A x \in report.results :
       x.tp >= Cardinality({i \in DOMAIN report.probe.positive :
         Cosine(model, report.probe.positive[i], report.probe.truth[i]) >= x.threshold})
  /\ \A n \in report.sizes : \A t \in report.thresholds : At(report, n, t) = {} <=> n > Len(report.corpus)
  /\ \A n, k \in report.sizes : \A b \in 0 .. 1 :
       (n <= k /\ ThresholdForFpr(report, k, b) # 0)
         => ThresholdForFpr(report, n, b) \in 1 .. ThresholdForFpr(report, k, b)

\* Every row is a slice at a threshold, and every threshold is swept at each size.
LEMMA ResultsAre ==
  ASSUME NEW model, NEW report, NEW sizes \in SUBSET (Nat \ {0}), NEW thresholds \in SUBSET (Nat \ {0}),
         MeasuredBy(report, model, sizes, thresholds), NEW x \in report.results
  PROVE  /\ x.size \in 1 .. Len(report.corpus) /\ x.threshold \in thresholds
         /\ x = RowAt(model, report.probe, report.corpus, x.size, x.threshold)
         /\ \A t \in thresholds : RowAt(model, report.probe, report.corpus, x.size, t) \in report.results
<1> DEFINE probe == report.probe
           corpus == report.corpus
           m(n) == Min({n, Len(corpus)})
<1>1. PICK n \in sizes, t \in thresholds : x = ScaleResult(model, probe, corpus, n, t)
  BY DEF MeasuredBy
<1>2. n \in Nat \ {0}
  OBVIOUS
<1>3. m(n) \in 1 .. Len(corpus) /\ \A v : ScaleResult(model, probe, corpus, n, v) = RowAt(model, probe, corpus, m(n), v)
  <2>1. Fits(probe, corpus)
    BY DEF MeasuredBy
  <2> HIDE DEF probe, corpus
  <2>2. m(n) \in 1 .. Len(corpus)
    BY <1>2, <2>1, ResultIs
  <2>3. ASSUME NEW v PROVE ScaleResult(model, probe, corpus, n, v) = RowAt(model, probe, corpus, m(n), v)
    BY <1>2, <2>1, ResultIs
  <2> QED
    BY <2>2, <2>3
<1> HIDE DEF m, probe, corpus
<1>4. x = RowAt(model, probe, corpus, m(n), t)
  BY <1>1, <1>3
<1>5. x.size = m(n) /\ x.threshold = t
  BY <1>4 DEF RowAt, RowOf
<1>6. ASSUME NEW v \in thresholds PROVE RowAt(model, probe, corpus, m(n), v) \in report.results
  <2> DEFINE row(k, u) == ScaleResult(model, probe, corpus, k, u)
  <2>1. report.results = {row(k, u) : k \in sizes, u \in thresholds}
    BY DEF MeasuredBy, probe, corpus
  <2>2. n \in sizes /\ v \in thresholds
    OBVIOUS
  <2>3. row(n, v) \in report.results
    <3> HIDE DEF row
    <3> QED
      BY <2>1, <2>2
  <2> QED
    BY <1>3, <2>3
<1> QED
  BY <1>3, <1>4, <1>5, <1>6 DEF probe, corpus

LEMMA CurveIs ==
  ASSUME NEW model, Numbers(model), NEW report,
         NEW sizes \in SUBSET (Nat \ {0}), NEW thresholds \in SUBSET (Nat \ {0}),
         MeasuredBy(report, model, sizes, thresholds)
  PROVE  CurveAgrees(report, model)
<1> DEFINE probe == report.probe
           corpus == report.corpus
           row(m, t) == RowAt(model, probe, corpus, m, t)
           R == report.results
<1>1. ASSUME NEW x \in R
      PROVE  /\ x.size \in 1 .. Len(corpus) /\ x.size \in Int /\ x.threshold \in thresholds
             /\ x.threshold \in Nat \ {0} /\ x.threshold \in Int
             /\ x = row(x.size, x.threshold) /\ \A t \in thresholds : row(x.size, t) \in R
  <2>1. /\ x.size \in 1 .. Len(corpus) /\ x.threshold \in thresholds
        /\ x = row(x.size, x.threshold) /\ \A t \in thresholds : row(x.size, t) \in R
    BY ResultsAre
  <2> HIDE DEF row, R
  <2>2. x.size \in Int
    <3>1. \A k \in 1 .. Len(corpus) : k \in Int
      OBVIOUS
    <3> QED
      BY <2>1, <3>1, Zenon
  <2>3. x.threshold \in Nat \ {0} /\ x.threshold \in Int
    <3>1. \A t \in thresholds : t \in Nat \ {0}
      OBVIOUS
    <3>2. \A t \in Nat \ {0} : t \in Int
      OBVIOUS
    <3> QED
      BY <2>1, <3>1, <3>2, Zenon
  <2> QED
    BY <2>1, <2>2, <2>3, Zenon
<1>2. \A m, t : row(m, t).size = m /\ row(m, t).threshold = t
  BY DEF RowAt, RowOf
<1>3. ASSUME NEW m \in 1 .. Len(corpus), NEW k \in 1 .. Len(corpus), m <= k,
             NEW t \in Int, NEW v \in Int, v <= t
      PROVE  /\ row(m, t).fp \in Nat /\ row(k, v).fp \in Nat
             /\ row(m, t).fp <= row(k, v).fp /\ row(m, t).tp <= row(k, v).tp /\ row(m, t).top <= row(k, v).top
             /\ row(m, t).tp >= Cardinality({i \in DOMAIN probe.positive :
                                  Cosine(model, probe.positive[i], probe.truth[i]) >= t})
             /\ row(m, t).tp \in Nat /\ row(k, v).tp \in Nat
  BY <1>3, RowsAgree DEF MeasuredBy
<1> HIDE DEF row
<1>4. ASSUME NEW x \in R, NEW y \in R, x.size <= y.size, y.threshold <= x.threshold
      PROVE  x.fp \in Nat /\ y.fp \in Nat /\ x.fp <= y.fp /\ x.tp <= y.tp /\ x.top <= y.top
             /\ x.tp \in Nat /\ y.tp \in Nat
  <2> DEFINE m == x.size
             k == y.size
             t == x.threshold
             v == y.threshold
  <2>1. /\ m \in 1 .. Len(corpus) /\ k \in 1 .. Len(corpus) /\ t \in Int /\ v \in Int
        /\ x = row(m, t) /\ y = row(k, v) /\ m <= k /\ v <= t
    BY <1>1, <1>4
  <2> HIDE DEF m, k, t, v
  <2> QED
    BY <1>3, <2>1
<1>5. ASSUME NEW x \in R, NEW y \in R, NEW b \in Int, x.size <= y.size, ThresholdForFpr(report, y.size, b) # 0
      PROVE  ThresholdForFpr(report, x.size, b) \in 1 .. ThresholdForFpr(report, y.size, b)
  <2> DEFINE at(n) == {z \in R : z.size = n /\ z.fp <= b}
             within(n) == {z.threshold : z \in at(n)}
  <2>1. \A n : ThresholdForFpr(report, n, b) = IF within(n) = {} THEN 0 ELSE Min(within(n))
    BY DEF ThresholdForFpr
  <2>2. \A n : within(n) \in SUBSET Nat /\ 0 \notin within(n)
    BY <1>1
  <2>3. ASSUME NEW n, within(n) # {}
        PROVE  /\ Min(within(n)) \in within(n) /\ Min(within(n)) \in Nat /\ Min(within(n)) # 0
               /\ \A t \in within(n) : Min(within(n)) <= t
    <3> DEFINE W == within(n)
    <3>1. W \in SUBSET Nat /\ W # {} /\ 0 \notin W
      BY <2>2, <2>3
    <3> HIDE DEF W
    <3>2. Min(W) \in W /\ \A t \in W : Min(W) <= t
      BY <3>1, LeastOf DEF Min
    <3>3. Min(W) \in Nat /\ Min(W) # 0
      BY <3>1, <3>2
    <3> QED
      BY <3>2, <3>3 DEF W
  <2> DEFINE t == Min(within(y.size))
  <2>4. within(y.size) # {} /\ ThresholdForFpr(report, y.size, b) = t
    BY <1>5, <2>1
  <2>5. PICK z \in R : z.size = y.size /\ z.fp <= b /\ z.threshold = t
    BY <2>3, <2>4, SMTT(60)
  <2> DEFINE w == row(x.size, t)
  <2>6. w \in R /\ w.size = x.size /\ w.threshold = t
    BY <1>1, <1>2, <2>5
  <2> HIDE DEF t, w
  <2>7. w.fp <= b
    <3>1. w.size <= z.size /\ z.threshold <= w.threshold
      <4>1. t \in Int
        BY <1>1, <2>5
      <4> QED
        BY <1>5, <2>5, <2>6, <4>1
    <3>2. w.fp \in Nat /\ z.fp \in Nat /\ w.fp <= z.fp
      BY <1>4, <2>6, <3>1
    <3> QED
      BY <2>5, <3>2
  <2>8. t \in within(x.size)
    BY <2>6, <2>7
  <2> HIDE DEF within
  <2>9. within(x.size) # {}
    BY <2>8
  <2>10. /\ ThresholdForFpr(report, x.size, b) = Min(within(x.size)) /\ Min(within(x.size)) \in Nat
         /\ Min(within(x.size)) # 0 /\ Min(within(x.size)) <= t /\ t \in Nat
    BY <2>1, <2>2, <2>3, <2>8, <2>9
  <2> QED
    BY <2>4, <2>10
<1>6. ASSUME NEW x \in R
      PROVE  x.tp >= Cardinality({i \in DOMAIN probe.positive :
                       Cosine(model, probe.positive[i], probe.truth[i]) >= x.threshold})
  <2>1. x.size \in 1 .. Len(corpus) /\ x.size <= x.size /\ x.threshold \in Int /\ x.threshold <= x.threshold
        /\ x = row(x.size, x.threshold)
    BY <1>1
  <2> QED
    BY <1>3, <2>1
<1>7. ASSUME NEW x \in R, NEW y \in R
      PROVE  /\ (x.threshold = y.threshold /\ x.size <= y.size)
                  => (x.fp <= y.fp /\ x.tp <= y.tp /\ x.top <= y.top)
             /\ (x.size = y.size /\ x.threshold <= y.threshold) => (x.fp >= y.fp /\ x.tp >= y.tp)
  <2>1. x.size \in Int /\ y.size \in Int /\ x.threshold \in Int /\ y.threshold \in Int
    BY <1>1
  <2>2. ASSUME x.threshold = y.threshold, x.size <= y.size PROVE x.fp <= y.fp /\ x.tp <= y.tp /\ x.top <= y.top
    <3>1. y.threshold <= x.threshold
      BY <2>1, <2>2
    <3> QED
      BY <1>4, <2>2, <3>1
  <2>3. ASSUME x.size = y.size, x.threshold <= y.threshold PROVE x.fp >= y.fp /\ x.tp >= y.tp
    <3>1. y.size <= x.size
      BY <2>1, <2>3
    <3>2. y.fp \in Nat /\ x.fp \in Nat /\ y.fp <= x.fp /\ y.tp <= x.tp /\ y.tp \in Nat /\ x.tp \in Nat
      BY <1>4, <2>3, <3>1
    <3> QED
      BY <3>2
  <2> QED
    BY <2>2, <2>3
<1> DEFINE N == Len(corpus)
<1>8. report.sizes = sizes /\ report.thresholds = thresholds /\ N \in Nat
  BY ListIs DEF MeasuredBy, Fits
<1>9. ASSUME NEW n \in sizes, n <= N, NEW t \in thresholds
      PROVE  \E x \in R : x.size = n /\ x.threshold = t
  <2> DEFINE result(k, u) == ScaleResult(model, probe, corpus, k, u)
             x == result(n, t)
  <2>1. R = {result(k, u) : k \in sizes, u \in thresholds}
    BY DEF MeasuredBy
  <2>2. x \in R
    <3> HIDE DEF result
    <3> QED
      BY <2>1
  <2>3. Min({n, N}) = n
    <3>1. n \in Nat
      OBVIOUS
    <3> QED
      BY <1>8, <1>9, <3>1, MinOfTwo
  <2>4. x.size = Min({n, N}) /\ x.threshold = t
    BY DEF ScaleResult
  <2> HIDE DEF R, x
  <2> QED
    BY <2>2, <2>3, <2>4
<1>10. ASSUME NEW n \in sizes, NEW t \in thresholds PROVE At(report, n, t) = {} <=> n > N
  <2>1. n \in Nat
    OBVIOUS
  <2>2. ASSUME n > N PROVE At(report, n, t) = {}
    <3>1. \A x \in R : x.size <= N /\ x.size \in Int
      BY <1>1
    <3> QED
      BY <1>8, <2>1, <2>2, <3>1 DEF At
  <2>3. ASSUME ~(n > N) PROVE At(report, n, t) # {}
    <3>1. n <= N
      BY <1>8, <2>1, <2>3
    <3> QED
      BY <1>9, <3>1 DEF At
  <2> HIDE DEF N, R
  <2> QED
    BY <2>2, <2>3, Zenon
<1>11. ASSUME NEW n \in sizes, NEW k \in sizes, NEW b \in 0 .. 1, n <= k, ThresholdForFpr(report, k, b) # 0
       PROVE  ThresholdForFpr(report, n, b) \in 1 .. ThresholdForFpr(report, k, b)
  <2>1. PICK y \in R : y.size = k
    BY <1>11 DEF ThresholdForFpr
  <2>2. k \in 1 .. N /\ n \in Nat /\ n <= N /\ y.threshold \in thresholds
    BY <1>1, <1>8, <1>11, <2>1
  <2>3. PICK x \in R : x.size = n
    BY <1>9, <2>2
  <2>4. b \in Int
    OBVIOUS
  <2> HIDE DEF R
  <2> QED
    BY <1>5, <1>11, <2>1, <2>3, <2>4
<1> HIDE DEF R
<1> QED
  BY <1>6, <1>7, <1>8, <1>10, <1>11 DEF CurveAgrees, R, probe, N


\* Rows whose texts are sentences that the models score.
Known(pairs) == IsList(pairs) /\ TextsOf(pairs) \subseteq Sentences

LEMMA TextsWithin ==
  ASSUME NEW s, NEW t, Known(t), IsList(s), \A i \in DOMAIN s : \E k \in DOMAIN t : s[i] = t[k]
  PROVE  Known(s)
BY DEF Known, TextsOf

LEMMA KnownLists ==
  ASSUME NEW s, Known(s), NEW P, NEW order
  PROVE  /\ Moves(order, Len(s)) => Known(Shuffled(s, order))
         /\ Known(Those(s, P)) /\ Len(Those(s, P)) \in Nat /\ Len(Those(s, P)) <= Len(s)
<1>1. IsList(s)
  BY DEF Known
<1>2. Moves(order, Len(s)) => Known(Shuffled(s, order))
  <2> DEFINE t == Shuffled(s, order)
  <2>1. IsList(t) /\ (Moves(order, Len(s)) => \A i \in DOMAIN t : \E k \in DOMAIN s : t[i] = s[k])
    BY <1>1, ShuffledIs
  <2> HIDE DEF t
  <2>2. ASSUME Moves(order, Len(s)) PROVE Known(t)
    <3>1. \A i \in DOMAIN t : \E k \in DOMAIN s : t[i] = s[k]
      BY <2>1, <2>2
    <3> QED
      BY <2>1, <3>1, TextsWithin
  <2> QED
    BY <2>2 DEF t
<1>3. Known(Those(s, P)) /\ Len(Those(s, P)) \in Nat /\ Len(Those(s, P)) <= Len(s)
  <2> DEFINE t == Those(s, P)
  <2>1. s \in Seq(Range(s))
    BY <1>1 DEF IsList
  <2>2. t \in Seq(Range(s)) /\ Len(t) <= Len(s)
    BY <2>1, ThoseAre, ThoseShorter
  <2> HIDE DEF t
  <2>3. IsList(t) /\ Range(t) \subseteq Range(s)
    BY <2>2, ListOf
  <2>4. \A i \in DOMAIN t : \E k \in DOMAIN s : t[i] = s[k]
    BY <2>3 DEF Range
  <2> QED
    BY <2>2, <2>3, <2>4, TextsWithin, ListIs DEF t
<1> QED
  BY <1>2, <1>3

LEMMA KnownJoined ==
  ASSUME NEW s, Known(s), NEW t, Known(t)
  PROVE  Known(s \o t)
<1> DEFINE b == s \o t
<1>1. IsList(b) /\ Range(b) = Range(s) \cup Range(t)
  BY JoinedLists DEF Known
<1> HIDE DEF b
<1>2. \A i \in DOMAIN b : (\E k \in DOMAIN s : b[i] = s[k]) \/ (\E k \in DOMAIN t : b[i] = t[k])
  BY <1>1 DEF Range
<1>3. TextsOf(b) \subseteq Sentences
  BY <1>2 DEF Known, TextsOf
<1> QED
  BY <1>1, <1>3 DEF Known, b

\* The peak of a sentence is a number that no question scores above.
LEMMA PeakIs ==
  ASSUME NEW model, Numbers(model), NEW probe,
         IsList(probe.negative), IsList(probe.positive), probe.negative # <<>>,
         Range(probe.negative) \cup Range(probe.positive) \subseteq Sentences,
         NEW d \in Sentences
  PROVE  /\ Peak(model, probe, d) \in Int
         /\ \A q \in Range(probe.negative) : Cosine(model, q, d) \in Int /\ Cosine(model, q, d) <= Peak(model, probe, d)
<1> DEFINE asked == Range(probe.negative) \cup Range(probe.positive)
<1>1. IsFiniteSet(asked) /\ asked # {} /\ asked \subseteq Sentences
  <2> DEFINE a == probe.negative
             b == probe.positive
  <2>1. IsFiniteSet(DOMAIN a) /\ IsFiniteSet(DOMAIN b)
    BY ListIs
  <2>2. Range(a) = {a[i] : i \in DOMAIN a} /\ Range(b) = {b[i] : i \in DOMAIN b}
    BY DEF Range
  <2>3. a # <<>> /\ Len(a) \in Nat /\ DOMAIN a = 1 .. Len(a) /\ a \in Seq(Range(a))
    BY ListIs DEF IsList
  <2>4. asked \subseteq Sentences
    OBVIOUS
  <2> HIDE DEF a, b
  <2>5. IsFiniteSet(Range(a)) /\ IsFiniteSet(Range(b))
    BY <2>1, <2>2, FiniteImage
  <2>6. Len(a) # 0
    <3> DEFINE R == Range(a)
    <3> HIDE DEF R
    <3> QED
      BY <2>3, EmptySeq DEF R
  <2>7. 1 \in DOMAIN a
    BY <2>3, <2>6
  <2>8. a[1] \in Range(a)
    BY <2>2, <2>7
  <2> QED
    BY <2>4, <2>5, <2>8, FS_Union DEF a, b
<1> DEFINE f == [q \in asked |-> Cosine(model, q, d)]
           S == {f[q] : q \in asked}
<1>2. \A q \in asked : f[q] \in Int /\ f[q] = Cosine(model, q, d)
  BY <1>1 DEF Numbers
<1>3. S = {Cosine(model, q, d) : q \in asked}
  BY <1>2
<1>4. IsFiniteSet(S)
  <2>1. DOMAIN f = asked
    OBVIOUS
  <2> HIDE DEF f, asked
  <2> QED
    BY <1>1, <2>1, FiniteImage
<1>5. S \subseteq Int /\ S # {}
  BY <1>1, <1>2
<1>6. Max(S) \in Int /\ \A x \in S : x <= Max(S)
  <2> HIDE DEF S
  <2> QED
    BY <1>4, <1>5, GreatestIs
<1>7. Peak(model, probe, d) = Max(S)
  <2>1. Peak(model, probe, d) = Max({Cosine(model, q, d) : q \in asked})
    BY DEF Peak
  <2> HIDE DEF S, asked
  <2> QED
    BY <1>3, <2>1
<1>8. \A q \in asked : Cosine(model, q, d) \in S /\ Cosine(model, q, d) \in Int
  BY <1>2
<1> HIDE DEF S
<1> QED
  BY <1>6, <1>7, <1>8

\* Equals come as they came, so counting what is ahead ranks the whole corpus.
LEMMA RetrievalIs ==
  ASSUME NEW model, Numbers(model), NEW probe,
         IsList(probe.negative), IsList(probe.positive), probe.negative # <<>>,
         Range(probe.negative) \cup Range(probe.positive) \subseteq Sentences,
         NEW texts, IsList(texts), Distinct(texts), Range(texts) \subseteq Sentences
  PROVE  LET o == RetrievalOrder(model, probe, texts)
         IN  IsList(o) /\ Distinct(o) /\ Len(o) = Len(texts) /\ Range(o) = Range(texts)
<1> DEFINE N == Len(texts)
           peak == [i \in DOMAIN texts |-> Peak(model, probe, texts[i])]
           ahead(i) == {j \in DOMAIN texts : peak[j] > peak[i] \/ (peak[j] = peak[i] /\ j < i)}
           before == [i \in DOMAIN texts |-> ahead(i)]
           place == [n \in DOMAIN texts |-> CHOOSE i \in DOMAIN texts : Cardinality(ahead(i)) = n - 1]
           o == RetrievalOrder(model, probe, texts)
<1>1. N \in Nat /\ DOMAIN texts = 1 .. N /\ \A i \in 1 .. N : texts[i] \in Sentences
  BY ListIs
<1>3. \A i \in 1 .. N : peak[i] \in Int
  <2> SUFFICES ASSUME NEW i \in 1 .. N PROVE peak[i] \in Int
    OBVIOUS
  <2>1. texts[i] \in Sentences /\ peak[i] = Peak(model, probe, texts[i])
    BY <1>1
  <2> HIDE DEF peak
  <2> QED
    BY <2>1, PeakIs
<1>4. o = [n \in DOMAIN texts |-> texts[place[n]]]
  BY DEF RetrievalOrder
<1> HIDE DEF N, peak, o
<1>5. StrictOrder(N, before)
  <2>1. before \in [1 .. N -> SUBSET (1 .. N)]
    BY <1>1
  <2>2. \A i \in 1 .. N : i \notin before[i]
    BY <1>1, <1>3
  <2>3. \A i, j \in 1 .. N : i = j \/ i \in before[j] \/ j \in before[i]
    BY <1>1, <1>3
  <2>4. ASSUME NEW i \in 1 .. N, NEW j \in 1 .. N, i \in before[j], NEW k \in 1 .. N, k \in before[i] PROVE k \in before[j]
    <3>1. peak[i] > peak[j] \/ (peak[i] = peak[j] /\ i < j)
      BY <1>1, <2>4
    <3>2. peak[k] > peak[i] \/ (peak[k] = peak[i] /\ k < i)
      BY <1>1, <2>4
    <3>3. peak[i] \in Int /\ peak[j] \in Int /\ peak[k] \in Int
      BY <1>3
    <3>4. peak[k] > peak[j] \/ (peak[k] = peak[j] /\ k < j)
      BY <1>1, <3>1, <3>2, <3>3
    <3> QED
      BY <1>1, <3>4
  <2>5. \A i, j \in 1 .. N : i \in before[j] => before[i] \subseteq before[j]
    <3> HIDE DEF before
    <3> QED
      BY <2>1, <2>4
  <2> HIDE DEF before
  <2> QED
    BY <2>1, <2>2, <2>3, <2>5 DEF StrictOrder
<1> HIDE DEF before
<1>6. PICK rank : Ranks(rank, N, before)
  BY <1>1, <1>5, OrderedPlaces
<1>7. \A n \in 1 .. N : place[n] \in 1 .. N /\ rank[place[n]] = n
  <2> SUFFICES ASSUME NEW n \in 1 .. N PROVE place[n] \in 1 .. N /\ rank[place[n]] = n
    OBVIOUS
  <2>1. PICK i \in 1 .. N : rank[i] = n
    BY <1>6 DEF Ranks
  <2>2. Cardinality(before[i]) = n - 1 /\ \A k \in 1 .. N : before[k] = ahead(k)
    BY <1>1, <1>6, <2>1 DEF before, Ranks
  <2>3. place[n] \in 1 .. N /\ Cardinality(before[place[n]]) = n - 1
    <3> HIDE DEF ahead
    <3> QED
      BY <1>1, <2>2
  <2> HIDE DEF place
  <2>4. rank[place[n]] - 1 = n - 1 /\ rank[place[n]] \in 1 .. N
    BY <1>6, <2>3 DEF Ranks
  <2> QED
    BY <2>3, <2>4
<1>8. \A i \in 1 .. N : rank[i] \in 1 .. N /\ place[rank[i]] = i
  <2> SUFFICES ASSUME NEW i \in 1 .. N PROVE rank[i] \in 1 .. N /\ place[rank[i]] = i
    OBVIOUS
  <2> HIDE DEF place
  <2>1. rank[i] \in 1 .. N
    BY <1>6 DEF Ranks
  <2>2. place[rank[i]] \in 1 .. N /\ rank[place[rank[i]]] = rank[i]
    BY <1>7, <2>1
  <2> QED
    BY <1>6, <2>1, <2>2 DEF Ranks
<1> HIDE DEF place
<1>9. o = [n \in 1 .. N |-> o[n]] /\ \A n \in 1 .. N : o[n] = texts[place[n]]
  BY <1>1, <1>4
<1>10. IsList(o) /\ Len(o) = N
  BY <1>1, <1>9, Listed
<1>11. DOMAIN o = 1 .. N
  BY <1>10, ListIs
<1>12. Distinct(o)
  <2> SUFFICES ASSUME NEW i \in 1 .. N, NEW j \in 1 .. N, o[i] = o[j] PROVE i = j
    BY <1>11 DEF Distinct
  <2>1. place[i] = place[j]
    BY <1>1, <1>7, <1>9 DEF Distinct
  <2> QED
    BY <1>7, <2>1
<1>13. Range(o) = Range(texts)
  <2>1. \A n \in 1 .. N : \E i \in 1 .. N : o[n] = texts[i]
    BY <1>7, <1>9
  <2>2. \A i \in 1 .. N : \E n \in 1 .. N : texts[i] = o[n]
    BY <1>8, <1>9, SMTT(60)
  <2>3. /\ Range(o) = {o[n] : n \in 1 .. N} /\ Range(texts) = {texts[i] : i \in 1 .. N}
    BY <1>1, <1>11 DEF Range
  <2> QED
    BY <2>1, <2>2, <2>3, ZenonT(60)
<1> QED
  BY <1>10, <1>12, <1>13 DEF N, o

-----------------------------------------------------------------------------
(* The questions of a probe, and the report on them                          *)

Questioned(probe) ==
  /\ IsList(probe.negative) /\ IsList(probe.positive) /\ IsList(probe.truth)
  /\ Len(probe.truth) = Len(probe.positive)
  /\ IsList(probe.distractors) /\ Distinct(probe.distractors)
  /\ Range(probe.negative) \cup Range(probe.positive) \cup Range(probe.truth)
       \cup Range(probe.distractors) \subseteq Sentences

LEMMA ProbeIs ==
  ASSUME NEW pairs, Known(pairs), NEW positives, Known(positives), NEW extra, Known(extra),
         NEW n \in Nat, NEW most, NEW poolOnly
  PROVE  Questioned(BuildProbe(pairs, positives, extra, n, most, poolOnly))
<1> DEFINE probe == BuildProbe(pairs, positives, extra, n, most, poolOnly)
           chosen == PositivePairs(positives, n)
           asked == [i \in DOMAIN chosen |-> chosen[i].a]
           truths == [i \in DOMAIN chosen |-> chosen[i].b]
           used == Range(asked) \cup Range(truths)
           negative == NegativeQueries(pairs, used, n)
           source == IF poolOnly THEN extra ELSE pairs \o extra
           out == used \cup negative.excluded
           texts == Texts(source)
<1>1. /\ probe.negative = negative.queries /\ probe.positive = asked /\ probe.truth = truths
      /\ probe.distractors = Distractors(texts, out, most)
  BY DEF BuildProbe
<1>2. /\ IsList(chosen) /\ \A i \in DOMAIN chosen : \E k \in DOMAIN positives : chosen[i] = positives[k]
  <2> DEFINE m == Min({n, Len(positives)})
  <2>1. IsList(positives) /\ Len(positives) \in Nat
    BY ListIs DEF Known
  <2>2. m \in 0 .. Len(positives)
    BY <2>1, MinOfTwo
  <2>3. chosen = SubSeq(positives, 1, m)
    BY DEF PositivePairs
  <2> HIDE DEF m, chosen
  <2>4. /\ IsList(chosen) /\ Len(chosen) = m
        /\ \A i \in 1 .. m : i \in DOMAIN positives /\ chosen[i] = positives[i]
    BY <2>1, <2>2, <2>3, FirstOf
  <2> QED
    BY <2>4, ListIs
<1> HIDE DEF probe, negative, chosen
<1>3. Known(chosen) /\ Len(chosen) \in Nat /\ DOMAIN chosen = 1 .. Len(chosen)
  BY <1>2, TextsWithin, ListIs
<1>4. \A i \in DOMAIN chosen : chosen[i].a \in Sentences /\ chosen[i].b \in Sentences
  BY <1>3 DEF Known, TextsOf
<1>5. /\ IsList(asked) /\ IsList(truths) /\ Len(truths) = Len(asked)
      /\ Range(asked) \cup Range(truths) \subseteq Sentences
  <2> DEFINE m == Len(chosen)
  <2>1. m \in Nat /\ asked = [i \in 1 .. m |-> asked[i]] /\ truths = [i \in 1 .. m |-> truths[i]]
    BY <1>3
  <2>2. Range(asked) \cup Range(truths) \subseteq Sentences
    BY <1>4 DEF Range
  <2> HIDE DEF m, asked, truths
  <2> QED
    BY <2>1, <2>2, Listed
<1> HIDE DEF asked, truths
<1>6. IsList(negative.queries) /\ Range(negative.queries) \subseteq Sentences
  <2>1. AskedOf(negative, pairs)
    BY NegativeQueriesAre DEF Known, negative
  <2>2. \A q \in Range(negative.queries) : \E j \in DOMAIN pairs : pairs[j].a = q
    BY <2>1 DEF AskedOf
  <2>3. \A j \in DOMAIN pairs : pairs[j].a \in Sentences
    BY DEF Known, TextsOf
  <2> QED
    BY <2>1, <2>2, <2>3 DEF AskedOf
<1>7. Known(source)
  <2>1. Known(pairs \o extra)
    BY KnownJoined
  <2> QED
    BY <2>1
<1> HIDE DEF source, out
<1>8. IsList(texts) /\ Range(texts) \subseteq Sentences
  BY <1>7, TextsAre DEF Known
<1> HIDE DEF texts
<1>9. LET d == probe.distractors IN IsList(d) /\ Distinct(d) /\ Range(d) \subseteq Sentences
  BY <1>1, <1>8, DistractorsAre
<1>10. Questioned(probe)
  BY <1>1, <1>5, <1>6, <1>9 DEF Questioned
<1> QED
  BY <1>10 DEF probe

\* Where near duplicates are dropped, no query is flagged at that score or above.
Bounded(report, drop) == drop # 0 => \A x \in report.results : x.threshold >= drop => x.fp = 0

\* Every question scores below a number against every sentence of a corpus.
Below(model, probe, corpus, drop) ==
  \A d \in Range(corpus) : \A q \in Range(probe.negative) : Cosine(model, q, d) < drop

LEMMA NothingFlagged ==
  ASSUME NEW model, Numbers(model), NEW probe, NEW corpus, Fits(probe, corpus), NEW drop \in Int,
         Below(model, probe, corpus, drop), NEW m \in 1 .. Len(corpus), NEW t \in Int, t >= drop
  PROVE  RowAt(model, probe, corpus, m, t).fp = 0
<1> DEFINE slice == SubSeq(corpus, 1, m)
           tops == TopsOf(model, probe.negative, slice)
           flagged == {i \in DOMAIN tops : tops[i] >= t}
<1>1. IsList(slice) /\ slice # <<>> /\ Range(slice) \subseteq Range(corpus)
  BY SliceIs DEF Fits, Slices
<1>2. RowAt(model, probe, corpus, m, t).fp = Cardinality(flagged)
  BY DEF RowAt, RowOf, Over
<1> HIDE DEF slice
<1>3. ASSUME NEW i \in DOMAIN tops PROVE ~(tops[i] >= t)
  <2> DEFINE q == probe.negative[i]
  <2>1. tops[i] = Top(model, q, slice) /\ q \in Range(probe.negative) /\ q \in Sentences
    BY DEF TopsOf, Fits, Range
  <2>2. Range(slice) \subseteq Sentences
    BY <1>1 DEF Fits
  <2> HIDE DEF q, tops
  <2>3. PICK d \in Range(slice) : Top(model, q, slice) = Cosine(model, q, d)
    BY <1>1, <2>1, <2>2, TopIs
  <2>4. Cosine(model, q, d) < drop /\ Cosine(model, q, d) \in Int
    BY <1>1, <2>1, <2>2 DEF Below, Numbers
  <2> QED
    BY <2>1, <2>3, <2>4
<1>4. flagged = {}
  BY <1>3
<1> HIDE DEF flagged
<1> QED
  BY <1>2, <1>4, FS_EmptySet

\* What is left below a peak is below it for every question.
LEMMA KeptIsBelow ==
  ASSUME NEW model, Numbers(model), NEW probe, Questioned(probe), probe.negative # <<>>, NEW drop \in Int,
         NEW corpus, Range(corpus) \subseteq Sentences,
         \A d \in Range(corpus) : Peak(model, probe, d) < drop
  PROVE  Below(model, probe, corpus, drop)
<1> SUFFICES ASSUME NEW d \in Range(corpus), NEW q \in Range(probe.negative)
             PROVE  Cosine(model, q, d) < drop
  BY DEF Below
<1>1. /\ Peak(model, probe, d) \in Int
      /\ Cosine(model, q, d) \in Int /\ Cosine(model, q, d) <= Peak(model, probe, d)
  BY PeakIs DEF Questioned
<1>2. Peak(model, probe, d) < drop
  OBVIOUS
<1> QED
  BY <1>1, <1>2

\* A report on what can be measured fits its questions.
LEMMA ReportFits ==
  ASSUME NEW model, Numbers(model), NEW probe, Questioned(probe), NEW drop \in Int, Measurable(model, probe, drop),
         NEW sizes \in SUBSET (Nat \ {0}), NEW thresholds \in SUBSET (Nat \ {0}), NEW mode
  PROVE  LET report == ScaleReport(model, probe, sizes, thresholds, mode, drop)
         IN  report.probe = probe /\ MeasuredBy(report, model, sizes, thresholds) /\ Bounded(report, drop)
<1> DEFINE kept == WithoutNearDuplicates(model, probe, drop)
           corpus == IF mode = "retrieved" THEN RetrievalOrder(model, probe, kept) ELSE kept
           d == probe.distractors
           report == ScaleReport(model, probe, sizes, thresholds, mode, drop)
<1>1. IsList(d) /\ Distinct(d) /\ Range(d) \subseteq Sentences /\ d \in Seq(Range(d))
  BY DEF Questioned, IsList
<1>2. kept # <<>> /\ probe.negative # <<>>
  BY DEF Measurable
<1>3. /\ IsList(kept) /\ Distinct(kept) /\ Range(kept) \subseteq Sentences
      /\ drop # 0 => \A e \in Range(kept) : Peak(model, probe, e) < drop
  <2> DEFINE P == {e \in Range(d) : Peak(model, probe, e) < drop}
             t == Those(d, P)
  <2>1. (drop = 0 /\ kept = d) \/ kept = t
    BY DEF WithoutNearDuplicates
  <2>4. \A e \in P : Peak(model, probe, e) < drop
    OBVIOUS
  <2> HIDE DEF kept, P, d
  <2>2. t \in Seq(Range(d)) /\ Distinct(t) /\ Range(t) \subseteq P
    BY <1>1, ThoseAre, ThoseDistinct
  <2> HIDE DEF t
  <2>3. IsList(t) /\ Range(t) \subseteq Range(d)
    BY <2>2, ListOf
  <2> QED
    BY <1>1, <2>1, <2>2, <2>3, <2>4
<1> HIDE DEF kept
<1>4. /\ IsList(corpus) /\ Distinct(corpus) /\ Range(corpus) \subseteq Sentences /\ corpus # <<>>
      /\ Range(corpus) = Range(kept)
  <2> DEFINE o == RetrievalOrder(model, probe, kept)
  <2>1. IsList(o) /\ Distinct(o) /\ Len(o) = Len(kept) /\ Range(o) = Range(kept)
    BY <1>2, <1>3, RetrievalIs DEF Questioned
  <2>2. o # <<>>
    <3>1. kept \in Seq(Range(kept)) /\ Len(<<>>) = 0
      BY <1>3 DEF IsList
    <3>2. Len(kept) # 0
      <4> DEFINE R == Range(kept)
      <4> HIDE DEF R
      <4> QED
        BY <1>2, <3>1, EmptySeq DEF R
    <3> HIDE DEF o
    <3> QED
      BY <2>1, <3>1, <3>2
  <2> HIDE DEF o
  <2>3. corpus = o \/ corpus = kept
    BY DEF o
  <2> QED
    BY <1>2, <1>3, <2>1, <2>2, <2>3
<1>5. /\ report.probe = probe /\ report.corpus = corpus
      /\ report.sizes = sizes /\ report.thresholds = thresholds
      /\ report.results = {ScaleResult(model, probe, corpus, n, t) : n \in sizes, t \in thresholds}
  BY DEF ScaleReport, kept
<1> HIDE DEF corpus, report
<1>6. Fits(probe, corpus)
  BY <1>4 DEF Fits, Questioned
<1>7. MeasuredBy(report, model, sizes, thresholds)
  BY <1>5, <1>6 DEF MeasuredBy
<1>8. Bounded(report, drop)
  <2> SUFFICES ASSUME drop # 0, NEW x \in report.results, x.threshold >= drop PROVE x.fp = 0
    BY DEF Bounded
  <2>1. \A e \in Range(corpus) : Peak(model, probe, e) < drop
    BY <1>3, <1>4
  <2>2. Below(model, probe, corpus, drop)
    BY <1>2, <1>4, <2>1, KeptIsBelow
  <2>3. /\ x.size \in 1 .. Len(corpus) /\ x.threshold \in thresholds
        /\ x = RowAt(model, probe, corpus, x.size, x.threshold)
    <3>1. /\ x.size \in 1 .. Len(report.corpus) /\ x.threshold \in thresholds
          /\ x = RowAt(model, report.probe, report.corpus, x.size, x.threshold)
      BY <1>7, ResultsAre
    <3> QED
      BY <1>5, <3>1
  <2>4. x.threshold \in Int
    <3>1. \A u \in thresholds : u \in Int
      OBVIOUS
    <3> QED
      BY <2>3, <3>1, Zenon
  <2> DEFINE m == x.size
             t == x.threshold
  <2>5. m \in 1 .. Len(corpus) /\ t \in Int /\ t >= drop
    BY <2>3, <2>4
  <2>6. x = RowAt(model, probe, corpus, m, t)
    BY <2>3
  <2> HIDE DEF m, t
  <2>7. RowAt(model, probe, corpus, m, t).fp = 0
    BY <1>6, <2>2, <2>5, NothingFlagged
  <2> QED
    BY <2>6, <2>7
<1> QED
  BY <1>5, <1>7, <1>8 DEF report


-----------------------------------------------------------------------------
(* Two reports on the same questions over the same corpus, however ordered   *)

SameQuestions(p, q) == p.negative = q.negative /\ p.positive = q.positive /\ p.truth = q.truth

LEMMA TopOfRange ==
  ASSUME NEW model, NEW q, NEW s, NEW t, Range(s) = Range(t)
  PROVE  Top(model, q, s) = Top(model, q, t)
<1>1. {Cosine(model, q, s[i]) : i \in DOMAIN s} = {Cosine(model, q, t[i]) : i \in DOMAIN t}
  BY DEF Range
<1> QED
  BY <1>1 DEF Top

LEMMA WholeCorpus ==
  ASSUME NEW model, NEW p, NEW c, NEW q, NEW d, Fits(p, c), Fits(q, d), SameQuestions(p, q),
         Range(c) = Range(d), NEW t
  PROVE  Len(c) = Len(d) /\ RowAt(model, p, c, Len(c), t) = RowAt(model, q, d, Len(d), t)
<1> DEFINE m == Len(c)
           s == SubSeq(c, 1, m)
           u == SubSeq(d, 1, m)
<1>1. /\ IsList(c) /\ Distinct(c) /\ c # <<>> /\ IsList(d) /\ Distinct(d)
      /\ IsList(p.positive) /\ IsList(p.truth) /\ Len(p.truth) = Len(p.positive)
  BY DEF Fits
<1>2. m \in Nat /\ m = Len(d) /\ Range(c) = {c[i] : i \in 1 .. m} /\ Range(d) = {d[i] : i \in 1 .. m}
  <2>1. m = Len(d)
    BY <1>1, DistinctLength
  <2> QED
    BY <1>1, <2>1, ListIs
<1>3. m # 0
  <2> DEFINE R == Range(c)
  <2>1. c \in Seq(R)
    BY <1>1 DEF IsList
  <2> HIDE DEF R
  <2> QED
    BY <1>1, <2>1, EmptySeq
<1> HIDE DEF m
<1>4. Slices(s, c, m) /\ Slices(u, d, m)
  <2>1. m \in 1 .. Len(c) /\ m \in 1 .. Len(d)
    BY <1>2, <1>3 DEF m
  <2> QED
    BY <1>1, <2>1, SliceIs
<1> HIDE DEF s, u
<1>5. Range(s) = Range(u) /\ \A e : Range(Append(s, e)) = Range(Append(u, e))
  <2>1. Range(s) = {c[i] : i \in 1 .. m} /\ \A e : Range(Append(s, e)) = Range(s) \cup {e}
    BY <1>4, Zenon DEF Slices
  <2>2. Range(u) = {d[i] : i \in 1 .. m} /\ \A e : Range(Append(u, e)) = Range(u) \cup {e}
    BY <1>4, Zenon DEF Slices
  <2> QED
    BY <1>2, <2>1, <2>2, ZenonT(60)
<1>6. TopsOf(model, p.negative, s) = TopsOf(model, q.negative, u)
  <2>1. \A i \in DOMAIN p.negative : Top(model, p.negative[i], s) = Top(model, p.negative[i], u)
    BY <1>5, TopOfRange
  <2> QED
    BY <2>1 DEF TopsOf, SameQuestions
<1>7. HitsOf(model, p.positive, p.truth, s) = HitsOf(model, q.positive, q.truth, u)
  <2>1. \A e, x : Top(model, x, Append(s, e)) = Top(model, x, Append(u, e))
    BY <1>5, TopOfRange
  <2> QED
    BY <2>1 DEF HitsOf, SameQuestions
<1> QED
  BY <1>2, <1>6, <1>7 DEF RowAt, m, s, u

-----------------------------------------------------------------------------
(* run_corpus.py: the curves agree                                           *)

\* What is asked of a set, whatever the corpus is.
Asked(n) == BuildProbe(Shuffled(disk[n], command.seed.pairs),
                       Shuffled(Those(disk[n], {p \in Range(disk[n]) : p.label = 1}), command.seed.positives),
                       <<>>, command.queries, 0, FALSE)

Legible(r) ==
  /\ MeasuredBy(r.report, command.model, command.sizes, command.thresholds)
  /\ SameQuestions(r.report.probe, Asked(r.name))
  /\ Bounded(r.report, command.drop_above) /\ r.printed = Printed(r.report)

LEMMA SameAsked ==
  ASSUME NEW pairs, NEW positives, NEW n, NEW e, NEW m, NEW o, NEW f, NEW k, NEW v
  PROVE  SameQuestions(BuildProbe(pairs, positives, e, n, m, o), BuildProbe(pairs, positives, f, n, k, v))
BY DEF BuildProbe, SameQuestions

LEMMA ModelIs ==
  ASSUME Bench, command.kind = "corpus"
  PROVE  /\ Numbers(command.model) /\ command.queries \in Nat /\ command.drop_above \in Int
         /\ command.sizes \in SUBSET (Nat \ {0}) /\ command.thresholds \in SUBSET (Nat \ {0})
<1>1. command \in Commands
  BY CommandIs
<1>2. Numbers(command.model)
  BY <1>1, ModelsAssumption DEF Numbers
<1>3. command.queries \in Nat /\ command.drop_above \in Int /\ command.sizes \subseteq Nat \ {0} /\ command.thresholds \subseteq Nat \ {0}
  BY <1>1, CommandsAssumption
<1> QED
  BY <1>2, <1>3

LEMMA ReportSound ==
  ASSUME Bench, command.kind = "corpus", NEW mode, CanMeasure(mode)
  PROVE  Legible(CorpusReport(mode))
<1> DEFINE n == Head(todo)[1]
           rows == disk[n]
           extra == Extra(mode)
           P == {p \in Range(rows) : p.label = 1}
           pairs == Shuffled(rows, command.seed.pairs)
           positives == Shuffled(Those(rows, P), command.seed.positives)
           given == Shuffled(extra, command.seed.extra)
           most == PoolBudget(command.sizes, mode, Texts(rows \o extra))
           probe == Probe(mode)
           r == CorpusReport(mode)
<1>1. /\ Known(rows) /\ Known(extra) /\ Len(rows) \in Nat /\ Len(rows) <= MostRows(command)
      /\ Len(extra) \in Nat /\ Len(extra) <= MostRows(command)
      /\ \A order \in {command.seed.pairs, command.seed.positives, command.seed.extra} :
           \A k \in Nat : k <= MostRows(command) => Moves(order, k)
  <2>1. /\ IsRows(rows) /\ Len(rows) \in Nat /\ Len(rows) <= MostRows(command)
        /\ IsList(extra) /\ TextsOf(extra) \subseteq Sentences
        /\ Len(extra) <= MostRows(command)
        /\ \A order \in {command.seed.pairs, command.seed.positives, command.seed.extra} :
             \A k \in Nat : k <= MostRows(command) => Moves(order, k)
    BY StepIs
  <2> HIDE DEF rows, extra
  <2> QED
    BY <2>1, ListIs DEF IsRows, Known
<1>2. probe = BuildProbe(pairs, positives, given, command.queries, most, command.pool_only)
  BY DEF Probe, Extra, Wanted
<1>3. Asked(n) = BuildProbe(pairs, positives, <<>>, command.queries, 0, FALSE)
  BY DEF Asked
<1>4. /\ r.report = ScaleReport(command.model, probe, command.sizes, command.thresholds, mode, command.drop_above)
      /\ r.name = n /\ r.printed = Printed(r.report)
  BY DEF CorpusReport
<1>5. Measurable(command.model, probe, command.drop_above)
  BY DEF CanMeasure
<1> HIDE DEF r, probe, n, rows, extra, most, P
<1>6. Known(pairs) /\ Known(given)
  <2>1. Moves(command.seed.pairs, Len(rows)) /\ Moves(command.seed.extra, Len(extra))
    BY <1>1
  <2> QED
    BY <1>1, <2>1, KnownLists
<1>7. Known(positives)
  <2> DEFINE t == Those(rows, P)
  <2>1. Known(t) /\ Len(t) \in Nat /\ Len(t) <= Len(rows)
    BY <1>1, KnownLists
  <2>2. MostRows(command) \in Nat
    <3>1. command \in Commands /\ IsList(command.pool)
      BY CommandIs, CommandsAssumption
    <3> DEFINE a == Len(command.pool)
               b == Longest
    <3>2. a \in Nat /\ b \in Nat
      BY <3>1, ListIs, LongestIs
    <3>3. MostRows(command) = (a + 1) * b
      BY DEF MostRows
    <3> HIDE DEF a, b
    <3> QED
      BY <3>2, <3>3
  <2> HIDE DEF t
  <2>3. Len(t) <= MostRows(command)
    BY <1>1, <2>1, <2>2
  <2>4. Moves(command.seed.positives, Len(t))
    BY <1>1, <2>1, <2>3
  <2> QED
    BY <2>1, <2>4, KnownLists DEF t
<1> HIDE DEF pairs, positives, given
<1>8. Questioned(probe)
  BY <1>2, <1>6, <1>7, ModelIs, ProbeIs
<1>9. /\ r.report.probe = probe /\ MeasuredBy(r.report, command.model, command.sizes, command.thresholds)
      /\ Bounded(r.report, command.drop_above)
  BY <1>4, <1>5, <1>8, ModelIs, ReportFits
<1>10. SameQuestions(probe, Asked(n))
  BY <1>2, <1>3, SameAsked
<1> QED
  BY <1>4, <1>9, <1>10 DEF Legible, r

CurvesSoFar == command.kind = "corpus" => \A r \in Range(reports) : Legible(r)

LEMMA CurvesStart == BenchInit => CurvesSoFar
  BY DEF BenchInit, CurvesSoFar

LEMMA CurvesKept == Bench /\ CurvesSoFar /\ [BenchNext]_benchVars => CurvesSoFar'
<1> SUFFICES ASSUME Bench, CurvesSoFar, [BenchNext]_benchVars, command'.kind = "corpus"
             PROVE  \A r \in Range(reports') : Legible(r)'
  BY DEF CurvesSoFar
<1>1. ASSUME command' = command, disk' = disk, NEW r PROVE Legible(r)' <=> Legible(r)
  BY <1>1 DEF Legible, Asked
<1>2. ASSUME UNCHANGED <<command, reports, disk>>
      PROVE  \A r \in Range(reports') : Legible(r)'
  BY <1>1, <1>2 DEF CurvesSoFar
<1>3. CASE \E c \in Commands : Start(c)
  BY <1>3, EmptyList DEF Start
<1>4. CASE CorpusRun
  <2> DEFINE mode == Head(todo)[2]
             r == CorpusReport(mode)
  <2>1. /\ command.kind = "corpus" /\ CanMeasure(mode) /\ reports' = Append(reports, r)
        /\ disk' = disk /\ command' = command
    BY <1>4 DEF CorpusRun, Running, Reports
  <2>2. Legible(r)
    BY <2>1, ReportSound
  <2> HIDE DEF r
  <2>3. Range(reports') = Range(reports) \cup {r}
    BY <2>1, LongerList DEF Bench
  <2> QED
    BY <1>1, <2>1, <2>2, <2>3 DEF CurvesSoFar
<1>5. CASE UNCHANGED benchVars \/ CorpusSkip \/ CorpusEnd
  BY <1>2, <1>5 DEF benchVars, CorpusSkip, CorpusEnd, Passes, Ends
<1>6. CASE FetchUnknown \/ Fetch \/ FetchInterrupted \/ FetchEnd
  BY <1>6 DEF FetchUnknown, Fetch, FetchInterrupted, FetchEnd, Passes, Ends, Running
<1>7. CASE PairsSkip \/ PairsRun \/ PairsCrash \/ PairsFallback \/ PairsEnd
  BY <1>7 DEF PairsSkip, PairsRun, PairsCrash, PairsFallback, PairsEnd, Passes, Ends, Running
<1>8. CASE TuneUnknown \/ Tune \/ TuneEnd
  BY <1>8 DEF TuneUnknown, Tune, TuneEnd, Ends, Reports, Running
<1> QED
  BY <1>3, <1>4, <1>5, <1>6, <1>7, <1>8 DEF BenchNext

LEMMA CurvesFollow == Bench /\ CurvesSoFar => CurvesAgree
<1> SUFFICES ASSUME Bench, CurvesSoFar, command.kind = "corpus" PROVE CurvesAgree
  BY DEF CurvesAgree, Measured
<1>1. /\ Measured = Range(reports)
      /\ Numbers(command.model)
      /\ command.sizes \in SUBSET (Nat \ {0}) /\ command.thresholds \in SUBSET (Nat \ {0})
  BY ModelIs DEF Measured
<1>2. \A r \in Measured : Legible(r)
  BY <1>1 DEF CurvesSoFar
<1>3. ASSUME NEW r \in Measured PROVE CurveAgrees(r.report, command.model)
  <2> DEFINE report == r.report
  <2>1. MeasuredBy(report, command.model, command.sizes, command.thresholds)
    BY <1>2 DEF Legible
  <2> HIDE DEF report
  <2>2. CurveAgrees(report, command.model)
    BY <1>1, <2>1, CurveIs
  <2> QED
    BY <2>2 DEF report
<1>4. ASSUME NEW r \in Measured, NEW s \in Measured,
             r.name = s.name, Range(r.report.corpus) = Range(s.report.corpus),
             NEW x \in r.report.results, NEW y \in s.report.results,
             x.size = Len(r.report.corpus), y.size = x.size, y.threshold = x.threshold
      PROVE  x = y
  <2> DEFINE a == r.report
             b == s.report
             p == a.probe
             q == b.probe
             c == a.corpus
             d == b.corpus
             model == command.model
  <2>1. MeasuredBy(a, model, command.sizes, command.thresholds) /\ MeasuredBy(b, model, command.sizes, command.thresholds)
    BY <1>2 DEF Legible
  <2>2. SameQuestions(p, q)
    <3>1. SameQuestions(p, Asked(r.name)) /\ SameQuestions(q, Asked(s.name))
      BY <1>2 DEF Legible
    <3> QED
      BY <1>4, <3>1 DEF SameQuestions
  <2>3. x \in a.results /\ y \in b.results /\ Range(c) = Range(d)
    BY <1>4
  <2> HIDE DEF a, b, model
  <2>4. x = RowAt(model, p, c, x.size, x.threshold)
    BY <1>1, <2>1, <2>3, ResultsAre, ZenonT(60)
  <2>5. y = RowAt(model, q, d, y.size, y.threshold)
    BY <1>1, <2>1, <2>3, ResultsAre, ZenonT(60)
  <2>6. Fits(p, c) /\ Fits(q, d)
    BY <2>1 DEF MeasuredBy
  <2>7. x.size = Len(c)
    BY <1>4 DEF a
  <2> DEFINE t == x.threshold
  <2> HIDE DEF p, q, c, d, t
  <2>8. Len(c) = Len(d) /\ RowAt(model, p, c, Len(c), t) = RowAt(model, q, d, Len(d), t)
    BY <2>2, <2>3, <2>6, WholeCorpus
  <2>9. y.size = Len(d) /\ y.threshold = t /\ x.threshold = t
    BY <1>4, <2>7, <2>8 DEF t
  <2> QED
    BY <2>4, <2>5, <2>7, <2>8, <2>9
<1>5. ASSUME NEW r \in Measured
      PROVE  /\ \A n \in command.sizes : \A t \in command.thresholds :
                  r.printed[n].at[t] = {} <=> n > Len(r.report.corpus)
             /\ \A n, k \in command.sizes : \A b \in 0 .. 1 :
                  (n <= k /\ r.printed[k].lowest[b] # 0)
                    => r.printed[n].lowest[b] \in 1 .. r.printed[k].lowest[b]
  <2>1. /\ r.printed = Printed(r.report)
        /\ r.report.sizes = command.sizes /\ r.report.thresholds = command.thresholds
    BY <1>2 DEF Legible, MeasuredBy
  <2>2. /\ \A n \in command.sizes : \A t \in command.thresholds : r.printed[n].at[t] = At(r.report, n, t)
        /\ \A n \in command.sizes : \A b \in 0 .. 1 : r.printed[n].lowest[b] = ThresholdForFpr(r.report, n, b)
    BY <2>1 DEF Printed
  <2>3. CurveAgrees(r.report, command.model)
    BY <1>3
  <2> QED
    BY <2>1, <2>2, <2>3 DEF CurveAgrees
<1> QED
  BY <1>3, <1>4, <1>5 DEF CurvesAgree, CurveAgrees

\* The curves of a corpus report can be read, whatever the models score, the sizes and
\* thresholds, the pools and the orders of the shuffles.
THEOREM CurvesHold == BenchSpec => []CurvesAgree
<1>1. BenchInit => Bench /\ CurvesSoFar
  BY BenchStarts, CurvesStart
<1>2. Bench /\ CurvesSoFar /\ [BenchNext]_benchVars => (Bench /\ CurvesSoFar)'
  BY BenchKept, CurvesKept
<1> QED
  BY <1>1, <1>2, CurvesFollow, PTL DEF BenchSpec

\* How far a flag is a false positive by construction, whatever the pools, the orders of the
\* shuffles, the sizes and the sets on disk: queries and drawn truths stay out, the partner a
\* negative query was drawn with stays out, a corpus of the pools alone has their texts only,
\* and where near duplicates are dropped nothing is flagged at that score or above.
THEOREM CorpusStaysClean == BenchSpec => []CorpusIsClean
<1>1. BenchInit => Bench /\ CorpusSoFar /\ CurvesSoFar
  BY BenchStarts, CorpusStarts, CurvesStart
<1>2. Bench /\ CorpusSoFar /\ CurvesSoFar /\ [BenchNext]_benchVars => (Bench /\ CorpusSoFar /\ CurvesSoFar)'
  BY BenchKept, CorpusKept, CurvesKept
<1>3. CorpusSoFar /\ CurvesSoFar => CorpusIsClean
  <2> SUFFICES ASSUME command.kind = "corpus", NEW r \in Range(reports),
                      Clean(r.report.probe, disk[r.name], r.extra, command.pool_only), Legible(r)
               PROVE  Clean(r.report.probe, disk[r.name], r.extra, command.pool_only)
                      /\ Bounded(r.report, command.drop_above)
    BY DEF CorpusIsClean, Measured, CorpusSoFar, CurvesSoFar, Clean, Bounded
  <2> QED
    BY DEF Legible
<1> QED
  BY <1>1, <1>2, <1>3, PTL DEF BenchSpec
=============================================================================

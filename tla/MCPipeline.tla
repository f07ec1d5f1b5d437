----------------------------- MODULE MCPipeline -----------------------------
(* Two checks, each over one of a few manuscripts and two sizes of corpus.   *)
EXTENDS Pipeline

P(id, type, score) ==
  [id |-> id, type |-> type, score |-> score, covered |-> FALSE, figures |-> FALSE,
   quoted |-> FALSE, cited |-> FALSE, common |-> FALSE]

Copied      == P(1, "verbatim", 4)
Quotation   == [P(2, "verbatim", 4) EXCEPT !.quoted = TRUE, !.cited = TRUE]
Unsourced   == [P(3, "verbatim", 4) EXCEPT !.quoted = TRUE]
Boilerplate == [P(4, "verbatim", 4) EXCEPT !.common = TRUE]
InCopied    == [P(5, "paraphrase", 4) EXCEPT !.covered = TRUE]
Template    == [P(6, "paraphrase", 3) EXCEPT !.figures = TRUE]
Restated    == [P(7, "paraphrase", 2) EXCEPT !.cited = TRUE, !.quoted = TRUE]
Translated  == [P(8, "translated", 3) EXCEPT !.figures = TRUE, !.cited = TRUE]
Unlike      == P(9, "paraphrase", 1)
Close       == P(10, "paraphrase", 4)

Manuscripts == {{}, {Quotation, Boilerplate}, {Copied, InCopied, Unlike},
                {Unsourced, Restated}, {Template, Translated, Close}, {Restated, Template}, {Translated}}

MCInputs ==
  {[passages |-> m, words |-> TRUE, sentences |-> TRUE, cutoff |-> k] : m \in Manuscripts, k \in {3, 4}}
  \cup {[passages |-> {}, words |-> w, sentences |-> FALSE, cutoff |-> 3] : w \in BOOLEAN}
  \cup {[passages |-> {Unsourced}, words |-> TRUE, sentences |-> FALSE, cutoff |-> 3]}
=============================================================================

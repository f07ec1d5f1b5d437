------------------------------ MODULE Matcher ------------------------------
(***************************************************************************)
(* What services/plagiarism_matcher.py computes for one document and its   *)
(* sources: the greedy search for copied words, the sentences most like    *)
(* the source's, and the counts.  The encoder, the lexical ranking and the *)
(* detection of languages are constants; the search itself, a loop, is in  *)
(* module Recheck, whose steps call these definitions.                     *)
(***************************************************************************)
EXTENDS Prose

CONSTANTS
  NGram, MinVerbatim,       \* ngram, min_verbatim_words
  MinSentence, MaxSentences, \* min_sentence_words, max_source_sentences
  Similarity(_, _),         \* of two sentences, in per cent: the encoder
  Relevance(_, _),          \* of a source sentence to a document's: the lexical ranking
  Language(_),              \* of a sentence; "" when it is too short to tell
  Floor, Base, Ceiling,     \* paraphrase_threshold, confident_threshold, confidence_ceiling
  Pivot, Drift(_),          \* confidence_scale_pivot; k * log10(n / pivot)
  Gate,                     \* numeric_guard_gate
  MaxOverlap                \* 60: a sentence more covered than this is a copy already shown

ASSUME MatcherAssumption ==
  /\ NGram \in Nat \ {0} /\ MinVerbatim \in Nat /\ MinVerbatim >= NGram
  /\ Floor <= Base

Sources(texts) == [s \in DOMAIN texts |-> Norms(texts[s])]

-----------------------------------------------------------------------------
(* _verbatim_matches(), over words *)

\* The k-gram index: where the words from `at` on begin a copy.
Seeds(doc, norms, at) ==
  {c \in UNION {{s} \X DOMAIN norms[s] : s \in DOMAIN norms} :
     /\ c[2] + NGram - 1 <= Len(norms[c[1]])
     /\ SubSeq(norms[c[1]], c[2], c[2] + NGram - 1) = SubSeq(doc, at, at + NGram - 1)}

\* How many words agree from there.
RunLength(doc, norm, at, i) ==
  LET most == Min({Len(doc) - at, Len(norm) - i}) + 1
  IN  CHOOSE n \in 0 .. most :
        /\ \A k \in 0 .. n - 1 : doc[at + k] = norm[i + k]
        /\ n = most \/ doc[at + n] # norm[i + n]

\* The longest copy; of equal ones the first in the index.
Longest(doc, norms, at) ==
  LET length(c) == RunLength(doc, norms[c[1]], at, c[2])
      first(c, d) == c[1] < d[1] \/ (c[1] = d[1] /\ c[2] <= d[2])
  IN  CHOOSE c \in Seeds(doc, norms, at) :
        \A d \in Seeds(doc, norms, at) :
          length(c) > length(d) \/ (length(c) = length(d) /\ first(c, d))

Verbatim(source, docSpan, sourceSpan) ==
  [type |-> "verbatim", score |-> 100, confidence |-> "confident", conflict |-> FALSE,
   source |-> source, span |-> docSpan, at |-> sourceSpan]

-----------------------------------------------------------------------------
(* _paraphrase_matches(), over sentences *)

OwnSentences(doc) == Sentences(doc, MinSentence)

OfSource(s, spans) == [i \in DOMAIN spans |-> [source |-> s, span |-> spans[i]]]
SourceSentences(texts) ==
  FlattenSeq([s \in DOMAIN texts |-> OfSource(s, Sentences(texts[s], MinSentence))])

\* _budget_source_sentences(): the most relevant ones, or the first when ranking fails,
\* in their own order.
Budget(doc, own, texts, all, ranked) ==
  LET best(i) == Max({Relevance(Slice(doc, own[d]), Slice(texts[all[i].source], all[i].span)) : d \in DOMAIN own})
      ahead(i) == IF ranked THEN {j \in DOMAIN all : best(j) > best(i) \/ (best(j) = best(i) /\ j < i)}
                  ELSE 1 .. i - 1
      kept == Places(Len(all), {i \in DOMAIN all : Cardinality(ahead(i)) < MaxSentences})
  IN  IF Len(all) <= MaxSentences \/ own = <<>> THEN all ELSE [i \in DOMAIN kept |-> all[kept[i]]]

\* confident_threshold_for()
CutoffFor(n) == IF n <= Pivot THEN Base ELSE Min({Max({Base + Drift(n), Base}), Ceiling})

\* _overlap_ratio(), of the sentence with the copies already found
Covered(span, copies) ==
  MapThenSumSet(LAMBDA m : Cardinality((span[1] .. span[2]) \cap (m.span[1] .. m.span[2])), copies)
AlreadyShown(span, copies) == 100 * Covered(span, copies) > MaxOverlap * (span[2] - span[1] + 1)

\* The match of one sentence with the first of the source sentences it is most like.
Nearest(sentence, texts, corpus) ==
  LET like(j) == Similarity(sentence, Slice(texts[corpus[j].source], corpus[j].span))
  IN  CHOOSE j \in DOMAIN corpus : \A k \in DOMAIN corpus :
        like(j) > like(k) \/ (like(j) = like(k) /\ j <= k)

Semantic(doc, span, texts, corpus) ==
  LET sentence == Slice(doc, span)
      near     == corpus[Nearest(sentence, texts, corpus)]
      other    == Slice(texts[near.source], near.span)
      score    == Similarity(sentence, other)
      foreign  == /\ Language(sentence) # "" /\ Language(other) # ""
                  /\ Language(sentence) # Language(other)
      asserted == score >= CutoffFor(Len(corpus))
      conflict == asserted /\ ~foreign /\ NumbersConflict(sentence, other, Gate)
  IN  [type |-> IF foreign THEN "translated" ELSE "paraphrase", score |-> score,
       confidence |-> IF asserted /\ ~conflict THEN "confident" ELSE "review",
       conflict |-> conflict, source |-> near.source, span |-> span, at |-> near.span]

\* All of them, in the order of the document, of its sentences and those of the budget.
Paraphrases(doc, own, texts, corpus, copies) ==
  LET told  == [i \in DOMAIN own |-> Semantic(doc, own[i], texts, corpus)]
      shown == Places(Len(own), {i \in DOMAIN own : told[i].score >= Floor /\ ~AlreadyShown(own[i], copies)})
  IN  IF own = <<>> \/ corpus = <<>> THEN <<>> ELSE [i \in DOMAIN shown |-> told[shown[i]]]

-----------------------------------------------------------------------------
(* _aggregate() and confidence_breakdown(), in words *)

WordsOf(doc, found) == UNION {WordsIn(doc, m.span) : m \in found}

Overall_TwiceCounted(doc, matches) ==
  LET of(type)   == WordsOf(doc, {m \in Range(matches) : m.type = type})
      confident  == WordsOf(doc, {m \in Range(matches) : m.confidence = "confident"})
      review     == WordsOf(doc, {m \in Range(matches) : m.confidence = "review"})
  IN  [matched |-> of("verbatim") \cup of("paraphrase") \cup of("translated"), verbatim |-> of("verbatim"),
       paraphrase |-> of("paraphrase"), translated |-> of("translated"),
       confident |-> confident, review |-> review,
       reviews |-> Cardinality({i \in DOMAIN matches : matches[i].confidence = "review"})]
Overall(doc, matches) ==
  LET of(type)   == WordsOf(doc, {m \in Range(matches) : m.type = type})
      confident  == WordsOf(doc, {m \in Range(matches) : m.confidence = "confident"})
      review     == WordsOf(doc, {m \in Range(matches) : m.confidence = "review"})
  IN  [matched    |-> of("verbatim") \cup of("paraphrase") \cup of("translated"),
       verbatim   |-> of("verbatim"),
       paraphrase |-> (of("paraphrase") \ of("verbatim")) \ of("translated"),
       translated |-> of("translated") \ of("verbatim"),
       confident  |-> confident,
       review     |-> review \ confident,
       reviews    |-> Cardinality({i \in DOMAIN matches : matches[i].confidence = "review"})]

\* The words of each source; the source of a match is one of those that were given.
PerSource(doc, matches, texts) ==
  [s \in DOMAIN texts |-> WordsOf(doc, {m \in Range(matches) : m.source = s})]
=============================================================================

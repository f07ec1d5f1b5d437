--------------------------- MODULE AcademicSearch ---------------------------
(***************************************************************************)
(* What services/academic_corpus.py computes: the queries it takes from a  *)
(* manuscript, what each database contributes, and how their answers are   *)
(* merged and ranked.  A text is a sequence of sentences and a sentence    *)
(* one of words; a title is a sequence of signs, and its length is theirs. *)
(* A title's length counts in its text's, its words are left out of it.    *)
(* Who calls what, and when, is in module Shared.                          *)
(***************************************************************************)
EXTENDS Lists, SequencesExt, FiniteSetsExt

CONSTANTS
  MinQueryWords, QueryWords, MaxQueries, \* 8, words_per_query, max_queries
  MinAbstract,      \* _MIN_ABSTRACT, in sentences
  MaxSources,       \* max_sources
  ArxivQueries,     \* _ARXIV_MAX_QUERIES
  HasKey,           \* s2_api_key is set
  TitleLength,      \* 60
  FulltextMaxDocs   \* fulltext_max_docs

ASSUME SearchAssumption == MaxSources \in Nat /\ ArxivQueries \in Nat /\ FulltextMaxDocs \in Nat

\* build_queries(): the longest sentences, each cut to its first words and taken once.
BuildQueries(manuscript) ==
  LET long   == SelectSeq(manuscript, LAMBDA s : Len(s) >= MinQueryWords)
      order  == SortSeq([i \in DOMAIN long |-> i],
                        LAMBDA i, j : Len(long[i]) > Len(long[j]) \/ (Len(long[i]) = Len(long[j]) /\ i < j))
      query(i) == SubSeq(long[i], 1, Min({QueryWords, Len(long[i])}))
  IN  FoldLeft(LAMBDA qs, i : IF Len(qs) >= MaxQueries \/ query(i) \in Range(qs) THEN qs
                              ELSE Append(qs, query(i)), <<>>, order)

\* One database, asked query by query until it has given enough.  A reply has the works that
\* came and whether it failed, in arXiv's case after some of them.
SearchProvider(p, replies) ==
  LET most  == IF p = "arxiv" THEN ArxivQueries ELSE Len(replies)
      asked == Min({most, Len(replies)})
      usable(works) == Those(works, {w \in Range(works) : Len(w.abstract) >= MinAbstract})
      ask(r, reply) ==
        IF Len(r.out) >= MaxSources THEN r
        ELSE [out |-> r.out \o usable(reply.works), failures |-> r.failures + IF reply.failed THEN 1 ELSE 0]
      got[n \in 0 .. asked] ==
        IF n = 0 THEN [out |-> <<>>, failures |-> 0] ELSE ask(got[n - 1], replies[n])
  IN  IF p = "semanticscholar" /\ ~HasKey THEN [out |-> <<>>, unreachable |-> FALSE]
      ELSE [out |-> got[asked].out, unreachable |-> got[asked].failures > 0 /\ got[asked].out = <<>>]

\* _dedup_key(): the Latin letters and digits of the title, without the year _mk() adds or
\* one the title ends in.
DedupKey(work) ==
  LET named == IF work.year = 0 \/ work.title = <<>> THEN work.title ELSE Append(work.title, "(year)")
      bare  == IF named # <<>> /\ Last(named) = "(year)" THEN Front(named) ELSE named
      ink   == SelectSeq(bare, LAMBDA x : x \notin {"(year)", "-", "foreign"})
  IN  SubSeq(ink, 1, Min({TitleLength, Len(ink)}))

\* Works under one key are one candidate, in the place of the first to arrive, with the
\* longest text and the links of all.
Size(work) == Len(work.title) + Len(work.abstract)
Fold(found, work) ==
  LET same == {i \in DOMAIN found : found[i].key = DedupKey(work)}
      i    == CHOOSE i \in same : TRUE
      new(links) == Those(work.links, Range(work.links) \ Range(links))
  IN  IF DedupKey(work) = <<>> THEN found
      ELSE IF same = {}
      THEN Append(found, [key |-> DedupKey(work), size |-> Size(work), text |-> work.abstract,
                          kind |-> "abstract", links |-> work.links])
      ELSE [found EXCEPT ![i].links = @ \o new(@),
                         ![i].text = IF Size(work) > found[i].size THEN work.abstract ELSE @,
                         ![i].size = Max({Size(work), @})]
Merged_LastWins(collected) == FoldLeft(LAMBDA found, w : Fold(SelectSeq(found, LAMBDA c : c.key # DedupKey(w)), w), <<>>, collected)
Merged(collected) ==
  LET found[n \in 0 .. Len(collected)] == IF n = 0 THEN <<>> ELSE Fold(found[n - 1], collected[n])
      all == found[Len(collected)]
  IN  SubSeq(all, 1, Min({MaxSources, Len(all)}))

\* _lexical_overlap(): a candidate's words, and those of them the manuscript has too.
WordsOfText(text) == UNION {Range(s) : s \in Range(text)}
Ahead(words, c, d) ==
  LET share(x) == Cardinality(WordsOfText(x.text) \cap words)
      total(x) == Max({1, Cardinality(WordsOfText(x.text))})
  IN  share(c) * total(d) > share(d) * total(c)

\* _rank_for_fulltext(): the candidates with a link, the most overlapping of them.
WithLinks(found) == {i \in DOMAIN found : found[i].links # <<>>}
Chosen(manuscript, found) ==
  LET words == WordsOfText(manuscript)
      ahead(i) == {j \in WithLinks(found) : \/ Ahead(words, found[j], found[i])
                                            \/ j < i /\ ~Ahead(words, found[i], found[j])}
  IN  {i \in WithLinks(found) : Cardinality(ahead(i)) < FulltextMaxDocs}
=============================================================================

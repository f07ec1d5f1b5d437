------------------------------- MODULE Triage -------------------------------
(***************************************************************************)
(* services/triage.py and services/report.py: the fix each match asks for, *)
(* the band of the report, and the comparison of two results.  The words   *)
(* of labels, notes and guidance are left out.                             *)
(***************************************************************************)
EXTENDS Prose

CONSTANTS
  Window,          \* _QUOTE_WINDOW, in items
  ShortEnough,     \* 40: the words up to which a copy is looked for in the other sources
  PhraseWords,     \* _COMMON_PHRASE_MAX_WORDS
  PhraseShare,     \* _COMMON_PHRASE_STOPWORD_RATIO, in per cent
  FunctionWords,   \* _STOPWORDS
  Inner, Endings, Beginnings,  \* of two words, whether one is part of the other; the end; the beginning
  KeyLength        \* the 300 characters of an excerpt that tell two matches apart

ASSUME TriageAssumption == Endings \cup Beginnings \subseteq Inner

\* is_quoted(): marks that open within the window before the span or as its first item,
\* and that close within the window after it or as its last.
IsQuoted(t, span) ==
  /\ \E i \in span[1] - Window .. span[1] : KindAt(t, i) \in {"open", "quote"}
  /\ \E i \in span[2] .. span[2] + Window : KindAt(t, i) \in {"close", "quote"}

\* find_citations(), in the paragraph the match was located in
IsCited(t, paragraph) == \E i \in paragraph.start .. paragraph.end : t[i].kind = "cite"

\* `needle in t`, of words joined by blanks: the first may be the end of a word of the text,
\* the last its beginning, and a single one any part.
Partly(k, n) ==
  IF n = 1 THEN Inner ELSE IF k = 1 THEN Endings ELSE IF k = n THEN Beginnings ELSE {}
Includes(norms, words) ==
  \E i \in DOMAIN norms :
    /\ i + Len(words) - 1 <= Len(norms)
    /\ \A k \in 1 .. Len(words) :
         words[k] = norms[i + k - 1] \/ <<words[k], norms[i + k - 1]>> \in Partly(k, Len(words))

\* The sources that hold the text of the excerpt, the match's own at least.
SharedBySources_Seed(m, texts) ==
  LET words == Norms(Slice(texts[m.source], m.at))
  IN  Cardinality({s \in DOMAIN texts : Includes(Norms(texts[s]), SubSeq(words, 1, 2))})
SharedBySources(m, texts) ==
  LET words == Norms(Slice(texts[m.source], m.at))
  IN  Cardinality({s \in DOMAIN texts : Includes(Norms(texts[s]), words)})

StopwordShare(words) ==
  100 * Cardinality({i \in DOMAIN words : words[i] \in FunctionWords}) >= PhraseShare * Len(words)

\* collect_signals()
Signals(t, paragraph, m, texts) ==
  LET words == Norms(Slice(t, m.span))
  IN  [quoted |-> IsQuoted(t, m.span), cited |-> IsCited(t, paragraph),
       common |-> \/ Len(words) <= ShortEnough /\ SharedBySources(m, texts) >= 2
                  \/ Len(words) <= PhraseWords /\ StopwordShare(words)]

\* classify() and the priorities of RULES, 1 is the most urgent.
Rules ==
  [verbatim_uncited |-> 1, paraphrase_uncited |-> 1, verbatim_cited_unquoted |-> 2,
   quoted_uncited |-> 2, paraphrase_cited |-> 3, needs_review |-> 3, common_phrase |-> 4,
   quoted_cited |-> 5]

Classify(m, s) ==
  LET copied == m.type = "verbatim"
  IN  CASE copied /\ s.common                     -> "common_phrase"
        [] ~copied /\ m.confidence = "review"     -> "needs_review"
        [] OTHER ->
             CASE s.quoted /\ s.cited                 -> "quoted_cited"
               [] copied /\ s.quoted /\ ~s.cited      -> "quoted_uncited"
               [] copied /\ ~s.quoted /\ s.cited      -> "verbatim_cited_unquoted"
               [] copied /\ ~s.quoted /\ ~s.cited     -> "verbatim_uncited"
               [] ~copied /\ s.cited /\ ~s.quoted     -> "paraphrase_cited"
               [] ~copied /\ ~s.cited                 -> "paraphrase_uncited"

\* How many matches have a rule of these priorities: needs_action of triage_matches(), and
\* what build_report() counts itself.
Asking(types, ps) == Cardinality({i \in DOMAIN types : Rules[types[i]] \in ps})

\* build_report()
BandFor(types, reviews) ==
  IF Asking(types, {1, 2}) > 0 THEN "act"
  ELSE IF Asking(types, {3}) > 0 \/ reviews > 0 THEN "look" ELSE "clear"

-----------------------------------------------------------------------------
(* compare() *)

\* _key(): the type, the source's id and the beginning of its excerpt, case and spacing aside.
Folded(t) ==
  LET ink == Those(t, {x \in Range(t) : x.kind # "line"})
  IN  [i \in 1 .. Min({KeyLength, Len(ink)}) |-> IF IsWord(ink[i]) THEN ink[i].norm ELSE ink[i].kind]
Key_ByPlace(m, texts, ids) == <<m.type, ids[m.source], m.span>>
Key(m, texts, ids) == <<m.type, ids[m.source], Folded(Slice(texts[m.source], m.at))>>

\* The keys of each result are those of a dict: two matches with one key are one flag.
Comparison(before, after) ==
  [resolved |-> before \ after, new |-> after \ before, remaining |-> before \cap after]
=============================================================================

------------------------------ MODULE Recheck ------------------------------
(***************************************************************************)
(* A manuscript checked against its references, revised, and checked again *)
(* against the result before: worker/runner.py over the stages of          *)
(* pipeline/stages.py, without the academic search and the reranker.  The  *)
(* definitions it composes are those of the parser, the matcher, triage    *)
(* and the report; what may fail and is caught fails here.                 *)
(***************************************************************************)
EXTENDS DocumentParser, Matcher, Triage

CONSTANTS
  Uploads,   \* [paper, references]: what a check is given
  None

\* What the encoder is asked about: the sentences of a text.
SentencesOf(t) == {Slice(t, span) : span \in Range(Sentences(t, MinSentence))}

ASSUME RecheckAssumption ==
  /\ None \notin {"act", "look", "clear"}
  /\ \A u \in Uploads : /\ IsDocument(u.paper) /\ IsList(u.references)
                        /\ \A r \in Range(u.references) : IsDocument(r)

\* A similarity is a cosine, in per cent.
ASSUME EncoderAssumption ==
  \A u \in Uploads : \A r \in Range(u.references) :
    \A a \in SentencesOf(Parsed(u.paper).text), b \in SentencesOf(Parsed(r).text) :
      Similarity(a, b) \in -100 .. 100

VARIABLES
  given,      \* the uploads of the current check
  pc,         \* its stage
  doc,        \* the parsed manuscript: text and paragraphs
  sources,    \* the readable references: their texts, and the upload each one was
  at,         \* di, the word the search has come to
  matches,
  semantic,   \* paraphrase_enabled
  overall,    \* as sets of words
  types,      \* of each match, the rule triage chose; None when triage failed
  band,
  previous,   \* what the check before left, if any
  comparison  \* the re-check

vars == <<given, pc, doc, sources, at, matches, semantic, overall, types, band, previous, comparison>>
found == <<matches, semantic, overall, types, band>>

NoDoc == [text |-> <<>>, paragraphs |-> <<>>]
NoWords == [matched |-> {}, verbatim |-> {}, paraphrase |-> {}, translated |-> {},
            confident |-> {}, review |-> {}, reviews |-> 0]

Fresh ==
  /\ pc' = "parse" /\ doc' = NoDoc /\ sources' = [texts |-> <<>>, ids |-> <<>>]
  /\ at' = 1 /\ matches' = <<>> /\ semantic' = TRUE /\ overall' = NoWords
  /\ types' = <<>> /\ band' = None /\ comparison' = None

Init ==
  /\ given \in Uploads
  /\ pc = "parse" /\ doc = NoDoc /\ sources = [texts |-> <<>>, ids |-> <<>>]
  /\ at = 1 /\ matches = <<>> /\ semantic = TRUE /\ overall = NoWords
  /\ types = <<>> /\ band = None /\ comparison = None
  /\ previous = None

-----------------------------------------------------------------------------
(* ParseStage and RetrieveStage *)

\* A reference that cannot be read is skipped, and the others keep their numbers.
Usable(u) == ~TooLong(u) /\ IsReadable(u)
UsableIds == Places(Len(given.references), {i \in DOMAIN given.references : Usable(given.references[i])})

Parse ==
  /\ pc = "parse" /\ Usable(given.paper) /\ UsableIds # <<>>
  /\ doc' = Parsed(given.paper)
  /\ sources' = [ids |-> UsableIds,
                 texts |-> [i \in DOMAIN UsableIds |-> Parsed(given.references[UsableIds[i]]).text]]
  /\ pc' = "search"
  /\ UNCHANGED <<given, at, found, previous, comparison>>

\* PipelineError: a limit, no text, or nothing to compare with.
Reject ==
  /\ pc = "parse" /\ (~Usable(given.paper) \/ UsableIds = <<>>)
  /\ pc' = "failed"
  /\ UNCHANGED <<given, doc, sources, at, found, previous, comparison>>

-----------------------------------------------------------------------------
(* PlagiarismMatcher.check() *)

Words == Norms(doc.text)
Searching == pc = "search" /\ at <= Len(Words) - NGram + 1

BestRun ==
  LET norms == Sources(sources.texts)
      c == Longest(Words, norms, at)
  IN  [source |-> c[1], from |-> c[2], length |-> RunLength(Words, norms[c[1]], at, c[2])]
LongEnough == Seeds(Words, Sources(sources.texts), at) # {} /\ BestRun.length >= MinVerbatim

\* The words from `at` on begin a copy that is long enough: report it, go on behind it.
NextAfter_Overlap(b) == at + b.length - 1
NextAfter(b) == at + b.length
FoundCopy ==
  /\ Searching /\ LongEnough
  /\ LET b == BestRun
         k == Tokens(doc.text)
         t == Tokens(sources.texts[b.source])
     IN  /\ matches' = Append(matches, Verbatim(b.source, <<k[at], k[at + b.length - 1]>>,
                                                <<t[b.from], t[b.from + b.length - 1]>>))
         /\ at' = NextAfter(b)
  /\ UNCHANGED <<given, pc, doc, sources, semantic, overall, types, band, previous, comparison>>

NoCopyHere ==
  /\ Searching /\ ~LongEnough
  /\ at' = at + 1
  /\ UNCHANGED <<given, pc, doc, sources, found, previous, comparison>>

\* Whether sentences were compared: not if the document has no words, and where there are
\* sentences the encoder may fail.
Encodings ==
  IF Words = <<>> THEN {FALSE}
  ELSE IF OwnSentences(doc.text) = <<>> \/ SourceSentences(sources.texts) = <<>> THEN {TRUE}
  ELSE BOOLEAN

Compared(own, all, ranked) ==
  Paraphrases(doc.text, own, sources.texts, Budget(doc.text, own, sources.texts, all, ranked), Range(matches))

\* They are when the search has ended; ranking them may fail, and so may the encoder: the
\* check goes on with the copies alone.
CompareSentences ==
  /\ pc = "search" /\ ~Searching
  /\ \E ranked \in BOOLEAN : \E works \in Encodings :
       /\ semantic' = works
       /\ matches' = IF works THEN matches \o Compared(OwnSentences(doc.text), SourceSentences(sources.texts), ranked)
                     ELSE matches
  /\ pc' = "count"
  /\ UNCHANGED <<given, doc, sources, at, overall, types, band, previous, comparison>>

\* In the order of the document; of those with one span, the first found comes first.
Comes(ms, i, j) ==
  LET a == ms[i].span  b == ms[j].span
  IN  a[1] < b[1] \/ (a[1] = b[1] /\ (a[2] < b[2] \/ (a[2] = b[2] /\ i < j)))
Rank(ms, i) == Cardinality({j \in DOMAIN ms : Comes(ms, j, i)}) + 1
InOrder(ms) == [n \in DOMAIN ms |-> ms[CHOOSE i \in DOMAIN ms : Rank(ms, i) = n]]

\* Matches are put in that order, which numbers them, and counted.
Count ==
  /\ pc = "count"
  /\ matches' = InOrder(matches)
  /\ overall' = Overall(doc.text, matches)
  /\ pc' = "triage"
  /\ UNCHANGED <<given, doc, sources, at, semantic, types, band, previous, comparison>>

-----------------------------------------------------------------------------
(* LocalizeStage, TriageStage, and the runner's report *)

\* The paragraph in which the match begins.
ParagraphOf(m) ==
  doc.paragraphs[Max({i \in DOMAIN doc.paragraphs : doc.paragraphs[i].start <= m.span[1]})]

\* Every match is classified; when that fails, the check goes on without.
TriageMatches ==
  /\ pc = "triage"
  /\ \/ types' = [i \in DOMAIN matches |->
                    Classify(matches[i], Signals(doc.text, ParagraphOf(matches[i]), matches[i], sources.texts))]
     \/ types' = None
  /\ pc' = "report"
  /\ UNCHANGED <<given, doc, sources, at, matches, semantic, overall, band, previous, comparison>>

KeysOf(ms) == {Key(ms[i], sources.texts, sources.ids) : i \in DOMAIN ms}

\* The band, and the comparison with the check before if the request names one.
Finish ==
  /\ pc = "report"
  /\ band' = BandFor(IF types = None THEN <<>> ELSE types, overall.reviews)
  /\ comparison' = IF previous = None THEN None ELSE Comparison(previous.keys, KeysOf(matches))
  /\ pc' = "done"
  /\ UNCHANGED <<given, doc, sources, at, matches, semantic, overall, types, previous>>

\* The author revises, uploads again, and asks for the comparison.
Revise ==
  /\ pc = "done" /\ previous = None
  /\ previous' = [keys |-> KeysOf(matches), matches |-> matches, semantic |-> semantic,
                  given |-> given, texts |-> sources.texts, ids |-> sources.ids, doc |-> doc]
  /\ given' \in Uploads
  /\ Fresh

Next ==
  \/ Parse \/ Reject \/ FoundCopy \/ NoCopyHere \/ CompareSentences \/ Count
  \/ TriageMatches \/ Finish \/ Revise

Spec == Init /\ [][Next]_vars

-----------------------------------------------------------------------------
(* Properties *)

Searched == pc \in {"count", "triage", "report", "done"}
Copies == {m \in Range(matches) : m.type = "verbatim"}

\* The words from p to q, by their numbers, that no copy reported so far holds.
Unreported(p, q, ms) ==
  LET k == Tokens(doc.text)
  IN  {i \in p .. q : \A m \in ms : k[i] \notin m.span[1] .. m.span[2]}

\* plagiarism_matcher.py:8-10, what the greedy search promises: the copies it reports are
\* copies, no word is in two of them, and of any run of words that some source holds, it
\* leaves out nothing but words of its end, where too few are left of it to be reported.
CopiesFound ==
  Searched =>
    LET norms == Sources(sources.texts)
        k == Tokens(doc.text)
    IN  /\ \A m \in Copies : Norms(Slice(doc.text, m.span)) = Norms(Slice(sources.texts[m.source], m.at))
        /\ \A m, n \in Copies : m # n => (m.span[1] .. m.span[2]) \cap (n.span[1] .. n.span[2]) = {}
        /\ \A p \in DOMAIN k : \A s \in DOMAIN norms : \A i \in DOMAIN norms[s] :
             LET last == p + RunLength(Words, norms[s], p, i) - 1
             IN  last - p + 1 >= MinVerbatim =>
                   Unreported(p, last, Copies) \subseteq last - MinVerbatim + 2 .. last

\* The percentages of the overview: copied, paraphrased and translated words are the
\* matched words and no word is counted twice; so are the asserted and the doubtful ones.
PartsAddUp ==
  pc \in {"triage", "report", "done"} =>
    LET o == overall IN
      /\ o.matched = o.verbatim \cup o.paraphrase \cup o.translated
      /\ o.verbatim \cap o.paraphrase = {} /\ o.verbatim \cap o.translated = {}
      /\ o.paraphrase \cap o.translated = {}
      /\ o.matched = o.confident \cup o.review /\ o.confident \cap o.review = {}
      /\ o.matched = UNION Range(PerSource(doc.text, matches, sources.texts))

\* The words of a source say these, somewhere.
Holds(norms, words) ==
  \E i \in DOMAIN norms :
    i + Len(words) - 1 <= Len(norms) /\ SubSeq(norms, i, i + Len(words) - 1) = words

\* Of the words from p to q, as many as are reported stand in one source alone, and in no
\* run of words that is short enough and has function words enough to be a common phrase.
Unique(p, q, s) ==
  \A r \in DOMAIN sources.texts \ {s} : \A i \in p .. q - MinVerbatim + 1 :
    ~Includes(Norms(sources.texts[r]), SubSeq(Words, i, i + MinVerbatim - 1))
NoPhrase(p, q) ==
  \A i \in p .. q - MinVerbatim + 1 : \A a, b \in DOMAIN Words :
    a <= i /\ i + MinVerbatim - 1 <= b /\ b - a + 1 <= PhraseWords => ~StopwordShare(SubSeq(Words, a, b))

\* From the upload to the band: where a manuscript cites and quotes nothing, and almost two
\* reported lengths of it are copied from one reference, the report says that there is
\* something to fix, wherever the copy lies, whatever other copies overlap it, and whatever
\* the encoder did.  Two things that triage.py:189-192 excuses are left out, and no more: a
\* reported length of it whose text another reference holds too, and one inside a run of
\* up to PhraseWords words that are mostly function words.
UncitedCopyIsActedOn ==
  pc = "done" /\ types # None
  /\ (\A i \in DOMAIN doc.text : doc.text[i].kind \notin {"cite", "open", "close", "quote"})
  /\ (\E p \in DOMAIN Words : \E s \in DOMAIN sources.texts :
        LET q == p + 2 * MinVerbatim - 2
        IN  /\ q <= Len(Words) /\ Unique(p, q, s) /\ NoPhrase(p, q)
            /\ Holds(Norms(sources.texts[s]), SubSeq(Words, p, q)))
  => band = "act"

\* What is true of report.py:15-18 and 151-152, "moving a passage does not resolve it".  The
\* same uploads leave nothing resolved and nothing new, if the encoder did the same both
\* times and left no sentence out.  And whatever else was changed, manuscript or other
\* references, a copy from a reference that has kept its text and its number is resolved only
\* if its words stand nowhere, or, wherever they stand, other copies hold all but too few
\* of them to report.  So moving it does resolve it where it comes to lie against another
\* copy that takes words of it in; and so does giving its reference another number.
AllCompared == Len(SourceSentences(sources.texts)) <= MaxSentences
ResolvedForCause ==
  pc = "done" /\ previous # None =>
    /\ given = previous.given /\ semantic = previous.semantic /\ AllCompared =>
         comparison.resolved = {} /\ comparison.new = {}
    /\ \A m \in Range(previous.matches) : \A s \in DOMAIN sources.texts :
         LET words == Norms(Slice(previous.doc.text, m.span))
         IN  /\ m.type = "verbatim" /\ Key(m, previous.texts, previous.ids) \in comparison.resolved
             /\ sources.ids[s] = previous.ids[m.source] /\ sources.texts[s] = previous.texts[m.source]
             => \A p \in 1 .. Len(Words) - Len(words) + 1 :
                  SubSeq(Words, p, p + Len(words) - 1) = words =>
                    /\ Cardinality(Unreported(p, p + Len(words) - 1, Copies)) < MinVerbatim
                    /\ \A n \in Copies : n.source = s => Norms(Slice(sources.texts[s], n.at)) # words
=============================================================================

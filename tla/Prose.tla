------------------------------- MODULE Prose -------------------------------
(***************************************************************************)
(* Text as the checker reads it: the words, sentences and numbers that     *)
(* services/plagiarism_matcher.py and services/numeric_guard.py find.      *)
(*                                                                         *)
(* A text is a sequence of items: a word, a mark of punctuation, a line    *)
(* break or a citation.  An offset is a position in it and a span <<a, b>> *)
(* holds the items from a to b, so a word counts as one character.  `norm` *)
(* is a word's case-folded form, for digits the value they write, decimals *)
(* without the zeros they end in ("0" when nothing else is left).          *)
(***************************************************************************)
EXTENDS Integers, Sequences, SequencesExt, FiniteSetsExt, Lists

CONSTANT NumberWords  \* _WORD_NUMBERS: the words that state a number, each with its digits

\* "point" is a period with no space after it, "stop" one with a space; "mark" any other
\* end of a sentence; "initial" one capital letter; "heading" a word that opens a
\* reference list.
WordKinds == {"word", "capital", "digits", "abbreviation", "initial", "heading"}
IsWord(x) == x.kind \in WordKinds

\* tokenize(): the places of the words in t, in order.
Tokens(t) == Places(Len(t), {i \in DOMAIN t : IsWord(t[i])})
Norms(t) == LET k == Tokens(t) IN [i \in DOMAIN k |-> t[k[i]].norm]

Slice(t, span) == SubSeq(t, span[1], span[2])
WordsIn(t, span) == {i \in span[1] .. span[2] : IsWord(t[i])}

-----------------------------------------------------------------------------
(* split_sentences() *)

KindAt(t, i) == IF i \in DOMAIN t THEN t[i].kind ELSE "line"
Ends == {"stop", "point", "mark"}

\* A run of terminators with the quotation marks that close after it, or of line breaks.
RunEnd(t, i) ==
  LET more == IF KindAt(t, i) = "line" THEN {"line"} ELSE Ends
      last == CHOOSE j \in i .. Len(t) :
                /\ \A k \in i .. j : t[k].kind \in more
                /\ j = Len(t) \/ t[j + 1].kind \notin more
      closers == {"close", "quote"}
  IN  IF more = Ends
      THEN CHOOSE j \in last .. Len(t) :
             /\ \A k \in last + 1 .. j : t[k].kind \in closers
             /\ j = Len(t) \/ t[j + 1].kind \notin closers
      ELSE last

Runs(t) ==
  {i \in DOMAIN t : \/ t[i].kind = "line" /\ (i = 1 \/ t[i - 1].kind # "line")
                    \/ t[i].kind \in Ends /\ (i = 1 \/ t[i - 1].kind \notin Ends)}

\* _is_sentence_end(): a lone period does not end a sentence inside a number, after an
\* abbreviation or an initial, or before a lower-case letter.
EndsSentence(t, i) ==
  \/ t[i].kind \in {"mark", "line"} \/ RunEnd(t, i) # i
  \/ /\ ~(t[i].kind = "point" /\ KindAt(t, i - 1) = "digits" /\ KindAt(t, i + 1) = "digits")
     /\ KindAt(t, i - 1) \notin {"abbreviation", "initial"}
     /\ KindAt(t, i + 1) \notin {"word", "abbreviation"}

Breaks(t) == {RunEnd(t, i) : i \in {j \in Runs(t) : EndsSentence(t, j)}} \cup {Len(t)}

\* What lies before a break and behind the one before it, without the line breaks around it.
Before(t, e) ==
  LET from == 1 + Max({0} \cup {d \in Breaks(t) : d < e})
      ink  == {i \in from .. e : t[i].kind # "line"}
  IN  IF ink = {} THEN <<from, from - 1>> ELSE <<Min(ink), Max(ink)>>

\* _sentences(): those of at least `least` words, in order.
Sentences(t, least) ==
  LET long == Places(Len(t), {e \in Breaks(t) : Cardinality(WordsIn(t, Before(t, e))) >= least})
  IN  [i \in DOMAIN long |-> Before(t, long[i])]

-----------------------------------------------------------------------------
(* numeric_guard.py *)

\* Where a number begins: digits that are not the decimals of the number before.
BeginsNumber(t) ==
  LET begins[i \in DOMAIN t] ==
        /\ t[i].kind = "digits"
        /\ ~(KindAt(t, i - 1) = "point" /\ KindAt(t, i - 2) = "digits" /\ begins[i - 2])
  IN  {i \in DOMAIN t : begins[i]}

NumberPlaces(t) ==
  BeginsNumber(t) \cup {i \in DOMAIN t : t[i].kind \in {"word", "capital"} /\ t[i].norm \in DOMAIN NumberWords}

\* numbers_in(): the values, each with its places, so that a value said twice counts twice.
NumberAt(t, i) ==
  LET hasDecimals == KindAt(t, i + 1) = "point" /\ KindAt(t, i + 2) = "digits" /\ t[i + 2].norm # "0"
  IN  IF t[i].kind # "digits" THEN <<NumberWords[t[i].norm]>>
      ELSE IF hasDecimals THEN <<t[i].norm, t[i + 2].norm>> ELSE <<t[i].norm>>
TimesSaid(t, v) == Cardinality({i \in NumberPlaces(t) : NumberAt(t, i) = v})

\* agreement(): how many numbers the two texts share, and how many they have together.
Shared(a, b) ==
  MapThenSumSet(LAMBDA v : Min({TimesSaid(a, v), TimesSaid(b, v)}),
                {NumberAt(a, i) : i \in NumberPlaces(a)})
Together(a, b) == Cardinality(NumberPlaces(a)) + Cardinality(NumberPlaces(b)) - Shared(a, b)

\* conflicts(): both state numbers and share at most `gate` per cent of them.
NumbersConflict(a, b, gate) ==
  /\ NumberPlaces(a) # {} /\ NumberPlaces(b) # {}
  /\ 100 * Shared(a, b) <= gate * Together(a, b)
=============================================================================

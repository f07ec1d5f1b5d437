----------------------------- MODULE MCRecheck -----------------------------
(* A few manuscripts and references of short blocks, each checked twice.     *)
EXTENDS Recheck

W(n) == [kind |-> "word", norm |-> n]
I(k) == [kind |-> k, norm |-> ""]
N(v) == [kind |-> "digits", norm |-> v]
Stop == I("stop")
Text(ns) == [i \in DOMAIN ns |-> W(ns[i])]

\* Copied passages, with what may stand around them.
Abcde  == Text(<<"a", "b", "c", "d", "e">>) \o <<Stop>>
Abc    == Text(<<"a", "b", "c">>)
Cdefg  == Text(<<"c", "d", "e", "f", "g">>) \o <<Stop>>
Across == Text(<<"a", "b", "c", "d", "e", "f", "g">>) \o <<Stop>>
Quoted == <<I("open")>> \o Text(<<"a", "b", "c", "d">>) \o <<I("close"), I("cite"), Stop>>
Cited  == Text(<<"a", "b", "c", "d">>) \o <<I("cite"), Stop>>
Opening == Text(<<"a", "b", "s">>) \o <<Stop>>
\* Two function words in it, not enough to be a common phrase; and a text that holds "a b c d"
\* as a text, though not as words.
Mixed  == Text(<<"b", "of", "d", "e", "the">>) \o <<Stop>>
Abcdd  == Text(<<"a", "b", "c", "dd">>) \o <<Stop>>
Common == Text(<<"the", "of", "the">>) \o <<Stop>>

\* Sentences for the encoder: restated, translated, with figures, and hard to split.
Restated == Text(<<"b", "c", "h", "a">>) \o <<I("mark")>>
Foreign  == Text(<<"un", "deux", "trois", "quatre">>) \o <<Stop>>
OneTwo   == Text(<<"h", "i", "j", "k", "eight">>) \o <<Stop>>
Index    == Text(<<"p", "q", "r">>) \o <<N("8"), I("point"), N("79"), Stop>>
Template == Text(<<"q", "p", "r">>) \o <<N("11"), I("point"), N("91"), Stop>>
Wrapped  == Text(<<"h", "i">>) \o <<I("line")>> \o Text(<<"j", "k">>) \o <<N("8"), I("point"), N("0"), Stop, I("line")>>
              \o Abc
FigureAl == <<W("h"), [kind |-> "abbreviation", norm |-> "al"], Stop, W("i"), W("j"), Stop>>
Own      == Text(<<"u", "v", "w", "x">>) \o <<Stop>>

Heading == <<[kind |-> "heading", norm |-> "references"]>>
Header  == <<N("1"), W("on"), W("copies")>>

Pdf(pages)  == [kind |-> "pdf", pages |-> pages]
Plain(page) == [kind |-> "text", pages |-> <<page>>]

Papers ==
  {Plain(<<Abcde, Own>>), Plain(<<FigureAl \o Own, Abcde>>), Plain(<<Abc, Cdefg>>),
   Plain(<<Across, Restated>>), Plain(<<Quoted, Common, Restated>>), Plain(<<Cited, Foreign>>),
   Plain(<<Template, Wrapped>>), Plain(<<Own, Mixed>>),
   Pdf(<<<<Header, Abcde>>, <<Header, Cdefg>>, <<Header, Own>>>>),
   Pdf(<<<<Own, Restated, Own, Heading, Abcde>>>>),
   [kind |-> "corrupt", pages |-> <<>>]}

References ==
  {<<Plain(<<Across>>)>>, <<Plain(<<Abcde>>), Plain(<<Cdefg, Index>>)>>, <<Plain(<<Cdefg, Index>>), Plain(<<Abcde>>)>>,
   <<[kind |-> "locked", pages |-> <<>>], Plain(<<OneTwo, Common, Abcde>>), Plain(<<Opening>>)>>,
   <<Plain(<<Abcdd, Common>>), Plain(<<Across, Common, Index, Mixed>>)>>}

\* Three copies, each beginning where the one before has not ended.
Chain == [paper |-> Plain(<<Text(<<"a", "b", "c", "d", "e", "f", "g", "h">>) \o <<Stop>>>>),
          references |-> <<Plain(<<Text(<<"a", "b", "c", "d">>)>>), Plain(<<Text(<<"b", "c", "d", "e", "f">>)>>),
                           Plain(<<Text(<<"f", "g", "h">>)>>)>>]

MCUploads == {[paper |-> p, references |-> r] : p \in Papers, r \in References} \cup {Chain}

\* The encoder: how many of the words, translated, the two have in common.
Meaning(n) == CASE n = "un" -> "h" [] n = "deux" -> "i" [] n = "trois" -> "j" [] n = "quatre" -> "k" [] OTHER -> n
Meanings(t) == {Meaning(n) : n \in {x \in Range(Norms(t)) : x \notin {"8", "79", "11", "91", "0", "eight"}}}
MCSimilarity(a, b) ==
  (100 * Cardinality(Meanings(a) \cap Meanings(b))) \div Cardinality(Meanings(a) \cup Meanings(b))
MCRelevance(a, b) == Cardinality(Range(Norms(a)) \cap Range(Norms(b)))
MCLanguage(t) == IF Range(Norms(t)) \cap {"un", "deux"} # {} THEN "fr" ELSE IF Len(t) < 4 THEN "" ELSE "en"
MCNumberWords == [eight |-> "8"]
MCParts == {<<"d", "dd">>}
MCDrift(n) == 10 * (n - 2)
=============================================================================

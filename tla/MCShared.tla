------------------------------ MODULE MCShared ------------------------------
(* Two checks, two databases, five papers under six titles, three links.   *)
EXTENDS Shared

Paper(title, year, abstract, links) == [title |-> title, year |-> year, abstract |-> abstract, links |-> links]
Good(works) == [works |-> works, failed |-> FALSE]
Failed(works) == [works |-> works, failed |-> TRUE]

s1 == <<"a", "b", "c">>
s2 == <<"d", "e", "f">>
s3 == <<"b", "b", "c">>

A1 == Paper(<<"on", "copies">>, 2020, <<s1>>, <<"private", "l1">>)
A2 == Paper(<<"on", "-", "copies">>, 0, <<s1, s2>>, <<"l1", "l2">>)
B  == Paper(<<"of", "bees", "(year)">>, 2019, <<s3>>, <<"l2">>)
F  == Paper(<<"foreign">>, 2021, <<s1, s3>>, <<"l1">>)
D  == Paper(<<"of", "ants">>, 2018, <<s2>>, <<>>)
N  == Paper(<<"on", "nothing">>, 2021, <<>>, <<"l1">>)

MCChecks == {"c1", "c2"}
Long  == <<<<"a", "b", "c", "d">>, <<"b", "c">>, <<"a", "b", "c", "e">>, <<"e", "d", "c", "b", "a">>>>
Short == <<<<"d", "e", "c">>>>
MCSubmissions == {[c1 |-> Long, c2 |-> m] : m \in {Short, <<<<"a">>>>}}
MCReplies ==
  [openalex |-> {<<Good(<<A1, N>>), Good(<<B>>)>>, Raised},
   arxiv |-> {<<Failed(<<D, F, A2>>)>>, <<Failed(<<>>)>>}]
MCSentences == {s1, s2, s3}
MCTasks == MCChecks \X (1 .. 2)
MCContent == [u \in {"l1", "l2", "private"} |-> IF u = "l1" THEN <<s1, s2, s1>> ELSE <<s3, s2>>]

Pdf(u) == [status |-> 200, url |-> u, declared |-> 0, pdf |-> TRUE, bytes |-> 2, readable |-> TRUE]
MCAnswers ==
  [l1 |-> {Pdf("l1"), [Pdf("l1") EXCEPT !.status = 0], Pdf("private")},
   l2 |-> {Pdf("l1"), [Pdf("l2") EXCEPT !.bytes = 9]},
   private |-> {Pdf("private")}]
=============================================================================

--------------------------- MODULE MCCheckRunner ---------------------------
(* Small instances of CheckRunner: three submissions of two manuscripts.   *)
EXTENDS CheckRunner

CONSTANTS j1, j2, j3

\* j2 uploads the bytes of j1 under another name; j3 asks for the academic
\* databases on top of them.
MCRequestOf ==
  [j \in Jobs |-> [name |-> IF j = j1 THEN "a.pdf" ELSE "b.pdf",
                   text |-> "T",
                   academic |-> (j = j3)]]
=============================================================================

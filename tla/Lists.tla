------------------------------- MODULE Lists -------------------------------
(* SelectSeq as a recursive function and over a set, for the modules that   *)
(* theorems are about: the provers know nothing of SelectSeq.               *)
EXTENDS Integers, Sequences, Functions

IsList(s) == s \in Seq(Range(s))

\* The members of s that P holds, in their order.
Those(s, P) ==
  LET upTo[n \in 0 .. Len(s)] ==
        IF n = 0 THEN <<>>
        ELSE IF s[n] \in P THEN Append(upTo[n - 1], s[n])
        ELSE upTo[n - 1]
  IN  upTo[Len(s)]

\* The numbers up to n that P holds, in order.
Places(n, P) == Those([i \in 1 .. n |-> i], P)
=============================================================================

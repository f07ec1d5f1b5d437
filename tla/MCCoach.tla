------------------------------ MODULE MCCoach ------------------------------
(* Three checks over two flags of one passage, one of them in all three.     *)
EXTENDS Coach

CONSTANTS c1, c2, c3

flagA == [rule |-> "verbatim_uncited", doc |-> "P", source |-> "A"]
flagB == [rule |-> "verbatim_uncited", doc |-> "P", source |-> "B"]

MCFlagsOf == [c \in Checks |-> IF c = c1 THEN <<flagA, flagB>>
                               ELSE IF c = c2 THEN <<flagB>> ELSE <<flagB, flagA>>]
=============================================================================

---------------------------- MODULE MCAdmission ----------------------------
(* Four requests of one user and of two anonymous clients, who are alike.    *)
EXTENDS Admission, TLC

Symmetry == Permutations(Requests) \cup Permutations(Addresses)
=============================================================================

------------------------------ MODULE MCLogin ------------------------------
(* Instances of Login for TLC. *)
EXTENDS Login, TLC

Symmetry == Permutations(Requests) \cup Permutations(Emails)
=============================================================================

--------------------------- MODULE MCMfaChallenge ---------------------------
(* Instances of MfaChallenge for TLC. *)
EXTENDS MfaChallenge, TLC

Symmetry == Permutations(Users) \cup Permutations(Challenges) \cup Permutations(Requests)
=============================================================================

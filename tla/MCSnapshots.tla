---------------------------- MODULE MCSnapshots ----------------------------
(* Instances of Snapshots for TLC. *)
EXTENDS Snapshots, TLC

Symmetry == Permutations(Tasks)
=============================================================================

------------------------------- MODULE MCQueue -------------------------------
(* Instances of LosQueue for TLC. *)
EXTENDS LosQueue

TaskSymmetry == Permutations(Tasks)
=============================================================================

------------------------------- MODULE MCSched -------------------------------
(* Instances of LosSched for TLC. *)
EXTENDS LosSched

Symmetry == Permutations(Tasks) \cup Permutations(Cpus)
=============================================================================

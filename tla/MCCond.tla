-------------------------------- MODULE MCCond --------------------------------
(* Instances of LosCond, and with it of LosEvent, for TLC. *)
EXTENDS LosCond, TLC

CONSTANTS x, y

\* Every task reads with every mask.
AnyMask == [t \in Tasks |-> SUBSET Flags \ {{}}]

AnyClear == SUBSET Flags

TaskSymmetry == Permutations(Tasks)
=============================================================================

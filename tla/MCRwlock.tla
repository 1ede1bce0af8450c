------------------------------- MODULE MCRwlock -------------------------------
(* Instances of LosRwlock for TLC. *)
EXTENDS LosRwlock

CONSTANTS t1, t2, t3

\* Two tasks share a priority, one is lower.
PrioWithTie == [t \in Tasks |-> CASE t = t1 -> 3 [] t = t2 -> 2 [] t = t3 -> 2]

AllRR == [t \in Tasks |-> "LOS_SCHED_RR"]

\* Above or below everybody, under either policy.
HighOrLow == HPFPolicies \X {1, 3}
=============================================================================

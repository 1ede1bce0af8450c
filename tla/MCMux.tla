-------------------------------- MODULE MCMux --------------------------------
(* Instances of LosMux for TLC. *)
EXTENDS LosMux, TLC

CONSTANTS t1, t2, t3

PrioDistinct == [t \in Tasks |-> CASE t = t1 -> 4 [] t = t2 -> 3 [] t = t3 -> 2]
OneProcess == [t \in Tasks |-> 0]

Inherit    == [type |-> "NORMAL", protocol |-> "PRIO_INHERIT", prioceiling |-> 4]
Protect    == [type |-> "RECURSIVE", protocol |-> "PRIO_PROTECT", prioceiling |-> 1]

OnlyInherit == {Inherit}
Kinds       == {Inherit, Protect}

\* Tasks of one policy; and a task between two others that is compared with neither.
OnePolicy == {[t \in Tasks |-> "LOS_SCHED_RR"]}
Mixed     == {[t \in Tasks |-> IF t = t2 THEN "LOS_SCHED_FIFO" ELSE "LOS_SCHED_RR"]}
OneOrMixed == OnePolicy \cup Mixed

MuxSymmetry == Permutations(Muxes)
=============================================================================

------------------------------- MODULE MCFutex -------------------------------
(* Instances of LosFutex for TLC. *)
EXTENDS LosFutex

CONSTANTS t1, t2, t3, k1, k2, b1, b2

Three == {t1, t2, t3}
Prios == (t1 :> 2) @@ (t2 :> 1) @@ (t3 :> 0)
AllRR == [t \in Three |-> "LOS_SCHED_RR"]
OneBase == [t \in Three |-> 0]
\* The task of the lowest priority gets another policy and the highest one.
Changes == {<<t1, "LOS_SCHED_FIFO", 0>>}
TwoBuckets == (k1 :> b1) @@ (k2 :> b2)
CondToMutex == {<<k1, k2>>}
=============================================================================

---------------------------- MODULE LosSchedParam ----------------------------
(***************************************************************************)
(* How the scheduler orders tasks on wait lists                            *)
(* (kernel/base/sched/los_sched.c, los_priority.c).  Smaller numbers are   *)
(* higher priorities; base is the priority of the task's process and prio  *)
(* that of the task in its process.  The tasks are those of the            *)
(* high-priority-first scheduler; deadline and idle tasks are left out.    *)
(***************************************************************************)
EXTENDS LosList

HPFPolicies == {"LOS_SCHED_RR", "LOS_SCHED_FIFO"}

\* HPFParamCompare: negative when a is scheduled before b.
HPFParamCompare(base, prio, a, b) ==
    IF base[a] # base[b] THEN base[a] - base[b] ELSE prio[a] - prio[b]

\* OsSchedParamCompare: priorities are compared within one policy only; tasks of different
\* policies count as equal, whatever their priorities.
SchedParamCompare(policy, base, prio, a, b) ==
    IF policy[a] = policy[b] THEN HPFParamCompare(base, prio, a, b) ELSE 0

\* OsSchedLockPendFindPos and SchedLockPendFindPosSub: the place of t in wait list l,
\* behind the tasks equal to it when it belongs at the end, behind the first of them
\* otherwise.
LockPendFindPos(policy, base, prio, t, l) ==
    LET cmp(u) == SchedParamCompare(policy, base, prio, u, t) IN
    IF l = <<>> \/ cmp(Head(l)) > 0 THEN 1
    ELSE IF cmp(Last(l)) <= 0 THEN Len(l) + 1
    ELSE LET i == Min({k \in DOMAIN l : cmp(l[k]) >= 0})
         IN  IF cmp(l[i]) > 0 THEN i ELSE i + 1

=============================================================================

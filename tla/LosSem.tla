-------------------------------- MODULE LosSem --------------------------------
(***************************************************************************)
(* Counting and binary semaphores (kernel/base/ipc/los_sem.c).             *)
(*                                                                         *)
(* A post hands its token straight to the first waiter: semCount stays 0   *)
(* and the waiter owns a token it has not seen yet.  A handle carries the  *)
(* number of times its control block has been deleted, so that an old      *)
(* handle is refused after the block is reused.                            *)
(***************************************************************************)
EXTENDS LosTaskPend, FiniteSets

CONSTANTS Sems,              \* the control blocks of g_allSem
          OS_SEM_COUNT_MAX,  \* the largest count of a counting semaphore
          MaxGen,            \* bound: deletions of one control block; 2^16 - 1 in the code
          NoSem              \* a null LosSemCB pointer

ASSUME SemAssumption ==
    /\ OS_SEM_COUNT_MAX \in Nat \ {0}
    /\ MaxGen \in Nat
    /\ IsFiniteSet(Tasks)
    /\ IsFiniteSet(Sems) /\ Sems # {}
    /\ NoSem \notin Sems

OS_SEM_BINARY_COUNT_MAX == 1

\* SET_SEM_ID(count, index)
SemIDs == (0..MaxGen) \X Sems

VARIABLES g_unusedSemList,   \* control blocks ready for OsSemCreate, first in first out
          semStat, semCount, maxSemCount, semGen,
          semList,           \* tasks pending on a semaphore
          creating,          \* creating[t]: block t took from the pool, fields not yet set
          semHandle          \* semHandle[t]: the argument of t's last LOS_SemPend

vars == <<taskStatus, g_unusedSemList, semStat, semCount, maxSemCount, semGen,
          semList, creating, semHandle>>

SemID(s) == <<semGen[s], s>>

\* The handle check every operation makes under the scheduler lock.
IsValid(h) == semStat[h[2]] = "USED" /\ SemID(h[2]) = h

Running(t) == taskStatus[t] = "RUN" /\ creating[t] = NoSem

TypeOK ==
    /\ taskStatus \in [Tasks -> TaskStatus]
    /\ g_unusedSemList \in Seq(Sems)
    /\ semStat \in [Sems -> {"UNUSED", "USED"}]
    /\ semCount \in [Sems -> 0..OS_SEM_COUNT_MAX]
    /\ maxSemCount \in [Sems -> 0..OS_SEM_COUNT_MAX]
    /\ semGen \in [Sems -> 0..MaxGen]
    /\ semList \in [Sems -> Seq(Tasks)]
    /\ creating \in [Tasks -> Sems \cup {NoSem}]
    /\ semHandle \in [Tasks -> SemIDs]

-----------------------------------------------------------------------------
\* OsSemInit: every block is unused, its id has count 0, and is on the free list.
Init ==
    /\ taskStatus = [t \in Tasks |-> "RUN"]
    /\ g_unusedSemList \in {q \in [1..Cardinality(Sems) -> Sems] :
                            ToSet(q) = Sems /\ IsInjective(q)}
    /\ semStat = [s \in Sems |-> "UNUSED"]
    /\ semCount = [s \in Sems |-> 0]
    /\ maxSemCount = [s \in Sems |-> 0]
    /\ semGen = [s \in Sems |-> 0]
    /\ semList = [s \in Sems |-> <<>>]
    /\ creating = [t \in Tasks |-> NoSem]
    /\ semHandle = [t \in Tasks |-> CHOOSE h \in SemIDs : TRUE]

\* OsSemCreate, under the lock: take the first free block.
OsSemCreateTake(t) ==
    /\ Running(t)
    /\ g_unusedSemList # <<>>
    /\ g_unusedSemList' = Tail(g_unusedSemList)
    /\ creating' = [creating EXCEPT ![t] = Head(g_unusedSemList)]
    /\ UNCHANGED <<taskStatus, semStat, semCount, maxSemCount, semGen, semList, semHandle>>

\* OsSemCreate, after the unlock: set the fields and publish the handle.
OsSemCreateInit(t, count, maxCount) ==
    LET s == creating[t] IN
    /\ s # NoSem
    /\ count <= maxCount
    /\ semCount' = [semCount EXCEPT ![s] = count]
    /\ semStat' = [semStat EXCEPT ![s] = "USED"]
    /\ maxSemCount' = [maxSemCount EXCEPT ![s] = maxCount]
    /\ semList' = [semList EXCEPT ![s] = <<>>]
    /\ creating' = [creating EXCEPT ![t] = NoSem]
    /\ UNCHANGED <<taskStatus, g_unusedSemList, semGen, semHandle>>

\* Mutant: the pend list is not looked at.
LOS_SemDeleteUnderWaiter(t, h) ==
    LET s == h[2] IN
    /\ Running(t)
    /\ IsValid(h)
    /\ semGen[s] < MaxGen
    /\ g_unusedSemList' = Append(g_unusedSemList, s)
    /\ semStat' = [semStat EXCEPT ![s] = "UNUSED"]
    /\ semGen' = [semGen EXCEPT ![s] = @ + 1]
    /\ UNCHANGED <<taskStatus, semCount, maxSemCount, semList, creating, semHandle>>

\* Mutant: semStat is not reset.
LOS_SemDeleteStillUsed(t, h) ==
    LET s == h[2] IN
    /\ Running(t)
    /\ IsValid(h)
    /\ semList[s] = <<>>
    /\ semGen[s] < MaxGen
    /\ g_unusedSemList' = Append(g_unusedSemList, s)
    /\ semGen' = [semGen EXCEPT ![s] = @ + 1]
    /\ UNCHANGED <<taskStatus, semStat, semCount, maxSemCount, semList, creating, semHandle>>

\* Refused (LOS_ERRNO_SEM_PENDED) while a task is pending on the semaphore.
LOS_SemDelete(t, h) ==
    LET s == h[2] IN
    /\ Running(t)
    /\ IsValid(h)
    /\ semList[s] = <<>>
    /\ semGen[s] < MaxGen
    /\ g_unusedSemList' = Append(g_unusedSemList, s)
    /\ semStat' = [semStat EXCEPT ![s] = "UNUSED"]
    /\ semGen' = [semGen EXCEPT ![s] = @ + 1]
    /\ UNCHANGED <<taskStatus, semCount, maxSemCount, semList, creating, semHandle>>

\* Mutant: the waiter is linked in front of those who wait already.
LOS_SemPendInFront(t, h, timeout) ==
    LET s == h[2] IN
    /\ Running(t)
    /\ IsValid(h)
    /\ semHandle' = [semHandle EXCEPT ![t] = h]
    /\ \/ /\ semCount[s] > 0
          /\ semCount' = [semCount EXCEPT ![s] = @ - 1]
          /\ UNCHANGED <<taskStatus, semList>>
       \/ /\ semCount[s] = 0
          /\ timeout # "NO_WAIT"
          /\ taskStatus' = HPFWait(t, timeout)
          /\ semList' = [semList EXCEPT ![s] = <<t>> \o @]
          /\ UNCHANGED semCount
    /\ UNCHANGED <<g_unusedSemList, semStat, maxSemCount, semGen, creating>>

\* LOS_SemPend up to ops->wait().  With LOS_NO_WAIT and no token nothing changes.
LOS_SemPend(t, h, timeout) ==
    LET s == h[2] IN
    /\ Running(t)
    /\ IsValid(h)
    /\ semHandle' = [semHandle EXCEPT ![t] = h]
    /\ \/ /\ semCount[s] > 0
          /\ semCount' = [semCount EXCEPT ![s] = @ - 1]
          /\ UNCHANGED <<taskStatus, semList>>
       \/ /\ semCount[s] = 0
          /\ timeout # "NO_WAIT"
          /\ taskStatus' = HPFWait(t, timeout)
          /\ semList' = [semList EXCEPT ![s] = Append(@, t)]
          /\ UNCHANGED semCount
    /\ UNCHANGED <<g_unusedSemList, semStat, maxSemCount, semGen, creating>>

\* The tail of LOS_SemPend: LOS_OK after a wake up, LOS_ERRNO_SEM_TIMEOUT after a
\* timeout.  The control block is not looked at again.
SemPendReturn(t) ==
    /\ taskStatus[t] \in {"WOKEN", "TIMEOUT"}
    /\ taskStatus' = HPFWaitReturn(t)
    /\ UNCHANGED <<g_unusedSemList, semStat, semCount, maxSemCount, semGen, semList,
                   creating, semHandle>>

\* Mutant: the count is raised whether or not a waiter took the token.
LOS_SemPostAndWake(h) ==
    LET s == h[2] IN
    /\ IsValid(h)
    /\ semCount[s] # maxSemCount[s]
    /\ semCount' = [semCount EXCEPT ![s] = @ + 1]
    /\ \/ /\ semList[s] # <<>>
          /\ semList' = [semList EXCEPT ![s] = Tail(@)]
          /\ taskStatus' = HPFWake(Head(semList[s]))
       \/ /\ semList[s] = <<>>
          /\ UNCHANGED <<taskStatus, semList>>
    /\ UNCHANGED <<g_unusedSemList, semStat, maxSemCount, semGen, creating, semHandle>>

\* LOS_SemPost and OsSemPostUnsafe, from a task or an interrupt; refused at
\* maxSemCount.
LOS_SemPost(h) ==
    LET s == h[2] IN
    /\ IsValid(h)
    /\ semCount[s] # maxSemCount[s]
    /\ \/ /\ semList[s] # <<>>
          /\ semList' = [semList EXCEPT ![s] = Tail(@)]
          /\ taskStatus' = HPFWake(Head(semList[s]))
          /\ UNCHANGED semCount
       \/ /\ semList[s] = <<>>
          /\ semCount' = [semCount EXCEPT ![s] = @ + 1]
          /\ UNCHANGED <<taskStatus, semList>>
    /\ UNCHANGED <<g_unusedSemList, semStat, maxSemCount, semGen, creating, semHandle>>

\* The tick finds that a bounded wait is over.
SemTimeout(t) ==
    /\ SchedTimeoutTaskWake(t)
    /\ semList' = [s \in Sems |-> LOS_ListDelete(semList[s], t)]
    /\ UNCHANGED <<g_unusedSemList, semStat, semCount, maxSemCount, semGen, creating, semHandle>>

\* LOS_TaskDelete of a task in LOS_SemPend: HPFExit unlinks a pending task, and a token
\* that a woken task has been handed goes with it.
LOS_TaskDelete(t) ==
    /\ IsPending(t) \/ taskStatus[t] \in {"WOKEN", "TIMEOUT"}
    /\ taskStatus' = [taskStatus EXCEPT ![t] = "UNUSED"]
    /\ semList' = [s \in Sems |-> LOS_ListDelete(semList[s], t)]
    /\ UNCHANGED <<g_unusedSemList, semStat, semCount, maxSemCount, semGen, creating, semHandle>>

Next ==
    \/ \E h \in SemIDs : LOS_SemPost(h)
    \/ \E t \in Tasks :
          \/ OsSemCreateTake(t)
          \/ \E maxCount \in {OS_SEM_BINARY_COUNT_MAX, OS_SEM_COUNT_MAX},
                count \in 0..OS_SEM_COUNT_MAX : OsSemCreateInit(t, count, maxCount)
          \/ \E h \in SemIDs : LOS_SemDelete(t, h)
          \/ \E h \in SemIDs, timeout \in Timeouts : LOS_SemPend(t, h, timeout)
          \/ SemPendReturn(t)
          \/ SemTimeout(t)
          \/ LOS_TaskDelete(t)

Spec == Init /\ [][Next]_vars

-----------------------------------------------------------------------------
\* LOS_SemPend blocks only without a token and LOS_SemPost stores a token only
\* without a waiter, so no task sleeps beside an available token, whatever
\* timeouts, deletions and reuse of the block come between.
NoWaiterBesideToken == \A s \in Sems : semList[s] # <<>> => semCount[s] = 0

\* A task pends on a semaphore only while its handle is the semaphore's current id:
\* LOS_SemDelete never recycles a block under a waiter, and the unlocked second half
\* of OsSemCreate never meets one.
WaiterHandleIsCurrent ==
    \A s \in Sems : \A t \in ToSet(semList[s]) : IsValid(semHandle[t]) /\ semHandle[t][2] = s

\* A pending task is on one pend list, once; any other task is on none.  (A post or a
\* timeout that left a task linked would wake it out of a later, unrelated wait.)
PendingOnOneList ==
    /\ \A s \in Sems : IsInjective(semList[s])
    /\ \A s1, s2 \in Sems : s1 # s2 => ToSet(semList[s1]) \cap ToSet(semList[s2]) = {}
    /\ \A t \in Tasks : IsPending(t) <=> \E s \in Sems : t \in ToSet(semList[s])

\* Every block is in exactly one place: on the free list (once), with the one task that
\* is creating it, or in use.  OsSemCreate publishes the block after it has released
\* the scheduler lock, so two creations, a deletion and a post may overlap.
PoolConserved ==
    /\ IsInjective(g_unusedSemList)
    /\ \A t \in Tasks : creating[t] # NoSem =>
          /\ creating[t] \notin ToSet(g_unusedSemList)
          /\ \A u \in Tasks \ {t} : creating[u] # creating[t]
    /\ \A s \in Sems : semStat[s] = "USED" <=>
          /\ s \notin ToSet(g_unusedSemList)
          /\ \A t \in Tasks : creating[t] # s

Waits(t, h) == IsPending(t) /\ semHandle[t] = h

\* Nobody starves on a semaphore that is posted again and again: LOS_SemPost wakes the
\* first of semList and LOS_SemPend links behind everybody, so a waiter's turn comes
\* however often the woken tasks pend again and others time out or are deleted.  The
\* posts are the callers' and the property's premise; nothing is assumed of the
\* scheduler or of the tick.
PostsReachEveryWaiter ==
    \A t \in Tasks, h \in SemIDs :
        []<><<LOS_SemPost(h)>>_vars => (Waits(t, h) ~> ~Waits(t, h))

-----------------------------------------------------------------------------
\* Tokens of a live handle: the stored ones and those handed to a task that has not
\* returned from LOS_SemPend yet.
Dead == -1

Woken(h) == {t \in Tasks : taskStatus[t] = "WOKEN" /\ semHandle[t] = h}

Tokens == [h \in SemIDs |-> IF IsValid(h) THEN semCount[h[2]] + Cardinality(Woken(h)) ELSE Dead]

Abs == INSTANCE AbsSem WITH Handles <- SemIDs, MaxValue <- OS_SEM_COUNT_MAX, value <- Tokens

\* A post is seen by one successful pend at most: the direct hand-off in LOS_SemPost
\* implements a plain counting semaphore.
ImplementsSemaphore == Abs!Spec

=============================================================================

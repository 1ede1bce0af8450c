------------------------------ MODULE LosRwlock ------------------------------
(***************************************************************************)
(* Read-write locks (kernel/base/ipc/los_rwlock.c).                        *)
(*                                                                         *)
(* One signed count tells the mode: positive for that many readers,        *)
(* negative for a writer that locked it that many times, 0 for a free      *)
(* lock.  The last unlock grants the lock to the tasks it wakes.  The code *)
(* does not record who reads; rdHeld and wrHeld do so here.                *)
(***************************************************************************)
EXTENDS LosTaskPend, LosSchedParam, FiniteSetsExt

CONSTANTS Rwlocks,
          InitPrio,       \* priority of each task
          InitPolicy,     \* its policy
          Params,         \* policies and priorities a task may be given later
          CountMax,       \* INT8_MAX
          OnlyHolders,    \* client discipline: a task unlocks only what it has locked
          NULL

ASSUME RwlockAssumption ==
    /\ NULL \notin Tasks
    /\ IsFiniteSet(Tasks)
    /\ InitPrio \in [Tasks -> Nat] /\ InitPolicy \in [Tasks -> HPFPolicies]
    /\ Params \subseteq HPFPolicies \X Nat
    /\ CountMax \in Nat \ {0}
    /\ OnlyHolders \in BOOLEAN

VARIABLES magic, rwCount, writeOwner, readList, writeList,   \* LosRwlock
          policy, priority,                                  \* LosTaskCB
          rdHeld, wrHeld      \* rdHeld[l][t]: grants t has received and not yet released

lockVars == <<magic, rwCount, writeOwner, readList, writeList, rdHeld, wrHeld>>
vars == <<taskStatus, policy, priority, lockVars>>

TypeOK ==
    /\ taskStatus \in [Tasks -> TaskStatus]
    /\ policy \in [Tasks -> HPFPolicies]
    /\ priority \in [Tasks -> Nat]
    /\ magic \in [Rwlocks -> BOOLEAN]
    /\ rwCount \in [Rwlocks -> -CountMax - 1..CountMax]
    /\ writeOwner \in [Rwlocks -> Tasks \cup {NULL}]
    /\ readList \in [Rwlocks -> Seq(Tasks)]
    /\ writeList \in [Rwlocks -> Seq(Tasks)]
    /\ rdHeld \in [Rwlocks -> [Tasks -> Int]]
    /\ wrHeld \in [Rwlocks -> [Tasks -> Int]]

Running(t) == taskStatus[t] = "RUN"

OneProcess == [t \in Tasks |-> 0]

OsSchedParamCompare(a, b) == SchedParamCompare(policy, OneProcess, priority, a, b)

OsSchedLockPendFindPos(t, l) == LockPendFindPos(policy, OneProcess, priority, t, l)

\* The ghost counts after a grant to the tasks ts and after a release by t; they mean
\* something, and are kept, only when tasks release what they hold.
Granted(held, l, ts) ==
    IF OnlyHolders THEN [held EXCEPT ![l] = [t \in Tasks |-> @[t] + IF t \in ts THEN 1 ELSE 0]]
    ELSE held

Released(held, l, t) == IF OnlyHolders THEN [held EXCEPT ![l][t] = @ - 1] ELSE held

-----------------------------------------------------------------------------
Init ==
    /\ taskStatus = [t \in Tasks |-> "RUN"]
    /\ policy = InitPolicy
    /\ priority = InitPrio
    /\ magic = [l \in Rwlocks |-> FALSE]
    /\ rwCount = [l \in Rwlocks |-> 0]
    /\ writeOwner = [l \in Rwlocks |-> NULL]
    /\ readList = [l \in Rwlocks |-> <<>>]
    /\ writeList = [l \in Rwlocks |-> <<>>]
    /\ rdHeld = [l \in Rwlocks |-> [t \in Tasks |-> 0]]
    /\ wrHeld = [l \in Rwlocks |-> [t \in Tasks |-> 0]]

\* Refused (LOS_EPERM) for a lock that is already initialised.
LOS_RwlockInit(t, l) ==
    /\ Running(t)
    /\ ~magic[l]
    /\ rwCount' = [rwCount EXCEPT ![l] = 0]
    /\ writeOwner' = [writeOwner EXCEPT ![l] = NULL]
    /\ readList' = [readList EXCEPT ![l] = <<>>]
    /\ writeList' = [writeList EXCEPT ![l] = <<>>]
    /\ magic' = [magic EXCEPT ![l] = TRUE]
    /\ UNCHANGED <<taskStatus, policy, priority, rdHeld, wrHeld>>

\* Only rwCount is tested (LOS_EBUSY), then the whole lock is zeroed.
LOS_RwlockDestroy(t, l) ==
    /\ Running(t)
    /\ magic[l]
    /\ rwCount[l] = 0
    /\ magic' = [magic EXCEPT ![l] = FALSE]
    /\ writeOwner' = [writeOwner EXCEPT ![l] = NULL]
    /\ readList' = [readList EXCEPT ![l] = <<>>]
    /\ writeList' = [writeList EXCEPT ![l] = <<>>]
    /\ UNCHANGED <<taskStatus, policy, priority, rwCount, rdHeld, wrHeld>>

\* Mutant: a reader of the writer's own priority goes first.
OsRwlockPriCompareTie(t, list) == list # <<>> => OsSchedParamCompare(t, Head(list)) <= 0

\* OsRwlockPriCompare: t goes before the first task that waits to write.
OsRwlockPriCompare(t, list) == list # <<>> => OsSchedParamCompare(t, Head(list)) < 0

\* OsRwlockRdPendOp up to ops->wait(): share the lock, or wait in order of priority.
\* With the count at INT8_MAX the call fails and nothing changes.
OsRwlockRdPendOp(t, l, timeout) ==
    LET mayRead == rwCount[l] >= 0 /\ OsRwlockPriCompare(t, writeList[l]) IN
    /\ \/ /\ mayRead
          /\ rwCount[l] # CountMax
          /\ rwCount' = [rwCount EXCEPT ![l] = @ + 1]
          /\ rdHeld' = Granted(rdHeld, l, {t})
          /\ UNCHANGED <<taskStatus, readList>>
       \/ /\ ~mayRead
          /\ timeout # "NO_WAIT"
          /\ writeOwner[l] # t
          /\ readList' = [readList EXCEPT ![l] = InsertAt(@, OsSchedLockPendFindPos(t, @), t)]
          /\ taskStatus' = HPFWait(t, timeout)
          /\ UNCHANGED <<rwCount, rdHeld>>
    /\ UNCHANGED <<policy, priority, magic, writeOwner, writeList, wrHeld>>

\* Mutant: a lock in read mode is taken.
OsRwlockWrPendOpOverReaders(t, l, timeout) ==
    /\ rwCount[l] >= 0
    /\ rwCount' = [rwCount EXCEPT ![l] = -1]
    /\ writeOwner' = [writeOwner EXCEPT ![l] = t]
    /\ wrHeld' = Granted(wrHeld, l, {t})
    /\ UNCHANGED <<taskStatus, policy, priority, magic, readList, writeList, rdHeld>>

\* Mutant: a free lock is taken without noting the owner.
OsRwlockWrPendOpNoOwner(t, l, timeout) ==
    /\ rwCount[l] = 0
    /\ rwCount' = [rwCount EXCEPT ![l] = -1]
    /\ wrHeld' = Granted(wrHeld, l, {t})
    /\ UNCHANGED <<taskStatus, policy, priority, magic, writeOwner, readList, writeList, rdHeld>>

\* OsRwlockWrPendOp up to ops->wait(): take a free lock, lock it again, or wait.
OsRwlockWrPendOp(t, l, timeout) ==
    LET isMine == rwCount[l] < 0 /\ writeOwner[l] = t IN
    /\ \/ /\ rwCount[l] = 0
          /\ rwCount' = [rwCount EXCEPT ![l] = -1]
          /\ writeOwner' = [writeOwner EXCEPT ![l] = t]
          /\ wrHeld' = Granted(wrHeld, l, {t})
          /\ UNCHANGED <<taskStatus, writeList>>
       \/ /\ isMine
          /\ rwCount[l] # -CountMax - 1
          /\ rwCount' = [rwCount EXCEPT ![l] = @ - 1]
          /\ wrHeld' = Granted(wrHeld, l, {t})
          /\ UNCHANGED <<taskStatus, writeOwner, writeList>>
       \/ /\ rwCount[l] # 0 /\ ~isMine
          /\ timeout # "NO_WAIT"
          /\ writeList' = [writeList EXCEPT ![l] = InsertAt(@, OsSchedLockPendFindPos(t, @), t)]
          /\ taskStatus' = HPFWait(t, timeout)
          /\ UNCHANGED <<rwCount, writeOwner, wrHeld>>
    /\ UNCHANGED <<policy, priority, magic, readList, rdHeld>>

LOS_RwlockRdLock(t, l, timeout) ==
    Running(t) /\ magic[l] /\ OsRwlockRdPendOp(t, l, timeout)

LOS_RwlockTryRdLock(t, l) ==
    /\ Running(t) /\ magic[l]
    /\ writeOwner[l] # t
    /\ rwCount[l] >= 0
    /\ OsRwlockPriCompare(t, writeList[l])
    /\ OsRwlockRdPendOp(t, l, "NO_WAIT")

LOS_RwlockWrLock(t, l, timeout) ==
    Running(t) /\ magic[l] /\ OsRwlockWrPendOp(t, l, timeout)

LOS_RwlockTryWrLock(t, l) ==
    /\ Running(t) /\ magic[l]
    /\ rwCount[l] <= 0
    /\ ~(rwCount[l] < 0 /\ writeOwner[l] # t)
    /\ OsRwlockWrPendOp(t, l, "NO_WAIT")

\* OsRwlockGetMode and the first part of OsRwlockPostOp: is the lock granted to the
\* first waiting writer?
GrantsWriter(l) ==
    /\ writeList[l] # <<>>
    /\ readList[l] # <<>> => OsSchedParamCompare(Head(writeList[l]), Head(readList[l])) <= 0

\* The loop of OsRwlockPostOp wakes the first n readers: it stops at the end of the list,
\* at INT8_MAX, or at a reader that does not go before the first waiting writer.
WakesReaders(l, n) ==
    /\ n <= CountMax
    /\ \A i \in 2..n : OsRwlockPriCompare(readList[l][i], writeList[l])
    /\ n < Len(readList[l]) =>
          n = CountMax \/ ~OsRwlockPriCompare(readList[l][n + 1], writeList[l])

\* OsRwlockPostOp: free the lock, or grant it to a writer or to a batch of readers.
\* rd and wr are the ghost counts the caller's release has left.
OsRwlockPostOp(l, rd, wr) ==
    \/ /\ readList[l] = <<>> /\ writeList[l] = <<>>
       /\ rwCount' = [rwCount EXCEPT ![l] = 0]
       /\ writeOwner' = [writeOwner EXCEPT ![l] = NULL]
       /\ rdHeld' = rd /\ wrHeld' = wr
       /\ UNCHANGED <<taskStatus, readList, writeList>>
    \/ /\ GrantsWriter(l)
       /\ LET w == Head(writeList[l])
          IN  /\ writeOwner' = [writeOwner EXCEPT ![l] = w]
              /\ taskStatus' = HPFWake(w)
              /\ wrHeld' = Granted(wr, l, {w})
       /\ rwCount' = [rwCount EXCEPT ![l] = -1]
       /\ writeList' = [writeList EXCEPT ![l] = Tail(@)]
       /\ rdHeld' = rd
       /\ UNCHANGED readList
    \/ /\ readList[l] # <<>> /\ ~GrantsWriter(l)
       /\ \E n \in 1..Len(readList[l]) :
             LET woken == {readList[l][i] : i \in 1..n} IN
             /\ WakesReaders(l, n)
             /\ rwCount' = [rwCount EXCEPT ![l] = n]
             /\ taskStatus' = [t \in Tasks |-> IF t \in woken THEN "WOKEN" ELSE taskStatus[t]]
             /\ readList' = [readList EXCEPT ![l] = SubSeq(@, n + 1, Len(@))]
             /\ rdHeld' = Granted(rd, l, woken)
       /\ writeOwner' = [writeOwner EXCEPT ![l] = NULL]
       /\ wrHeld' = wr
       /\ UNCHANGED writeList

\* Mutant: the last unlock does not look for waiters.
LOS_RwlockUnLockNoPost(t, l) ==
    /\ Running(t)
    /\ magic[l]
    /\ rwCount[l] # 0
    /\ ~(rwCount[l] < 0 /\ writeOwner[l] # t)
    /\ rwCount' = [rwCount EXCEPT ![l] = IF @ > 0 THEN @ - 1 ELSE @ + 1]
    /\ writeOwner' = [writeOwner EXCEPT ![l] = IF rwCount[l] < -1 THEN @ ELSE NULL]
    /\ UNCHANGED <<taskStatus, policy, priority, magic, readList, writeList, rdHeld, wrHeld>>

\* LOS_RwlockUnLock.  A write lock is released by its owner only (LOS_EPERM); whoever
\* calls releases a read lock.
LOS_RwlockUnLock(t, l) ==
    LET rd == IF rwCount[l] > 0 THEN Released(rdHeld, l, t) ELSE rdHeld
        wr == IF rwCount[l] < 0 THEN Released(wrHeld, l, t) ELSE wrHeld
    IN
    /\ Running(t)
    /\ OnlyHolders => rdHeld[l][t] + wrHeld[l][t] > 0
    /\ magic[l]
    /\ rwCount[l] # 0
    /\ ~(rwCount[l] < 0 /\ writeOwner[l] # t)
    /\ \/ /\ rwCount[l] > 1 \/ rwCount[l] < -1
          /\ rwCount' = [rwCount EXCEPT ![l] = IF @ > 1 THEN @ - 1 ELSE @ + 1]
          /\ rdHeld' = rd /\ wrHeld' = wr
          /\ UNCHANGED <<taskStatus, writeOwner, readList, writeList>>
       \/ /\ rwCount[l] \in {-1, 1}
          /\ OsRwlockPostOp(l, rd, wr)
    /\ UNCHANGED <<policy, priority, magic>>

\* The tails of OsRwlockRdPendOp and OsRwlockWrPendOp: the lock is not looked at again.
RwlockPendReturn(t) ==
    /\ taskStatus[t] \in {"WOKEN", "TIMEOUT"}
    /\ taskStatus' = HPFWaitReturn(t)
    /\ UNCHANGED <<policy, priority, lockVars>>

\* Unlink the task from the list it pends on.
Unlink(t) ==
    /\ readList' = [l \in Rwlocks |-> LOS_ListDelete(readList[l], t)]
    /\ writeList' = [l \in Rwlocks |-> LOS_ListDelete(writeList[l], t)]
    /\ UNCHANGED <<policy, priority, magic, rwCount, writeOwner, rdHeld, wrHeld>>

\* The tick finds that a bounded wait is over.
RwlockTimeout(t) == SchedTimeoutTaskWake(t) /\ Unlink(t)

\* LOS_TaskDelete as far as rwlocks are concerned: HPFExit unlinks the task, and no lock
\* it holds is released.
LOS_TaskDelete(t) ==
    /\ taskStatus[t] # "UNUSED"
    /\ taskStatus' = [taskStatus EXCEPT ![t] = "UNUSED"]
    /\ Unlink(t)

\* LOS_SetTaskScheduler through HPFSchedParamModify: a waiting task keeps its place in the
\* list.  (LOS_TaskPriSet is the case of an unchanged policy.)
HPFSchedParamModify(t, pol, prio) ==
    /\ taskStatus[t] # "UNUSED"
    /\ policy' = [policy EXCEPT ![t] = pol]
    /\ priority' = [priority EXCEPT ![t] = prio]
    /\ UNCHANGED <<taskStatus, lockVars>>

Next ==
    \E t \in Tasks :
        \/ \E l \in Rwlocks :
              \/ LOS_RwlockInit(t, l)
              \/ LOS_RwlockDestroy(t, l)
              \/ \E timeout \in Timeouts : LOS_RwlockRdLock(t, l, timeout)
              \/ \E timeout \in Timeouts : LOS_RwlockWrLock(t, l, timeout)
              \/ LOS_RwlockTryRdLock(t, l)
              \/ LOS_RwlockTryWrLock(t, l)
              \/ LOS_RwlockUnLock(t, l)
        \/ RwlockPendReturn(t)
        \/ RwlockTimeout(t)
        \/ LOS_TaskDelete(t)
        \/ \E param \in Params : HPFSchedParamModify(t, param[1], param[2])

Spec == Init /\ [][Next]_vars

-----------------------------------------------------------------------------
\* LOS_RwlockDestroy tests only rwCount before it zeroes both wait lists, and a free
\* lock wakes nobody: a lock with count 0 has no waiter, no owner, and so nobody to
\* strand, whatever timeouts, deletions and changes of priority have come before.
NobodyWaitsOnFreeLock ==
    \A l \in Rwlocks : rwCount[l] = 0 =>
        readList[l] = <<>> /\ writeList[l] = <<>> /\ writeOwner[l] = NULL

\* The owner field is meaningful exactly in write mode, across every grant that changes
\* the mode: the tests of writeOwner in the lock and unlock paths rely on it.
OwnerIffWriteMode == \A l \in Rwlocks : writeOwner[l] # NULL <=> rwCount[l] < 0

\* The grants of one lock, over all tasks.
Total(held) == MapThenSumSet(LAMBDA t : held[t], Tasks)

\* Readers or one writer, never both, and rwCount counts them: when tasks release only
\* what they hold, the count is the number of grants, including those to woken tasks.
HoldersAgree ==
    \A l \in Rwlocks :
        LET readers == Total(rdHeld[l])
            writers == Total(wrHeld[l])
        IN  /\ rwCount[l] = readers - writers
            /\ readers = 0 \/ writers = 0
            /\ writers > 0 => wrHeld[l][writeOwner[l]] = writers

GoesBefore(a, b) == policy[a] = policy[b] /\ priority[a] < priority[b]

\* Who gets a read lock while a task waits to write has a higher priority than the first
\* such writer, under the same policy: readers of its own or a lower priority, or of
\* another policy, do not overtake it, neither by a new lock nor in the batch that an
\* unlock wakes.
NoOvertaking ==
    \A l \in Rwlocks, t \in Tasks :
        rdHeld'[l][t] > rdHeld[l][t] /\ writeList[l] # <<>> =>
            GoesBefore(t, Head(writeList[l]))

NoReaderOvertakesWriter == [][NoOvertaking]_vars

=============================================================================

--------------------------- MODULE LosRwlock_proofs ---------------------------
(***************************************************************************)
(* Proofs about rwlocks, for every set of tasks and locks, every INT8_MAX, *)
(* any policies and priorities and any use of the operations.              *)
(***************************************************************************)
EXTENDS LosRwlock, LosListLemmas, FiniteSetTheorems

\* The inductive invariant.  NobodyWaitsOnFreeLock is inductive beside the types: a
\* waiter is linked only to a lock that is not free, and the count returns to 0 only when
\* the lists are empty.  The types include that the first waiting writer is a task.
IInv == TypeOK /\ NobodyWaitsOnFreeLock /\ OwnerIffWriteMode

LEMMA InitIInv == Init => IInv
  BY RwlockAssumption
     DEF Init, IInv, TypeOK, TaskStatus, NobodyWaitsOnFreeLock, OwnerIffWriteMode

LEMMA UnchangedIInv == IInv /\ UNCHANGED vars => IInv'
  BY DEF IInv, TypeOK, NobodyWaitsOnFreeLock, OwnerIffWriteMode, vars, lockVars

\* Linking a waiter keeps a wait list a sequence of tasks.
LEMMA LinkType ==
  ASSUME NEW t \in Tasks, NEW l \in Seq(Tasks), priority \in [Tasks -> Nat]
  PROVE  InsertAt(l, OsSchedLockPendFindPos(t, l), t) \in Seq(Tasks)
<1>1. OneProcess \in [Tasks -> Nat]
  BY DEF OneProcess
<1>2. OsSchedLockPendFindPos(t, l) \in 1..Len(l) + 1
  BY <1>1, FindPosInRange, Zenon DEF OsSchedLockPendFindPos
<1> QED BY <1>2, InsertList, Zenon

\* The ghost counts stay functions to integers.
LEMMA GhostType ==
  ASSUME NEW held \in [Rwlocks -> [Tasks -> Int]], NEW l \in Rwlocks
  PROVE  /\ \A ts : Granted(held, l, ts) \in [Rwlocks -> [Tasks -> Int]]
         /\ \A t \in Tasks : Released(held, l, t) \in [Rwlocks -> [Tasks -> Int]]
  BY DEF Granted, Released

\* Deleting from an empty wait list leaves it empty.
LEMMA UnlinkStep ==
  ASSUME NEW t \in Tasks, IInv, Unlink(t), taskStatus' \in [Tasks -> TaskStatus]
  PROVE  IInv'
<1>1. LOS_ListDelete(<<>>, t) = <<>>
  BY DEF LOS_ListDelete, ToSet
<1>2. \A l \in Rwlocks : /\ LOS_ListDelete(readList[l], t) \in Seq(Tasks)
                         /\ LOS_ListDelete(writeList[l], t) \in Seq(Tasks)
  BY DeleteList DEF IInv, TypeOK
<1>3. TypeOK'
  BY <1>2 DEF Unlink, IInv, TypeOK
<1>4. NobodyWaitsOnFreeLock'
  BY <1>1 DEF Unlink, IInv, NobodyWaitsOnFreeLock
<1>5. OwnerIffWriteMode'
  BY DEF Unlink, IInv, OwnerIffWriteMode
<1> QED BY <1>3, <1>4, <1>5 DEF IInv

\* A reader blocks on a lock that is not free: on a free lock nobody waits to write, so
\* OsRwlockPriCompare lets it pass.
LEMMA ReadStep ==
  ASSUME NEW t \in Tasks, NEW l \in Rwlocks, NEW timeout, IInv, OsRwlockRdPendOp(t, l, timeout)
  PROVE  IInv'
<1> DEFINE mayRead == rwCount[l] >= 0 /\ OsRwlockPriCompare(t, writeList[l])
<1>1. rwCount[l] \in -CountMax - 1..CountMax /\ CountMax \in Nat
  BY RwlockAssumption DEF IInv, TypeOK
<1>2. rwCount[l] = 0 => mayRead
  BY <1>1 DEF IInv, NobodyWaitsOnFreeLock, OsRwlockPriCompare
<1>3. UNCHANGED <<policy, priority, magic, writeOwner, writeList, wrHeld>>
  BY DEF OsRwlockRdPendOp
<1>4. CASE /\ mayRead /\ rwCount[l] # CountMax
           /\ rwCount' = [rwCount EXCEPT ![l] = @ + 1]
           /\ rdHeld' = Granted(rdHeld, l, {t})
           /\ UNCHANGED <<taskStatus, readList>>
  <2>1. rwCount[l] >= 0 /\ rwCount'[l] = rwCount[l] + 1
    BY <1>4 DEF IInv, TypeOK
  <2>2. rwCount' \in [Rwlocks -> -CountMax - 1..CountMax]
    <3>1. rwCount[l] + 1 \in -CountMax - 1..CountMax
      BY <1>1, <1>4
    <3> QED BY <1>4, <3>1 DEF IInv, TypeOK
  <2>3. rdHeld' \in [Rwlocks -> [Tasks -> Int]]
    BY <1>4, GhostType DEF IInv, TypeOK
  <2>4. TypeOK'
    BY <1>3, <1>4, <2>2, <2>3 DEF IInv, TypeOK
  <2>5. NobodyWaitsOnFreeLock'
    BY <1>1, <1>3, <1>4, <2>1 DEF IInv, TypeOK, NobodyWaitsOnFreeLock
  <2>6. OwnerIffWriteMode'
    BY <1>1, <1>3, <1>4, <2>1 DEF IInv, TypeOK, OwnerIffWriteMode
  <2> QED BY <2>4, <2>5, <2>6 DEF IInv
<1>5. CASE /\ ~mayRead
           /\ readList' = [readList EXCEPT ![l] = InsertAt(@, OsSchedLockPendFindPos(t, @), t)]
           /\ taskStatus' = HPFWait(t, timeout)
           /\ UNCHANGED <<rwCount, rdHeld>>
  <2>1. readList[l] \in Seq(Tasks)
    BY DEF IInv, TypeOK
  <2>2. InsertAt(readList[l], OsSchedLockPendFindPos(t, readList[l]), t) \in Seq(Tasks)
    BY <2>1, LinkType DEF IInv, TypeOK
  <2>3. readList' \in [Rwlocks -> Seq(Tasks)]
    BY <1>5, <2>2 DEF IInv, TypeOK
  <2>4. \A k \in Rwlocks : k # l => readList'[k] = readList[k]
    BY <1>5 DEF IInv, TypeOK
  <2>5. taskStatus' \in [Tasks -> TaskStatus]
    BY <1>5 DEF IInv, TypeOK, HPFWait, TaskStatus
  <2>6. TypeOK' /\ OwnerIffWriteMode'
    BY <1>3, <1>5, <2>3, <2>5 DEF IInv, TypeOK, OwnerIffWriteMode
  <2>7. NobodyWaitsOnFreeLock'
    BY <1>2, <1>3, <1>5, <2>4 DEF IInv, NobodyWaitsOnFreeLock
  <2> QED BY <2>6, <2>7 DEF IInv
<1> QED BY <1>4, <1>5 DEF OsRwlockRdPendOp

\* A writer blocks on a lock that is not free, and owns the lock it takes.
LEMMA WriteStep ==
  ASSUME NEW t \in Tasks, NEW l \in Rwlocks, NEW timeout, IInv, OsRwlockWrPendOp(t, l, timeout)
  PROVE  IInv'
<1>1. rwCount[l] \in -CountMax - 1..CountMax /\ CountMax \in Nat \ {0} /\ t # NULL
  BY RwlockAssumption DEF IInv, TypeOK
<1>2. UNCHANGED <<policy, priority, magic, readList, rdHeld>>
  BY DEF OsRwlockWrPendOp
<1>3. CASE /\ rwCount[l] = 0
           /\ rwCount' = [rwCount EXCEPT ![l] = -1]
           /\ writeOwner' = [writeOwner EXCEPT ![l] = t]
           /\ wrHeld' = Granted(wrHeld, l, {t})
           /\ UNCHANGED <<taskStatus, writeList>>
  <2>1. -1 \in -CountMax - 1..CountMax
    BY <1>1
  <2>2. wrHeld' \in [Rwlocks -> [Tasks -> Int]]
    BY <1>3, GhostType DEF IInv, TypeOK
  <2>3. TypeOK'
    BY <1>2, <1>3, <2>1, <2>2 DEF IInv, TypeOK
  <2>4. NobodyWaitsOnFreeLock'
    BY <1>2, <1>3 DEF IInv, TypeOK, NobodyWaitsOnFreeLock
  <2>5. OwnerIffWriteMode'
    BY <1>1, <1>3 DEF IInv, TypeOK, OwnerIffWriteMode
  <2> QED BY <2>3, <2>4, <2>5 DEF IInv
<1>4. CASE /\ rwCount[l] < 0 /\ rwCount[l] # -CountMax - 1
           /\ rwCount' = [rwCount EXCEPT ![l] = @ - 1]
           /\ wrHeld' = Granted(wrHeld, l, {t})
           /\ UNCHANGED <<taskStatus, writeOwner, writeList>>
  <2>1. rwCount[l] - 1 \in -CountMax - 1..CountMax /\ rwCount[l] - 1 < 0
    BY <1>1, <1>4
  <2>2. wrHeld' \in [Rwlocks -> [Tasks -> Int]]
    BY <1>4, GhostType DEF IInv, TypeOK
  <2>3. TypeOK'
    BY <1>2, <1>4, <2>1, <2>2 DEF IInv, TypeOK
  <2>4. NobodyWaitsOnFreeLock'
    BY <1>2, <1>4, <2>1 DEF IInv, TypeOK, NobodyWaitsOnFreeLock
  <2>5. OwnerIffWriteMode'
    BY <1>4, <2>1 DEF IInv, TypeOK, OwnerIffWriteMode
  <2> QED BY <2>3, <2>4, <2>5 DEF IInv
<1>5. CASE /\ rwCount[l] # 0
           /\ writeList' = [writeList EXCEPT ![l] = InsertAt(@, OsSchedLockPendFindPos(t, @), t)]
           /\ taskStatus' = HPFWait(t, timeout)
           /\ UNCHANGED <<rwCount, writeOwner, wrHeld>>
  <2>1. writeList[l] \in Seq(Tasks)
    BY DEF IInv, TypeOK
  <2>2. InsertAt(writeList[l], OsSchedLockPendFindPos(t, writeList[l]), t) \in Seq(Tasks)
    BY <2>1, LinkType DEF IInv, TypeOK
  <2>3. writeList' \in [Rwlocks -> Seq(Tasks)]
    BY <1>5, <2>2 DEF IInv, TypeOK
  <2>4. \A k \in Rwlocks : k # l => writeList'[k] = writeList[k]
    BY <1>5 DEF IInv, TypeOK
  <2>5. taskStatus' \in [Tasks -> TaskStatus]
    BY <1>5 DEF IInv, TypeOK, HPFWait, TaskStatus
  <2>6. TypeOK' /\ OwnerIffWriteMode'
    BY <1>2, <1>5, <2>3, <2>5 DEF IInv, TypeOK, OwnerIffWriteMode
  <2>7. NobodyWaitsOnFreeLock'
    BY <1>2, <1>5, <2>4 DEF IInv, NobodyWaitsOnFreeLock
  <2> QED BY <2>6, <2>7 DEF IInv
<1> QED BY <1>3, <1>4, <1>5 DEF OsRwlockWrPendOp

\* The last unlock leaves count 0 only when both lists are empty.
LEMMA PostStep ==
  ASSUME NEW l \in Rwlocks, NEW rd \in [Rwlocks -> [Tasks -> Int]],
         NEW wr \in [Rwlocks -> [Tasks -> Int]],
         IInv, OsRwlockPostOp(l, rd, wr), UNCHANGED <<policy, priority, magic>>
  PROVE  IInv'
<1> USE DEF IInv
<1>1. CountMax \in Nat \ {0}
  BY RwlockAssumption
<1>2. CASE /\ readList[l] = <<>> /\ writeList[l] = <<>>
           /\ rwCount' = [rwCount EXCEPT ![l] = 0]
           /\ writeOwner' = [writeOwner EXCEPT ![l] = NULL]
           /\ rdHeld' = rd /\ wrHeld' = wr
           /\ UNCHANGED <<taskStatus, readList, writeList>>
  <2>1. 0 \in -CountMax - 1..CountMax
    BY <1>1
  <2>2. TypeOK'
    BY <1>2, <2>1 DEF TypeOK
  <2>3. NobodyWaitsOnFreeLock' /\ OwnerIffWriteMode'
    BY <1>2 DEF TypeOK, NobodyWaitsOnFreeLock, OwnerIffWriteMode
  <2> QED BY <2>2, <2>3
<1>3. CASE /\ writeList[l] # <<>>
           /\ writeOwner' = [writeOwner EXCEPT ![l] = Head(writeList[l])]
           /\ taskStatus' = HPFWake(Head(writeList[l]))
           /\ wrHeld' = Granted(wr, l, {Head(writeList[l])})
           /\ rwCount' = [rwCount EXCEPT ![l] = -1]
           /\ writeList' = [writeList EXCEPT ![l] = Tail(@)]
           /\ rdHeld' = rd
           /\ UNCHANGED readList
  <2>1. -1 \in -CountMax - 1..CountMax
    BY <1>1
  <2>2. writeList[l] \in Seq(Tasks)
    BY DEF TypeOK
  <2>3. Head(writeList[l]) \in Tasks /\ Tail(writeList[l]) \in Seq(Tasks)
    BY <1>3, <2>2
  <2>4. Head(writeList[l]) # NULL
    BY <2>3, RwlockAssumption
  <2>5. wrHeld' \in [Rwlocks -> [Tasks -> Int]]
    BY <1>3, GhostType
  <2>6. taskStatus' \in [Tasks -> TaskStatus]
    BY <1>3 DEF TypeOK, HPFWake, TaskStatus
  <2>7. TypeOK'
    BY <1>3, <2>1, <2>3, <2>5, <2>6 DEF TypeOK
  <2>8. NobodyWaitsOnFreeLock'
    BY <1>3 DEF TypeOK, NobodyWaitsOnFreeLock
  <2>9. OwnerIffWriteMode'
    <3>1. rwCount'[l] = -1 /\ writeOwner'[l] # NULL
      BY <1>3, <2>4 DEF TypeOK
    <3>2. \A k \in Rwlocks : k # l => rwCount'[k] = rwCount[k] /\ writeOwner'[k] = writeOwner[k]
      BY <1>3 DEF TypeOK
    <3> QED BY <3>1, <3>2 DEF OwnerIffWriteMode
  <2> QED BY <2>7, <2>8, <2>9
<1>4. ASSUME NEW n \in 1..Len(readList[l]), NEW ts,
             n <= CountMax,
             rwCount' = [rwCount EXCEPT ![l] = n],
             taskStatus' = [t \in Tasks |-> IF t \in ts THEN "WOKEN" ELSE taskStatus[t]],
             readList' = [readList EXCEPT ![l] = SubSeq(@, n + 1, Len(@))],
             rdHeld' = Granted(rd, l, ts),
             writeOwner' = [writeOwner EXCEPT ![l] = NULL],
             wrHeld' = wr,
             UNCHANGED writeList
      PROVE  IInv'
  <2>1. readList[l] \in Seq(Tasks)
    BY DEF TypeOK
  <2>2. n \in Int /\ n > 0 /\ n \in -CountMax - 1..CountMax
    BY <1>1, <1>4, <2>1
  <2>3. SubSeq(readList[l], n + 1, Len(readList[l])) \in Seq(Tasks)
    BY <2>1, <2>2
  <2>4. rdHeld' \in [Rwlocks -> [Tasks -> Int]]
    BY <1>4, GhostType
  <2>5. taskStatus' \in [Tasks -> TaskStatus]
    BY <1>4 DEF TypeOK, TaskStatus
  <2>6. TypeOK'
    BY <1>4, <2>2, <2>3, <2>4, <2>5 DEF TypeOK
  <2>7. NobodyWaitsOnFreeLock'
    BY <1>4, <2>2 DEF TypeOK, NobodyWaitsOnFreeLock
  <2>8. OwnerIffWriteMode'
    BY <1>4, <2>2 DEF TypeOK, OwnerIffWriteMode
  <2> QED BY <2>6, <2>7, <2>8
<1>5. CASE /\ readList[l] # <<>> /\ ~GrantsWriter(l)
           /\ \E n \in 1..Len(readList[l]) :
                 LET woken == {readList[l][i] : i \in 1..n} IN
                 /\ WakesReaders(l, n)
                 /\ rwCount' = [rwCount EXCEPT ![l] = n]
                 /\ taskStatus' = [t \in Tasks |-> IF t \in woken THEN "WOKEN" ELSE taskStatus[t]]
                 /\ readList' = [readList EXCEPT ![l] = SubSeq(@, n + 1, Len(@))]
                 /\ rdHeld' = Granted(rd, l, woken)
           /\ writeOwner' = [writeOwner EXCEPT ![l] = NULL]
           /\ wrHeld' = wr
           /\ UNCHANGED writeList
  <2>1. PICK n \in 1..Len(readList[l]) :
                 LET woken == {readList[l][i] : i \in 1..n} IN
                 /\ WakesReaders(l, n)
                 /\ rwCount' = [rwCount EXCEPT ![l] = n]
                 /\ taskStatus' = [t \in Tasks |-> IF t \in woken THEN "WOKEN" ELSE taskStatus[t]]
                 /\ readList' = [readList EXCEPT ![l] = SubSeq(@, n + 1, Len(@))]
                 /\ rdHeld' = Granted(rd, l, woken)
    BY <1>5
  <2>2. n <= CountMax
    BY <2>1 DEF WakesReaders
  <2> QED BY <1>4, <1>5, <2>1, <2>2, Zenon
<1> QED BY <1>2, <1>3, <1>5, Zenon DEF OsRwlockPostOp, GrantsWriter

\* Every unlock: a count that only shrinks does not reach 0 without OsRwlockPostOp.
LEMMA UnlockStep ==
  ASSUME NEW t \in Tasks, NEW l \in Rwlocks, IInv, LOS_RwlockUnLock(t, l)
  PROVE  IInv'
<1> DEFINE rd == IF rwCount[l] > 0 THEN Released(rdHeld, l, t) ELSE rdHeld
           wr == IF rwCount[l] < 0 THEN Released(wrHeld, l, t) ELSE wrHeld
<1>1. rwCount[l] \in -CountMax - 1..CountMax /\ CountMax \in Nat \ {0}
  BY RwlockAssumption DEF IInv, TypeOK
<1>2. rd \in [Rwlocks -> [Tasks -> Int]] /\ wr \in [Rwlocks -> [Tasks -> Int]]
  BY GhostType DEF IInv, TypeOK
<1>3. UNCHANGED <<policy, priority, magic>>
  BY DEF LOS_RwlockUnLock
<1> HIDE DEF rd, wr
<1>4. CASE /\ rwCount[l] > 1 \/ rwCount[l] < -1
           /\ rwCount' = [rwCount EXCEPT ![l] = IF @ > 1 THEN @ - 1 ELSE @ + 1]
           /\ rdHeld' = rd /\ wrHeld' = wr
           /\ UNCHANGED <<taskStatus, writeOwner, readList, writeList>>
  <2>1. /\ rwCount' \in [Rwlocks -> -CountMax - 1..CountMax]
        /\ \A k \in Rwlocks : k # l => rwCount'[k] = rwCount[k]
        /\ rwCount'[l] # 0
        /\ rwCount'[l] < 0 <=> rwCount[l] < 0
    <3>1. CASE rwCount[l] > 1
      <4>1. rwCount' = [rwCount EXCEPT ![l] = rwCount[l] - 1]
        BY <1>4, <3>1 DEF IInv, TypeOK
      <4>2. rwCount[l] - 1 \in -CountMax - 1..CountMax /\ rwCount[l] - 1 > 0
        BY <1>1, <3>1
      <4>3. rwCount'[l] = rwCount[l] - 1
        BY <4>1 DEF IInv, TypeOK
      <4>4. rwCount' \in [Rwlocks -> -CountMax - 1..CountMax]
        BY <4>1, <4>2 DEF IInv, TypeOK
      <4>5. \A k \in Rwlocks : k # l => rwCount'[k] = rwCount[k]
        BY <4>1 DEF IInv, TypeOK
      <4>6. rwCount'[l] # 0 /\ (rwCount'[l] < 0 <=> rwCount[l] < 0)
        BY <1>1, <3>1, <4>2, <4>3
      <4> QED BY <4>4, <4>5, <4>6
    <3>2. CASE rwCount[l] < -1
      <4>1. ~(rwCount[l] > 1)
        BY <1>1, <3>2
      <4>2. rwCount' = [rwCount EXCEPT ![l] = rwCount[l] + 1]
        BY <1>4, <4>1 DEF IInv, TypeOK
      <4>3. rwCount[l] + 1 \in -CountMax - 1..CountMax /\ rwCount[l] + 1 < 0
        BY <1>1, <3>2
      <4>4. rwCount'[l] = rwCount[l] + 1
        BY <4>2 DEF IInv, TypeOK
      <4>5. rwCount' \in [Rwlocks -> -CountMax - 1..CountMax]
        BY <4>2, <4>3 DEF IInv, TypeOK
      <4>6. \A k \in Rwlocks : k # l => rwCount'[k] = rwCount[k]
        BY <4>2 DEF IInv, TypeOK
      <4>7. rwCount'[l] # 0 /\ (rwCount'[l] < 0 <=> rwCount[l] < 0)
        BY <1>1, <3>2, <4>3, <4>4
      <4> QED BY <4>5, <4>6, <4>7
    <3> QED BY <1>4, <3>1, <3>2
  <2>2. TypeOK'
    BY <1>2, <1>3, <1>4, <2>1 DEF IInv, TypeOK
  <2>3. NobodyWaitsOnFreeLock'
    BY <1>4, <2>1 DEF IInv, TypeOK, NobodyWaitsOnFreeLock
  <2>4. OwnerIffWriteMode'
    BY <1>4, <2>1 DEF IInv, TypeOK, OwnerIffWriteMode
  <2> QED BY <2>2, <2>3, <2>4 DEF IInv
<1>5. CASE OsRwlockPostOp(l, rd, wr)
  BY <1>2, <1>3, <1>5, PostStep
<1> QED BY <1>4, <1>5 DEF LOS_RwlockUnLock, rd, wr

LEMMA NextIInv == IInv /\ [Next]_vars => IInv'
<1> SUFFICES ASSUME IInv, [Next]_vars PROVE IInv'
  OBVIOUS
<1>1. ASSUME NEW t \in Tasks, NEW l \in Rwlocks, LOS_RwlockInit(t, l) PROVE IInv'
  <2>1. 0 \in -CountMax - 1..CountMax
    BY RwlockAssumption
  <2>2. TypeOK'
    BY <1>1, <2>1 DEF LOS_RwlockInit, IInv, TypeOK
  <2>3. NobodyWaitsOnFreeLock' /\ OwnerIffWriteMode'
    BY <1>1 DEF LOS_RwlockInit, IInv, TypeOK, NobodyWaitsOnFreeLock, OwnerIffWriteMode
  <2> QED BY <2>2, <2>3 DEF IInv
<1>2. ASSUME NEW t \in Tasks, NEW l \in Rwlocks, LOS_RwlockDestroy(t, l) PROVE IInv'
  <2>1. TypeOK'
    BY <1>2 DEF LOS_RwlockDestroy, IInv, TypeOK
  <2>2. NobodyWaitsOnFreeLock' /\ OwnerIffWriteMode'
    BY <1>2 DEF LOS_RwlockDestroy, IInv, TypeOK, NobodyWaitsOnFreeLock, OwnerIffWriteMode
  <2> QED BY <2>1, <2>2 DEF IInv
<1>3. ASSUME NEW t \in Tasks, NEW l \in Rwlocks,
             \/ \E timeout \in Timeouts : LOS_RwlockRdLock(t, l, timeout)
             \/ LOS_RwlockTryRdLock(t, l)
      PROVE  IInv'
  BY <1>3, ReadStep DEF LOS_RwlockRdLock, LOS_RwlockTryRdLock
<1>4. ASSUME NEW t \in Tasks, NEW l \in Rwlocks,
             \/ \E timeout \in Timeouts : LOS_RwlockWrLock(t, l, timeout)
             \/ LOS_RwlockTryWrLock(t, l)
      PROVE  IInv'
  BY <1>4, WriteStep DEF LOS_RwlockWrLock, LOS_RwlockTryWrLock
<1>5. ASSUME NEW t \in Tasks, NEW l \in Rwlocks, LOS_RwlockUnLock(t, l) PROVE IInv'
  BY <1>5, UnlockStep
<1>6. ASSUME NEW t \in Tasks, RwlockPendReturn(t) PROVE IInv'
  BY <1>6 DEF RwlockPendReturn, HPFWaitReturn, TaskStatus, lockVars,
              IInv, TypeOK, NobodyWaitsOnFreeLock, OwnerIffWriteMode
<1>7. ASSUME NEW t \in Tasks, RwlockTimeout(t) \/ LOS_TaskDelete(t) PROVE IInv'
  <2>1. Unlink(t)
    BY <1>7 DEF RwlockTimeout, LOS_TaskDelete
  <2>2. taskStatus' \in [Tasks -> TaskStatus]
    BY <1>7 DEF RwlockTimeout, LOS_TaskDelete, SchedTimeoutTaskWake, TaskStatus, IInv, TypeOK
  <2> QED BY <2>1, <2>2, UnlinkStep
<1>8. ASSUME NEW t \in Tasks, NEW param \in Params, HPFSchedParamModify(t, param[1], param[2])
      PROVE  IInv'
  BY <1>8, RwlockAssumption DEF HPFSchedParamModify, lockVars,
              IInv, TypeOK, NobodyWaitsOnFreeLock, OwnerIffWriteMode
<1>9. CASE UNCHANGED vars
  BY <1>9, UnchangedIInv
<1> QED BY <1>1, <1>2, <1>3, <1>4, <1>5, <1>6, <1>7, <1>8, <1>9, Zenon DEF Next

LEMMA IInvHolds == Spec => []IInv
  BY InitIInv, NextIInv, PTL DEF Spec

\* Every variable of a rwlock keeps its type; in particular rwCount never leaves the range
\* of its 8-bit field, so the tests against INT8_MAX and INT8_MIN suffice.
THEOREM TypeCorrect == Spec => []TypeOK
<1>1. IInv => TypeOK
  BY DEF IInv
<1> QED BY <1>1, IInvHolds, PTL

\* LOS_RwlockDestroy never zeroes a lock under a waiting task, and no task waits for a
\* free lock, whatever the tasks do with the lock.
THEOREM FreeLockIsIdle == Spec => []NobodyWaitsOnFreeLock
<1>1. IInv => NobodyWaitsOnFreeLock
  BY DEF IInv
<1> QED BY <1>1, IInvHolds, PTL

\* writeOwner names a task exactly while the lock is in write mode.
THEOREM OwnerMatchesMode == Spec => []OwnerIffWriteMode
<1>1. IInv => OwnerIffWriteMode
  BY DEF IInv
<1> QED BY <1>1, IInvHolds, PTL

-----------------------------------------------------------------------------
\* The ghost counts, read at one lock and task.
LEMMA GrantedAt ==
    ASSUME NEW held \in [Rwlocks -> [Tasks -> Int]], NEW l \in Rwlocks, NEW ts,
           NEW k \in Rwlocks, NEW u \in Tasks
    PROVE  Granted(held, l, ts)[k][u] =
               IF OnlyHolders /\ k = l /\ u \in ts THEN held[k][u] + 1 ELSE held[k][u]
BY DEF Granted

LEMMA ReleasedAt ==
    ASSUME NEW held \in [Rwlocks -> [Tasks -> Int]], NEW l \in Rwlocks, NEW t \in Tasks,
           NEW k \in Rwlocks, NEW u \in Tasks
    PROVE  Released(held, l, t)[k][u] =
               IF OnlyHolders /\ k = l /\ u = t THEN held[k][u] - 1 ELSE held[k][u]
BY DEF Released

\* All tasks here belong to one process, so the comparison is that of their policies and
\* priorities.
LEMMA CompareIs ==
    ASSUME TypeOK, NEW a \in Tasks, NEW b \in Tasks
    PROVE  /\ OsSchedParamCompare(a, b) < 0 => GoesBefore(a, b)
           /\ ~(OsSchedParamCompare(a, b) <= 0) => GoesBefore(b, a)
<1>1. priority[a] \in Nat /\ priority[b] \in Nat
  BY DEF TypeOK
<1>2. OsSchedParamCompare(a, b) = IF policy[a] = policy[b] THEN priority[a] - priority[b] ELSE 0
  BY DEF OsSchedParamCompare, SchedParamCompare, HPFParamCompare, OneProcess
<1> QED BY <1>1, <1>2 DEF GoesBefore

\* OsRwlockPriCompare lets a task pass exactly when it goes before the first writer.
LEMMA PassesIf ==
    ASSUME TypeOK, NEW t \in Tasks, NEW l \in Rwlocks, OsRwlockPriCompare(t, writeList[l]),
           writeList[l] # <<>>
    PROVE  GoesBefore(t, Head(writeList[l]))
<1>1. Head(writeList[l]) \in Tasks
  BY TailList DEF TypeOK
<1>2. OsSchedParamCompare(t, Head(writeList[l])) < 0
  BY DEF OsRwlockPriCompare
<1> QED BY <1>1, <1>2, CompareIs

\* The readers that an unlock wakes go before the first waiting writer: the first one
\* because the writer was not preferred, the others because the loop tests them.
LEMMA WokenPass ==
    ASSUME TypeOK, NEW l \in Rwlocks, readList[l] # <<>>, ~GrantsWriter(l),
           NEW n \in 1..Len(readList[l]), WakesReaders(l, n), writeList[l] # <<>>,
           NEW i \in 1..n
    PROVE  readList[l][i] \in Tasks /\ GoesBefore(readList[l][i], Head(writeList[l]))
<1>1. readList[l] \in Seq(Tasks) /\ writeList[l] \in Seq(Tasks) /\ priority \in [Tasks -> Nat]
  BY DEF TypeOK
<1>2. /\ Head(writeList[l]) \in Tasks /\ readList[l][i] \in Tasks
      /\ Head(readList[l]) = readList[l][1] /\ Head(readList[l]) \in Tasks
  BY <1>1
<1>3. CASE i = 1
  <2>1. ~(OsSchedParamCompare(Head(writeList[l]), Head(readList[l])) <= 0)
    BY DEF GrantsWriter
  <2>2. GoesBefore(Head(readList[l]), Head(writeList[l]))
    BY <2>1, <1>2, CompareIs
  <2> QED BY <2>2, <1>2, <1>3
<1>4. CASE i # 1
  <2>1. i \in 2..n
    BY <1>4
  <2>2. OsRwlockPriCompare(readList[l][i], writeList[l])
    BY <2>1 DEF WakesReaders
  <2> QED BY <2>2, <1>2, PassesIf
<1> QED BY <1>3, <1>4

\* Only a grant raises a count, and it raises the counts of the tasks it is made to.
LEMMA PostOvertakes ==
    ASSUME TypeOK, NEW l \in Rwlocks, NEW rd \in [Rwlocks -> [Tasks -> Int]], NEW wr,
           \A k \in Rwlocks, u \in Tasks : rd[k][u] <= rdHeld[k][u],
           OsRwlockPostOp(l, rd, wr)
    PROVE  NoOvertaking
<1>1. \A k \in Rwlocks, u \in Tasks : rdHeld[k][u] \in Int /\ rd[k][u] \in Int
  BY DEF TypeOK
<1>2. CASE rdHeld' = rd
  <2>1. \A k \in Rwlocks, u \in Tasks : ~(rdHeld'[k][u] > rdHeld[k][u])
    BY <1>1, <1>2
  <2> QED BY <2>1 DEF NoOvertaking
<1>3. CASE /\ readList[l] # <<>> /\ ~GrantsWriter(l)
           /\ \E n \in 1..Len(readList[l]) :
                 /\ WakesReaders(l, n)
                 /\ rdHeld' = Granted(rd, l, {readList[l][i] : i \in 1..n})
  <2>1. PICK n \in 1..Len(readList[l]) :
            /\ WakesReaders(l, n)
            /\ rdHeld' = Granted(rd, l, {readList[l][i] : i \in 1..n})
    BY <1>3
  <2>2. SUFFICES ASSUME NEW k \in Rwlocks, NEW u \in Tasks, rdHeld'[k][u] > rdHeld[k][u],
                        writeList[k] # <<>>
                 PROVE  GoesBefore(u, Head(writeList[k]))
    BY DEF NoOvertaking
  <2>3. k = l /\ u \in {readList[l][i] : i \in 1..n}
    <3>0. PICK ts : ts = {readList[l][i] : i \in 1..n}
      OBVIOUS
    <3>1. rdHeld'[k][u] = IF OnlyHolders /\ k = l /\ u \in ts THEN rd[k][u] + 1 ELSE rd[k][u]
      <4>1. rdHeld' = Granted(rd, l, ts)
        BY <2>1, <3>0
      <4>2. Granted(rd, l, ts)[k][u] = IF OnlyHolders /\ k = l /\ u \in ts
                                       THEN rd[k][u] + 1 ELSE rd[k][u]
        BY DEF Granted
      <4> QED BY <4>1, <4>2
    <3>2. ~(rd[k][u] > rdHeld[k][u])
      BY <1>1
    <3> QED BY <3>0, <3>1, <3>2, <2>2
  <2>4. PICK i \in 1..n : u = readList[l][i]
    BY <2>3
  <2> QED BY <2>1, <2>2, <2>3, <2>4, <1>3, WokenPass
<1> QED BY <1>2, <1>3 DEF OsRwlockPostOp

LEMMA NextOvertakes == IInv /\ [Next]_vars => [NoOvertaking]_vars
<1> SUFFICES ASSUME IInv, Next PROVE NoOvertaking
  OBVIOUS
<1>0. TypeOK /\ rdHeld \in [Rwlocks -> [Tasks -> Int]]
      /\ \A k \in Rwlocks, u \in Tasks : rdHeld[k][u] \in Int
  BY DEF IInv, TypeOK
<1>1. ASSUME rdHeld' = rdHeld PROVE NoOvertaking
  <2>1. \A k \in Rwlocks, u \in Tasks : ~(rdHeld'[k][u] > rdHeld[k][u])
    BY <1>0, <1>1
  <2> QED BY <2>1 DEF NoOvertaking
<1>2. ASSUME NEW t \in Tasks, NEW l \in Rwlocks, NEW timeout, OsRwlockRdPendOp(t, l, timeout)
      PROVE  NoOvertaking
  <2>1. CASE rdHeld' = rdHeld
    BY <2>1, <1>1
  <2>2. CASE rdHeld' = Granted(rdHeld, l, {t}) /\ OsRwlockPriCompare(t, writeList[l])
    <3>1. \A k \in Rwlocks, u \in Tasks : rdHeld'[k][u] > rdHeld[k][u] => k = l /\ u = t
      BY <2>2, <1>0, GrantedAt
    <3> QED BY <3>1, <2>2, <1>0, PassesIf DEF NoOvertaking
  <2> QED BY <1>2, <2>1, <2>2 DEF OsRwlockRdPendOp
<1>3. ASSUME NEW t \in Tasks, NEW l \in Rwlocks, LOS_RwlockUnLock(t, l) PROVE NoOvertaking
  <2> DEFINE rd == IF rwCount[l] > 0 THEN Released(rdHeld, l, t) ELSE rdHeld
             wr == IF rwCount[l] < 0 THEN Released(wrHeld, l, t) ELSE wrHeld
  <2>1. rd \in [Rwlocks -> [Tasks -> Int]]
    BY <1>0, GhostType
  <2>2. \A k \in Rwlocks, u \in Tasks : rd[k][u] <= rdHeld[k][u]
    BY <1>0, ReleasedAt
  <2>3. rdHeld' = rd \/ OsRwlockPostOp(l, rd, wr)
    BY <1>3 DEF LOS_RwlockUnLock
  <2> HIDE DEF rd, wr
  <2>4. CASE rdHeld' = rd
    <3>1. \A k \in Rwlocks, u \in Tasks : rd[k][u] \in Int
      BY <2>1
    <3>2. \A k \in Rwlocks, u \in Tasks : ~(rdHeld'[k][u] > rdHeld[k][u])
      BY <2>2, <2>4, <3>1, <1>0
    <3> QED BY <3>2 DEF NoOvertaking
  <2> QED BY <2>1, <2>2, <2>3, <2>4, <1>0, PostOvertakes
<1> QED BY <1>1, <1>2, <1>3 DEF Next, LOS_RwlockInit, LOS_RwlockDestroy, LOS_RwlockRdLock,
        LOS_RwlockTryRdLock, LOS_RwlockWrLock, LOS_RwlockTryWrLock, OsRwlockWrPendOp,
        RwlockPendReturn, RwlockTimeout, LOS_TaskDelete, Unlink, HPFSchedParamModify, lockVars

\* A reader that gets the lock while a task waits to write has a higher priority than the
\* first such writer, under the same policy, whether it takes the lock or an unlock wakes it: the order of the
\* wait lists and the changes of priority they do not follow make no exception.
THEOREM ReadersKeepOrder == Spec => NoReaderOvertakesWriter
BY IInvHolds, NextOvertakes, PTL DEF Spec, NoReaderOvertakesWriter

-----------------------------------------------------------------------------
(***************************************************************************)
(* Sums over the tasks.  Total is a fold over a set; what it computes is   *)
(* shown by induction over the subsets of the set of tasks.                *)
(***************************************************************************)
\* The element that a fold takes from a nonempty set.
Chosen(s) == CHOOSE x \in s : TRUE

\* Induction over the subsets of a finite set, taking away the element a fold takes.
LEMMA SubsetInduction ==
    ASSUME NEW S, IsFiniteSet(S), NEW P, {} \in P,
           \A s \in SUBSET S : s # {} /\ s \ {Chosen(s)} \in P => s \in P
    PROVE  \A s \in SUBSET S : s \in P
<1> SUFFICES ASSUME NEW z \in SUBSET S, z \notin P PROVE FALSE
  OBVIOUS
<1> DEFINE T == {n \in Nat : \E s \in SUBSET S : s \notin P /\ Cardinality(s) = n}
<1>1. \A s \in SUBSET S : IsFiniteSet(s) /\ Cardinality(s) \in Nat
  BY FS_Subset, FS_CardinalityType
<1>2. T \in SUBSET Nat /\ T # {}
  BY <1>1
<1>3. PICK n \in T : \A m \in T : n <= m
  BY <1>2, NatMin
<1>4. PICK s \in SUBSET S : s \notin P /\ Cardinality(s) = n
  BY <1>3
<1>5. s # {} /\ Chosen(s) \in s
  BY <1>4 DEF Chosen
<1>6. s \ {Chosen(s)} \in SUBSET S /\ Cardinality(s \ {Chosen(s)}) = n - 1
  BY <1>1, <1>4, <1>5, FS_RemoveElement
<1>7. s \ {Chosen(s)} \notin P
  BY <1>4, <1>5
<1>8. n - 1 \in T /\ n \in Nat
  BY <1>1, <1>6, <1>7
<1> QED BY <1>3, <1>8

\* What MapThenSumSet computes with, as a function of the subsets of S.
IsSum(g, f, S) ==
    /\ g \in [SUBSET S -> Int]
    /\ \A s \in SUBSET S : g[s] = IF s = {} THEN 0 ELSE f[Chosen(s)] + g[s \ {Chosen(s)}]

LEMMA SumExists ==
    ASSUME NEW S, IsFiniteSet(S), NEW f \in [S -> Int]
    PROVE  \E g : IsSum(g, f, S)
<1> DEFINE Step(g, s) == IF s = {} THEN 0 ELSE f[Chosen(s)] + g[s \ {Chosen(s)}]
           Upto(n) == \E g \in [SUBSET S -> Int] :
                         \A s \in SUBSET S : Cardinality(s) <= n => g[s] = Step(g, s)
           T == {n \in Nat : ~Upto(n)}
<1>1. \A s \in SUBSET S : IsFiniteSet(s) /\ Cardinality(s) \in Nat /\ Cardinality(s) <= Cardinality(S)
  BY FS_Subset, FS_CardinalityType
<1>2. ASSUME NEW s \in SUBSET S, s # {}
      PROVE  /\ Chosen(s) \in S /\ s \ {Chosen(s)} \in SUBSET S /\ f[Chosen(s)] \in Int
             /\ Cardinality(s \ {Chosen(s)}) = Cardinality(s) - 1
  <2>1. Chosen(s) \in s
    BY <1>2 DEF Chosen
  <2> QED BY <2>1, <1>1, FS_RemoveElement
<1>3. Upto(0)
  <2>0. [s \in SUBSET S |-> 0] \in [SUBSET S -> Int]
    OBVIOUS
  <2>1. PICK g \in [SUBSET S -> Int] : g = [s \in SUBSET S |-> 0]
    BY <2>0
  <2>2. ASSUME NEW s \in SUBSET S, Cardinality(s) <= 0 PROVE g[s] = Step(g, s)
    <3>1. s = {}
      BY <2>2, <1>1, FS_EmptySet
    <3> QED BY <3>1, <2>1
  <2> QED BY <2>2
<1>4. ASSUME NEW n \in Nat, Upto(n) PROVE Upto(n + 1)
  <2>1. PICK g \in [SUBSET S -> Int] :
            \A s \in SUBSET S : Cardinality(s) <= n => g[s] = Step(g, s)
    BY <1>4
  <2>2. ASSUME NEW s \in SUBSET S PROVE Step(g, s) \in Int
    <3>1. CASE s = {}
      BY <3>1
    <3>2. CASE s # {}
      <4>1. f[Chosen(s)] \in Int /\ g[s \ {Chosen(s)}] \in Int
        BY <3>2, <1>2
      <4> QED BY <4>1
    <3> QED BY <3>1, <3>2
  <2>3. PICK k \in [SUBSET S -> Int] : \A s \in SUBSET S : k[s] = Step(g, s)
    <3>1. [s \in SUBSET S |-> Step(g, s)] \in [SUBSET S -> Int]
      BY <2>2
    <3> QED BY <3>1
  <2>4. ASSUME NEW s \in SUBSET S, Cardinality(s) <= n + 1 PROVE k[s] = Step(k, s)
    <3>1. CASE s = {}
      BY <3>1, <2>3
    <3>2. CASE s # {}
      <4>1. s \ {Chosen(s)} \in SUBSET S /\ Cardinality(s \ {Chosen(s)}) <= n
        BY <3>2, <2>4, <1>1, <1>2
      <4>2. k[s \ {Chosen(s)}] = g[s \ {Chosen(s)}]
        BY <4>1, <2>1, <2>3
      <4> QED BY <4>2, <3>2, <2>3
    <3> QED BY <3>1, <3>2
  <2> QED BY <2>4
<1> HIDE DEF Upto
<1>5. T = {}
  <2>1. SUFFICES ASSUME T # {} PROVE FALSE
    OBVIOUS
  <2>2. PICK n \in T : \A m \in T : n <= m
    BY <2>1, NatMin
  <2>3. n # 0 /\ n \in Nat /\ ~Upto(n)
    BY <2>2, <1>3
  <2>4. n - 1 \in Nat /\ Upto(n - 1)
    BY <2>2, <2>3
  <2>5. (n - 1) + 1 = n
    BY <2>3
  <2>6. Upto((n - 1) + 1)
    BY <2>4, <1>4
  <2> QED BY <2>3, <2>5, <2>6
<1>6. Upto(Cardinality(S))
  BY <1>5, FS_CardinalityType
<1> QED BY <1>1, <1>6 DEF Upto, IsSum

LEMMA TasksFinite == IsFiniteSet(Tasks)
BY RwlockAssumption

\* Total is the value at Tasks of such a function.
LEMMA SumIs ==
    ASSUME NEW f \in [Tasks -> Int]
    PROVE  \E g : IsSum(g, f, Tasks) /\ Total(f) = g[Tasks]
<1> DEFINE F(g) == [s \in SUBSET Tasks |-> IF s = {} THEN 0 ELSE f[Chosen(s)] + g[s \ {Chosen(s)}]]
<1>1. Total(f) = (CHOOSE g : g = F(g))[Tasks]
  BY Zenon DEF Total, MapThenSumSet, MapThenFoldSet, Chosen
<1>2. \E g : g = F(g)
  <2>1. PICK g : IsSum(g, f, Tasks)
    BY TasksFinite, SumExists
  <2>2. g = [s \in SUBSET Tasks |-> g[s]]
    BY <2>1 DEF IsSum
  <2>3. g = F(g)
    BY <2>1, <2>2 DEF IsSum
  <2> QED BY <2>3
<1>3. PICK g : g = F(g) /\ Total(f) = g[Tasks]
  BY <1>1, <1>2
<1>4. \A s \in SUBSET Tasks : g[s] = IF s = {} THEN 0 ELSE f[Chosen(s)] + g[s \ {Chosen(s)}]
  BY <1>3
<1>5. \A s \in SUBSET Tasks : g[s] \in Int
  <2> DEFINE P == {s \in SUBSET Tasks : g[s] \in Int}
  <2>1. {} \in P
    <3>1. {} \in SUBSET Tasks
      OBVIOUS
    <3>2. g[{}] = 0
      BY <3>1, <1>4
    <3> QED BY <3>1, <3>2
  <2>2. ASSUME NEW s \in SUBSET Tasks, s # {}, s \ {Chosen(s)} \in P PROVE s \in P
    <3>1. Chosen(s) \in Tasks
      BY <2>2 DEF Chosen
    <3>2. f[Chosen(s)] \in Int /\ g[s \ {Chosen(s)}] \in Int
      BY <3>1, <2>2
    <3>3. g[s] = f[Chosen(s)] + g[s \ {Chosen(s)}]
      BY <2>2, <1>4
    <3> QED BY <3>2, <3>3
  <2> HIDE DEF P
  <2>3. \A s \in SUBSET Tasks : s \in P
    BY <2>1, <2>2, TasksFinite, SubsetInduction
  <2> QED BY <2>3 DEF P
<1>6. g = [s \in SUBSET Tasks |-> g[s]]
  BY <1>3
<1>7. g \in [SUBSET Tasks -> Int]
  BY <1>5, <1>6
<1> QED BY <1>3, <1>4, <1>7 DEF IsSum

\* One more for each member of A adds the size of A to the sum.
LEMMA SumPlus ==
    ASSUME NEW f \in [Tasks -> Int], NEW h \in [Tasks -> Int], NEW A \in SUBSET Tasks,
           \A x \in Tasks : h[x] = f[x] + IF x \in A THEN 1 ELSE 0
    PROVE  Total(h) = Total(f) + Cardinality(A)
<1>1. PICK g : IsSum(g, f, Tasks) /\ Total(f) = g[Tasks]
  BY SumIs
<1>2. PICK k : IsSum(k, h, Tasks) /\ Total(h) = k[Tasks]
  BY SumIs
<1> DEFINE P == {s \in SUBSET Tasks : k[s] = g[s] + Cardinality(s \cap A)}
<1>3. {} \in P
  <2>1. {} \cap A = {} /\ k[{}] = 0 /\ g[{}] = 0
    BY <1>1, <1>2 DEF IsSum
  <2> QED BY <2>1, FS_EmptySet
<1>4. ASSUME NEW s \in SUBSET Tasks, s # {}, s \ {Chosen(s)} \in P PROVE s \in P
  <2>1. PICK x \in s : x = Chosen(s)
    BY <1>4 DEF Chosen
  <2>2. /\ k[s] = h[x] + k[s \ {x}] /\ g[s] = f[x] + g[s \ {x}]
        /\ k[s \ {x}] \in Int /\ g[s \ {x}] \in Int /\ f[x] \in Int
        /\ h[x] = f[x] + IF x \in A THEN 1 ELSE 0
    BY <1>1, <1>2, <1>4, <2>1 DEF IsSum
  <2>3. k[s \ {x}] = g[s \ {x}] + Cardinality((s \ {x}) \cap A)
    BY <1>4, <2>1
  <2>4. IsFiniteSet(s \cap A) /\ Cardinality(s \cap A) \in Nat
    BY TasksFinite, FS_Subset, FS_CardinalityType
  <2>5. (s \ {x}) \cap A = (s \cap A) \ {x}
    OBVIOUS
  <2>6. Cardinality((s \cap A) \ {x}) = IF x \in A THEN Cardinality(s \cap A) - 1
                                        ELSE Cardinality(s \cap A)
    <3>1. x \in s \cap A <=> x \in A
      OBVIOUS
    <3> QED BY <3>1, <2>4, FS_RemoveElement
  <2>7. k[s] = g[s] + Cardinality(s \cap A)
    <3>1. k[s \ {x}] = g[s \ {x}] + Cardinality((s \cap A) \ {x})
      BY <2>3, <2>5
    <3>2. CASE x \in A
      <4>1. k[s \ {x}] = g[s \ {x}] + (Cardinality(s \cap A) - 1)
        BY <3>1, <3>2, <2>6
      <4> QED BY <4>1, <3>2, <2>2, <2>4
    <3>3. CASE x \notin A
      <4>1. k[s \ {x}] = g[s \ {x}] + Cardinality(s \cap A)
        BY <3>1, <3>3, <2>6
      <4> QED BY <4>1, <3>3, <2>2, <2>4
    <3> QED BY <3>2, <3>3
  <2> QED BY <2>7
<1> HIDE DEF P
<1>5. Tasks \in P
  <2>1. \A s \in SUBSET Tasks : s \in P
    BY <1>3, <1>4, TasksFinite, SubsetInduction
  <2> QED BY <2>1
<1>6. Tasks \cap A = A
  OBVIOUS
<1> QED BY <1>1, <1>2, <1>5, <1>6 DEF P

\* The sum of naturals is a natural, at least each of them, and 0 only if all are 0.
LEMMA SumNat ==
    ASSUME NEW f \in [Tasks -> Int], \A x \in Tasks : f[x] >= 0
    PROVE  /\ Total(f) \in Nat
           /\ \A x \in Tasks : f[x] <= Total(f)
<1>1. PICK g : IsSum(g, f, Tasks) /\ Total(f) = g[Tasks]
  BY SumIs
<1> DEFINE P == {s \in SUBSET Tasks : g[s] >= 0 /\ \A x \in s : f[x] <= g[s]}
<1>2. {} \in P
  <2>1. {} \in SUBSET Tasks
    OBVIOUS
  <2>2. g[{}] = 0
    BY <1>1, <2>1 DEF IsSum
  <2> QED BY <2>1, <2>2
<1>3. ASSUME NEW s \in SUBSET Tasks, s # {}, s \ {Chosen(s)} \in P PROVE s \in P
  <2>1. PICK x \in s : x = Chosen(s)
    BY <1>3 DEF Chosen
  <2>2. /\ g[s] = f[x] + g[s \ {x}] /\ g[s \ {x}] \in Int /\ f[x] \in Int /\ f[x] >= 0
        /\ g[s] \in Int
    BY <1>1, <1>3, <2>1 DEF IsSum
  <2>3. g[s \ {x}] >= 0 /\ \A y \in s \ {x} : f[y] <= g[s \ {x}]
    BY <1>3, <2>1
  <2>4. g[s] >= 0
    BY <2>2, <2>3
  <2>5. ASSUME NEW y \in s PROVE f[y] <= g[s]
    <3>1. CASE y = x
      BY <3>1, <2>2, <2>3
    <3>2. CASE y # x
      <4>1. f[y] <= g[s \ {x}] /\ f[y] \in Int
        BY <3>2, <2>3
      <4> QED BY <4>1, <2>2
    <3> QED BY <3>1, <3>2
  <2> QED BY <2>4, <2>5
<1> HIDE DEF P
<1>4. Tasks \in P
  <2>1. \A s \in SUBSET Tasks : s \in P
    BY <1>2, <1>3, TasksFinite, SubsetInduction
  <2> QED BY <2>1
<1>5. g[Tasks] \in Int
  BY <1>1 DEF IsSum
<1> QED BY <1>1, <1>4, <1>5 DEF P

\* The sum of zeros is 0.
LEMMA SumZero ==
    ASSUME NEW f \in [Tasks -> Int], \A x \in Tasks : f[x] = 0
    PROVE  Total(f) = 0
<1>1. PICK g : IsSum(g, f, Tasks) /\ Total(f) = g[Tasks]
  BY SumIs
<1> DEFINE P == {s \in SUBSET Tasks : g[s] = 0}
<1>2. {} \in P
  BY <1>1 DEF IsSum
<1>3. ASSUME NEW s \in SUBSET Tasks, s # {}, s \ {Chosen(s)} \in P PROVE s \in P
  <2>1. PICK x \in s : x = Chosen(s)
    BY <1>3 DEF Chosen
  <2> QED BY <1>1, <1>3, <2>1 DEF IsSum
<1> HIDE DEF P
<1>4. Tasks \in P
  <2>1. \A s \in SUBSET Tasks : s \in P
    BY <1>2, <1>3, TasksFinite, SubsetInduction
  <2> QED BY <2>1
<1> QED BY <1>1, <1>4 DEF P
-----------------------------------------------------------------------------
(***************************************************************************)
(* Readers or one writer.  rwCount counts the grants of a batch of readers *)
(* only if no task is on a wait list twice, so the invariant also says who *)
(* is on which list.                                                       *)
(***************************************************************************)
Sides == {"READ", "WRITE"}
WaitList(l, side) == IF side = "READ" THEN readList[l] ELSE writeList[l]

\* A task on a wait list is pending, and is there once and on no other list.
Linked ==
    /\ \A l \in Rwlocks, x \in Sides :
          /\ IsInjective(WaitList(l, x))
          /\ \A t \in ToSet(WaitList(l, x)) : IsPending(t)
    /\ \A l \in Rwlocks, k \in Rwlocks, x \in Sides, y \in Sides, t \in Tasks :
          t \in ToSet(WaitList(l, x)) /\ t \in ToSet(WaitList(k, y)) => l = k /\ x = y

\* A lock that is not initialised is free.
DeadIsFree == \A l \in Rwlocks : ~magic[l] => rwCount[l] = 0

\* HoldersAgree for one lock, with counts that are never negative.
LockOK(cnt, owner, rd, wr) ==
    /\ rd \in [Tasks -> Int] /\ \A t \in Tasks : rd[t] >= 0
    /\ wr \in [Tasks -> Int] /\ \A t \in Tasks : wr[t] >= 0
    /\ cnt = Total(rd) - Total(wr)
    /\ Total(rd) = 0 \/ Total(wr) = 0
    /\ Total(wr) > 0 => owner \in Tasks /\ wr[owner] = Total(wr)

LocksOK == \A l \in Rwlocks : LockOK(rwCount[l], writeOwner[l], rdHeld[l], wrHeld[l])

HInv == /\ IInv
        /\ Linked
        /\ DeadIsFree
        /\ OnlyHolders => LocksOK

LEMMA LockFacts ==
    ASSUME NEW c \in Int, NEW o, NEW rd, NEW wr, LockOK(c, o, rd, wr)
    PROVE  /\ Total(rd) \in Nat /\ Total(wr) \in Nat
           /\ c >= 0 => Total(wr) = 0 /\ Total(rd) = c
           /\ c < 0 => Total(rd) = 0 /\ Total(wr) = -c /\ o \in Tasks /\ wr[o] = -c
           /\ c >= 0 => \A t \in Tasks : wr[t] = 0
           /\ c <= 0 => \A t \in Tasks : rd[t] = 0
<1>1. /\ Total(rd) \in Nat /\ \A t \in Tasks : rd[t] <= Total(rd)
      /\ Total(wr) \in Nat /\ \A t \in Tasks : wr[t] <= Total(wr)
  BY SumNat DEF LockOK
<1>2. \A t \in Tasks : rd[t] \in Int /\ wr[t] \in Int /\ rd[t] >= 0 /\ wr[t] >= 0
  BY DEF LockOK
<1>3. c = Total(rd) - Total(wr) /\ (Total(rd) = 0 \/ Total(wr) = 0)
      /\ (Total(wr) > 0 => o \in Tasks /\ wr[o] = Total(wr))
  BY DEF LockOK
<1>4. c >= 0 => Total(wr) = 0 /\ Total(rd) = c
  BY <1>1, <1>3
<1>5. c < 0 => Total(rd) = 0 /\ Total(wr) = -c /\ Total(wr) > 0
  BY <1>1, <1>3
<1>6. c >= 0 => \A t \in Tasks : wr[t] = 0
  BY <1>1, <1>2, <1>4
<1>7. c <= 0 => Total(rd) = 0
  BY <1>1, <1>3
<1>8. c <= 0 => \A t \in Tasks : rd[t] = 0
  BY <1>1, <1>2, <1>7
<1> QED BY <1>1, <1>3, <1>4, <1>5, <1>6, <1>8

\* Raised(f, h, A): h is f with one more for each member of A.
Raised(f, h, A) ==
    /\ h \in [Tasks -> Int]
    /\ \A x \in Tasks : h[x] = f[x] + IF x \in A THEN 1 ELSE 0

LEMMA RaisedTotal ==
    ASSUME NEW f \in [Tasks -> Int], NEW h, NEW A \in SUBSET Tasks, Raised(f, h, A)
    PROVE  Total(h) = Total(f) + Cardinality(A) /\ Cardinality(A) \in Nat
BY SumPlus, TasksFinite, FS_Subset, FS_CardinalityType, SMTT(40) DEF Raised

\* Readers are let in while nobody writes; the owner field does not matter.
LEMMA GrantRead ==
    ASSUME NEW c \in Int, c >= 0, NEW o, NEW p, NEW rd, NEW wr, LockOK(c, o, rd, wr),
           NEW A \in SUBSET Tasks, NEW h, Raised(rd, h, A)
    PROVE  LockOK(c + Cardinality(A), p, h, wr)
<1>1. Total(h) = Total(rd) + Cardinality(A) /\ Cardinality(A) \in Nat
  BY RaisedTotal DEF LockOK
<1>2. Total(wr) = 0 /\ Total(rd) = c
  BY LockFacts
<1>3. h \in [Tasks -> Int] /\ \A t \in Tasks : h[t] >= 0
  BY DEF Raised, LockOK
<1>4. wr \in [Tasks -> Int] /\ \A t \in Tasks : wr[t] >= 0
  BY DEF LockOK
<1> QED BY <1>1, <1>2, <1>3, <1>4 DEF LockOK

\* A writer takes a free lock, or the one that has it takes it again.
LEMMA GrantWrite ==
    ASSUME NEW c \in Int, NEW t \in Tasks, NEW o, c = 0 \/ (c < 0 /\ o = t),
           NEW rd, NEW wr, LockOK(c, o, rd, wr), NEW h, Raised(wr, h, {t})
    PROVE  LockOK(c - 1, t, rd, h)
<1>1. Total(h) = Total(wr) + 1
  <2>1. Cardinality({t}) = 1
    BY FS_Singleton
  <2> QED BY <2>1, RaisedTotal DEF LockOK
<1>2. Total(rd) = 0 /\ Total(wr) = -c
  BY LockFacts
<1>3. wr[t] = -c
  BY LockFacts
<1>4. h \in [Tasks -> Int] /\ h[t] = wr[t] + 1 /\ \A u \in Tasks : h[u] >= 0
  BY DEF Raised, LockOK
<1>5. rd \in [Tasks -> Int] /\ \A u \in Tasks : rd[u] >= 0
  BY DEF LockOK
<1> QED BY <1>1, <1>2, <1>3, <1>4, <1>5 DEF LockOK

LEMMA ReleaseRead ==
    ASSUME NEW c \in Int, c > 0, NEW t \in Tasks, NEW o, NEW p, NEW rd, NEW wr,
           LockOK(c, o, rd, wr), rd[t] > 0, NEW h \in [Tasks -> Int], Raised(h, rd, {t})
    PROVE  LockOK(c - 1, p, h, wr)
<1>1. Total(rd) = Total(h) + 1
  <2>1. Cardinality({t}) = 1
    BY FS_Singleton
  <2> QED BY <2>1, RaisedTotal
<1>2. Total(wr) = 0 /\ Total(rd) = c
  BY LockFacts
<1>3. \A u \in Tasks : h[u] >= 0
  <2>1. \A u \in Tasks : rd[u] \in Int /\ rd[u] >= 0 /\ h[u] \in Int
    BY DEF LockOK
  <2>2. rd[t] = h[t] + 1 /\ \A u \in Tasks : u # t => rd[u] = h[u] + 0
    BY DEF Raised
  <2>3. h[t] >= 0
    BY <2>1, <2>2
  <2>4. ASSUME NEW u \in Tasks, u # t PROVE h[u] >= 0
    BY <2>1, <2>2, <2>4
  <2> QED BY <2>3, <2>4
<1>4. wr \in [Tasks -> Int] /\ \A u \in Tasks : wr[u] >= 0
  BY DEF LockOK
<1>5. Total(h) = c - 1
  <2>1. \A u \in Tasks : h[u] <= Total(h)
    BY <1>3, SumNat
  <2>2. Total(h) \in Nat
    BY <1>3, SumNat
  <2> QED BY <2>2, <1>1, <1>2
<1> QED BY <1>2, <1>3, <1>4, <1>5 DEF LockOK

\* The owner is kept while it still has the lock.
LEMMA ReleaseWrite ==
    ASSUME NEW c \in Int, c < 0, NEW t \in Tasks, NEW p, c = -1 \/ p = t, NEW rd, NEW wr,
           LockOK(c, t, rd, wr), NEW h \in [Tasks -> Int], Raised(h, wr, {t})
    PROVE  LockOK(c + 1, p, rd, h)
<1>1. Total(wr) = Total(h) + 1
  <2>1. Cardinality({t}) = 1
    BY FS_Singleton
  <2> QED BY <2>1, RaisedTotal
<1>2. Total(rd) = 0 /\ Total(wr) = -c /\ wr[t] = -c
  BY LockFacts
<1>3. h[t] = wr[t] - 1 /\ \A u \in Tasks : h[u] >= 0
  <2>1. \A u \in Tasks : wr[u] \in Int /\ wr[u] >= 0 /\ h[u] \in Int
    BY DEF LockOK
  <2>2. wr[t] = h[t] + 1 /\ \A u \in Tasks : u # t => wr[u] = h[u] + 0
    BY DEF Raised
  <2>3. h[t] >= 0 /\ h[t] = wr[t] - 1
    BY <2>1, <2>2, <1>2
  <2>4. ASSUME NEW u \in Tasks, u # t PROVE h[u] >= 0
    BY <2>1, <2>2, <2>4
  <2> QED BY <2>3, <2>4
<1>4. rd \in [Tasks -> Int] /\ \A u \in Tasks : rd[u] >= 0
  BY DEF LockOK
<1>5. Total(h) = -c - 1
  <2>1. Total(h) \in Nat
    BY <1>3, SumNat
  <2> QED BY <2>1, <1>1, <1>2
<1> QED BY <1>2, <1>3, <1>4, <1>5 DEF LockOK

\* The first n of a list without duplicates, and the rest of it.
BatchOf(S, s, n, A) ==
    /\ A \in SUBSET S /\ Cardinality(A) = n
    /\ IsInjective(SubSeq(s, n + 1, Len(s)))
    /\ ToSet(SubSeq(s, n + 1, Len(s))) \subseteq ToSet(s) \ A

LEMMA Batch ==
    ASSUME NEW S, NEW s \in Seq(S), IsInjective(s), NEW n \in 1..Len(s), NEW A,
           A = {s[i] : i \in 1..n}
    PROVE  BatchOf(S, s, n, A)
<1>1. Len(s) \in Nat /\ n \in Nat /\ n <= Len(s) /\ DOMAIN s = 1..Len(s)
      /\ \A i \in 1..Len(s) : s[i] \in S
  OBVIOUS
<1>2. \A i, j \in 1..Len(s) : s[i] = s[j] => i = j
  BY <1>1 DEF IsInjective
<1>3. A \in SUBSET S
  BY <1>1
<1>4. Cardinality(A) = n
  <2>1. PICK f : f = [i \in 1..n |-> s[i]]
    OBVIOUS
  <2>2. f \in Bijection(1..n, A)
    <3>1. f \in [1..n -> A]
      BY <2>1
    <3>2. \A a, b \in 1..n : f[a] = f[b] => a = b
      BY <2>1, <1>1, <1>2
    <3>3. \A y \in A : \E x \in 1..n : f[x] = y
      BY <2>1
    <3> QED BY <3>1, <3>2, <3>3 DEF Bijection, Injection, Surjection, IsInjective
  <2>3. ExistsBijection(1..n, A)
    BY <2>2 DEF ExistsBijection
  <2>4. IsFiniteSet(1..n) /\ Cardinality(1..n) = n
    BY <1>1, FS_Interval
  <2> QED BY <2>3, <2>4, FS_Bijection
<1>5. PICK r : r = SubSeq(s, n + 1, Len(s))
  OBVIOUS
<1>6. /\ r \in Seq(S) /\ Len(r) = Len(s) - n
      /\ \A i \in 1..Len(s) - n : r[i] = s[i + n] /\ i + n \in 1..Len(s)
  <2>1. r = [i \in 1..(Len(s) - (n + 1) + 1) |-> s[i + (n + 1) - 1]]
    BY <1>5 DEF SubSeq
  <2>2. Len(s) - (n + 1) + 1 = Len(s) - n /\ Len(s) - n \in Nat
    BY <1>1
  <2>3. ASSUME NEW i \in 1..Len(s) - n PROVE i + (n + 1) - 1 = i + n /\ i + n \in 1..Len(s)
    BY <1>1
  <2>4. r = [i \in 1..Len(s) - n |-> s[i + n]]
    BY <2>1, <2>2, <2>3
  <2>5. r \in [1..Len(s) - n -> S]
    BY <2>3, <2>4, <1>1
  <2>6. r \in Seq(S) /\ Len(r) = Len(s) - n
    BY <2>2, <2>5
  <2> QED BY <2>3, <2>4, <2>6
<1>7. IsInjective(r)
  <2>1. ASSUME NEW i \in 1..Len(s) - n, NEW j \in 1..Len(s) - n, r[i] = r[j] PROVE i = j
    <3>1. s[i + n] = s[j + n] /\ i + n \in 1..Len(s) /\ j + n \in 1..Len(s)
      BY <1>6, <2>1
    <3>2. i + n = j + n
      BY <1>2, <3>1
    <3> QED BY <1>1, <3>2
  <2> QED BY <1>6, <2>1 DEF IsInjective
<1>8. ASSUME NEW e \in ToSet(r) PROVE e \in ToSet(s) /\ e \notin A
  <2>1. PICK i \in 1..Len(s) - n : e = r[i]
    BY <1>6, <1>8, ToSetIn
  <2>2. e = s[i + n] /\ i + n \in 1..Len(s)
    BY <1>6, <2>1
  <2>3. e \in ToSet(s)
    BY <2>2, ToSetIn
  <2>4. ASSUME NEW j \in 1..n, e = s[j] PROVE FALSE
    <3>1. j \in 1..Len(s)
      BY <1>1
    <3>2. j = i + n
      BY <1>2, <2>2, <2>4, <3>1
    <3> QED BY <1>1, <3>2
  <2> QED BY <2>3, <2>4
<1> QED BY <1>3, <1>4, <1>5, <1>7, <1>8 DEF BatchOf

LEMMA WaitListType ==
    ASSUME TypeOK, NEW l \in Rwlocks, NEW x \in Sides
    PROVE  WaitList(l, x) \in Seq(Tasks) /\ ToSet(WaitList(l, x)) \subseteq Tasks
<1>1. WaitList(l, x) \in Seq(Tasks)
  BY DEF TypeOK, WaitList
<1> QED BY <1>1, ToSetIn

\* The tasks of R leave their lists, and nobody else stops pending.
LEMMA LinkedLeave ==
    ASSUME TypeOK, Linked, NEW R,
           \A l \in Rwlocks, x \in Sides :
               /\ IsInjective(WaitList(l, x)')
               /\ ToSet(WaitList(l, x)') \subseteq ToSet(WaitList(l, x)) \ R,
           \A t \in Tasks : IsPending(t) /\ t \notin R => IsPending(t)'
    PROVE  Linked'
<1>1. ASSUME NEW l \in Rwlocks, NEW x \in Sides, NEW t \in ToSet(WaitList(l, x)')
      PROVE  t \in ToSet(WaitList(l, x)) /\ IsPending(t)'
  <2>1. t \in ToSet(WaitList(l, x)) /\ t \notin R
    BY <1>1
  <2>2. t \in Tasks /\ IsPending(t)
    BY <2>1, WaitListType DEF Linked
  <2> QED BY <2>1, <2>2
<1>2. \A l \in Rwlocks, k \in Rwlocks, x \in Sides, y \in Sides, t \in Tasks :
          t \in ToSet(WaitList(l, x)') /\ t \in ToSet(WaitList(k, y)') => l = k /\ x = y
  BY <1>1 DEF Linked
<1> QED BY <1>1, <1>2 DEF Linked

\* A running task starts to wait on one list.
LEMMA LinkedJoin ==
    ASSUME TypeOK, Linked, NEW t \in Tasks, Running(t), NEW timeout,
           taskStatus' = HPFWait(t, timeout),
           NEW l \in Rwlocks, NEW x \in Sides, NEW w \in Seq(Tasks),
           WaitList(l, x)' = w, ToSet(w) = ToSet(WaitList(l, x)) \cup {t},
           t \notin ToSet(WaitList(l, x)) => IsInjective(w),
           \A k \in Rwlocks, y \in Sides : k # l \/ y # x => WaitList(k, y)' = WaitList(k, y)
    PROVE  Linked'
<1>1. \A k \in Rwlocks, y \in Sides : t \notin ToSet(WaitList(k, y))
  BY DEF Linked, IsPending, Running
<1>2. /\ IsPending(t)' /\ \A u \in Tasks : u # t => (IsPending(u)' <=> IsPending(u))
  BY DEF HPFWait, IsPending, TypeOK
<1>3. \A k \in Rwlocks, y \in Sides : IsInjective(WaitList(k, y)')
  BY <1>1 DEF Linked
<1>4. ASSUME NEW k \in Rwlocks, NEW y \in Sides, NEW u \in ToSet(WaitList(k, y)')
      PROVE  /\ u = t => k = l /\ y = x
             /\ u # t => u \in ToSet(WaitList(k, y))
             /\ u \in Tasks
  <2>1. CASE k = l /\ y = x
    <3>1. u \in ToSet(WaitList(l, x)) \cup {t}
      BY <2>1, <1>4
    <3> QED BY <3>1, <2>1, WaitListType
  <2>2. CASE k # l \/ y # x
    <3>1. u \in ToSet(WaitList(k, y))
      BY <2>2, <1>4
    <3> QED BY <3>1, <1>1, WaitListType
  <2> QED BY <2>1, <2>2
<1>5. \A k \in Rwlocks, y \in Sides : \A u \in ToSet(WaitList(k, y)') : IsPending(u)'
  BY <1>2, <1>4 DEF Linked
<1>6. \A a \in Rwlocks, b \in Rwlocks, c \in Sides, d \in Sides, u \in Tasks :
          u \in ToSet(WaitList(a, c)') /\ u \in ToSet(WaitList(b, d)') => a = b /\ c = d
  BY <1>4 DEF Linked
<1> QED BY <1>3, <1>5, <1>6 DEF Linked

\* Where a waiter is linked, its list grows by it and stays free of duplicates.
LEMMA LinkFacts ==
    ASSUME NEW t \in Tasks, NEW s \in Seq(Tasks), IsInjective(s), priority \in [Tasks -> Nat]
    PROVE  LET w == InsertAt(s, OsSchedLockPendFindPos(t, s), t)
           IN  /\ w \in Seq(Tasks) /\ ToSet(w) = ToSet(s) \cup {t}
               /\ t \notin ToSet(s) => IsInjective(w)
<1>1. OneProcess \in [Tasks -> Nat]
  BY DEF OneProcess
<1>2. PICK p \in 1..Len(s) + 1 : p = OsSchedLockPendFindPos(t, s)
  BY <1>1, FindPosInRange, Zenon DEF OsSchedLockPendFindPos
<1> QED BY <1>2, InsertList

LEMMA PostLinked ==
    ASSUME HInv, NEW l \in Rwlocks, NEW rd, NEW wr, OsRwlockPostOp(l, rd, wr)
    PROVE  Linked'
<1>0. TypeOK /\ Linked
  BY DEF HInv, IInv
<1>1. readList[l] \in Seq(Tasks) /\ writeList[l] \in Seq(Tasks)
      /\ IsInjective(readList[l]) /\ IsInjective(writeList[l])
  BY <1>0 DEF TypeOK, Linked, WaitList, Sides
<1>2. CASE UNCHANGED <<taskStatus, readList, writeList>>
  BY <1>0, <1>2 DEF Linked, WaitList, IsPending
<1>3. CASE /\ writeList[l] # <<>>
           /\ taskStatus' = HPFWake(Head(writeList[l]))
           /\ writeList' = [writeList EXCEPT ![l] = Tail(@)]
           /\ UNCHANGED readList
  <2>1. PICK w \in Tasks : w = Head(writeList[l])
    BY <1>1, <1>3, TailList
  <2>2. /\ IsInjective(Tail(writeList[l])) /\ w \notin ToSet(Tail(writeList[l]))
        /\ ToSet(writeList[l]) = ToSet(Tail(writeList[l])) \cup {w}
    BY <2>1, <1>1, <1>3, TailList
  <2>3. writeList'[l] = Tail(writeList[l])
        /\ \A k \in Rwlocks : k # l => writeList'[k] = writeList[k]
    BY <1>0, <1>3 DEF TypeOK
  <2>4. ASSUME NEW k \in Rwlocks, NEW x \in Sides
        PROVE  IsInjective(WaitList(k, x)') /\ ToSet(WaitList(k, x)') \subseteq ToSet(WaitList(k, x)) \ {w}
    <3>1. CASE k = l /\ x = "WRITE"
      <4>1. WaitList(k, x) = writeList[l] /\ WaitList(k, x)' = Tail(writeList[l])
        BY <2>3, <3>1 DEF WaitList
      <4> QED BY <4>1, <2>2
    <3>2. CASE k # l \/ x # "WRITE"
      <4>1. WaitList(k, x)' = WaitList(k, x)
        BY <3>2, <2>3, <1>3 DEF WaitList, Sides
      <4>2. w \notin ToSet(WaitList(k, x))
        <5>1. w \in ToSet(WaitList(l, "WRITE"))
          BY <2>2 DEF WaitList
        <5> QED BY <5>1, <3>2, <1>0 DEF Linked, Sides
      <4> QED BY <4>1, <4>2, <1>0 DEF Linked
    <3> QED BY <3>1, <3>2
  <2>5. \A u \in Tasks : IsPending(u) /\ u \notin {w} => IsPending(u)'
    BY <2>1, <1>0, <1>3 DEF HPFWake, IsPending, TypeOK
  <2> QED BY <2>4, <2>5, <1>0, LinkedLeave
<1>4. CASE \E n \in 1..Len(readList[l]) :
              LET woken == {readList[l][i] : i \in 1..n} IN
              /\ taskStatus' = [t \in Tasks |-> IF t \in woken THEN "WOKEN" ELSE taskStatus[t]]
              /\ readList' = [readList EXCEPT ![l] = SubSeq(@, n + 1, Len(@))]
              /\ writeList' = writeList
  <2>0. PICK n \in 1..Len(readList[l]) :
              LET woken == {readList[l][i] : i \in 1..n} IN
              /\ taskStatus' = [t \in Tasks |-> IF t \in woken THEN "WOKEN" ELSE taskStatus[t]]
              /\ readList' = [readList EXCEPT ![l] = SubSeq(@, n + 1, Len(@))]
              /\ writeList' = writeList
    BY <1>4
  <2>w. PICK A : A = {readList[l][i] : i \in 1..n}
    OBVIOUS
  <2>1. /\ taskStatus' = [t \in Tasks |-> IF t \in A THEN "WOKEN" ELSE taskStatus[t]]
        /\ readList' = [readList EXCEPT ![l] = SubSeq(readList[l], n + 1, Len(readList[l]))]
        /\ writeList' = writeList
    BY <2>0, <2>w
  <2>2. /\ IsInjective(SubSeq(readList[l], n + 1, Len(readList[l])))
        /\ ToSet(SubSeq(readList[l], n + 1, Len(readList[l]))) \subseteq ToSet(readList[l]) \ A
    <3>1. BatchOf(Tasks, readList[l], n, A)
      BY <2>w, <1>1, Batch
    <3> QED BY <3>1 DEF BatchOf
  <2>3. readList'[l] = SubSeq(readList[l], n + 1, Len(readList[l]))
        /\ \A k \in Rwlocks : k # l => readList'[k] = readList[k]
    BY <2>1, <1>0 DEF TypeOK
  <2>4. ASSUME NEW k \in Rwlocks, NEW x \in Sides
        PROVE  IsInjective(WaitList(k, x)') /\ ToSet(WaitList(k, x)') \subseteq ToSet(WaitList(k, x)) \ A
    <3>1. CASE k = l /\ x = "READ"
      <4>1. WaitList(k, x) = readList[l]
            /\ WaitList(k, x)' = SubSeq(readList[l], n + 1, Len(readList[l]))
        BY <2>3, <3>1 DEF WaitList
      <4> QED BY <4>1, <2>2
    <3>2. CASE k # l \/ x # "READ"
      <4>1. WaitList(k, x)' = WaitList(k, x)
        BY <3>2, <2>1, <2>3 DEF WaitList, Sides
      <4>2. ASSUME NEW e \in A PROVE e \notin ToSet(WaitList(k, x))
        <5>1. PICK i \in 1..n : e = readList[l][i]
          BY <2>w
        <5>2. e \in Tasks /\ e \in ToSet(WaitList(l, "READ"))
          <6>1. i \in 1..Len(readList[l])
            BY <1>1
          <6> QED BY <5>1, <6>1, <1>1, ToSetIn DEF WaitList
        <5> QED BY <5>2, <3>2, <1>0 DEF Linked, Sides
      <4> QED BY <4>1, <4>2, <1>0 DEF Linked
    <3> QED BY <3>1, <3>2
  <2>5. \A u \in Tasks : IsPending(u) /\ u \notin A => IsPending(u)'
    BY <2>1 DEF IsPending
  <2> QED BY <2>4, <2>5, <1>0, LinkedLeave
<1>5. \/ UNCHANGED <<taskStatus, readList, writeList>>
      \/ /\ writeList[l] # <<>>
         /\ taskStatus' = HPFWake(Head(writeList[l]))
         /\ writeList' = [writeList EXCEPT ![l] = Tail(@)]
         /\ UNCHANGED readList
      \/ \E n \in 1..Len(readList[l]) :
            LET woken == {readList[l][i] : i \in 1..n} IN
            /\ taskStatus' = [t \in Tasks |-> IF t \in woken THEN "WOKEN" ELSE taskStatus[t]]
            /\ readList' = [readList EXCEPT ![l] = SubSeq(@, n + 1, Len(@))]
            /\ writeList' = writeList
  BY Zenon DEF OsRwlockPostOp, GrantsWriter
<1> QED BY <1>2, <1>3, <1>4, <1>5

LEMMA NextLinked == HInv /\ [Next]_vars => Linked' /\ DeadIsFree'
<1> SUFFICES ASSUME HInv, [Next]_vars PROVE Linked' /\ DeadIsFree'
  OBVIOUS
<1>0. TypeOK /\ Linked /\ DeadIsFree /\ NobodyWaitsOnFreeLock
  BY DEF HInv, IInv
<1>1. ASSUME UNCHANGED <<taskStatus, readList, writeList>> PROVE Linked'
  BY <1>0, <1>1 DEF Linked, WaitList, IsPending
<1>2. ASSUME UNCHANGED magic, \A l \in Rwlocks : magic[l] \/ rwCount'[l] = rwCount[l]
      PROVE  DeadIsFree'
  BY <1>0, <1>2 DEF DeadIsFree
<1>3. ASSUME NEW t \in Tasks, NEW l \in Rwlocks, LOS_RwlockInit(t, l) \/ LOS_RwlockDestroy(t, l)
      PROVE  Linked' /\ DeadIsFree'
  <2>1. rwCount[l] = 0 /\ UNCHANGED taskStatus
    BY <1>3, <1>0 DEF LOS_RwlockInit, LOS_RwlockDestroy, DeadIsFree
  <2>2. readList[l] = <<>> /\ writeList[l] = <<>>
    BY <2>1, <1>0 DEF NobodyWaitsOnFreeLock
  <2>3. readList' = readList /\ writeList' = writeList
    BY <2>2, <1>3, <1>0 DEF LOS_RwlockInit, LOS_RwlockDestroy, TypeOK
  <2>4. rwCount' = rwCount /\ \A k \in Rwlocks : k # l => magic'[k] = magic[k]
    BY <2>1, <1>3, <1>0 DEF LOS_RwlockInit, LOS_RwlockDestroy, TypeOK
  <2> QED BY <2>1, <2>3, <2>4, <1>0, <1>1 DEF DeadIsFree
<1>4. ASSUME NEW t \in Tasks, NEW l \in Rwlocks, NEW timeout, OsRwlockRdPendOp(t, l, timeout),
             Running(t), magic[l]
      PROVE  Linked' /\ DeadIsFree'
  <2>1. UNCHANGED magic /\ \A k \in Rwlocks : k # l => rwCount'[k] = rwCount[k]
    BY <1>4, <1>0 DEF OsRwlockRdPendOp, TypeOK
  <2>2. CASE UNCHANGED <<taskStatus, readList, writeList>>
    BY <2>1, <2>2, <1>1, <1>2, <1>4
  <2>3. CASE /\ readList' = [readList EXCEPT ![l] = InsertAt(@, OsSchedLockPendFindPos(t, @), t)]
             /\ taskStatus' = HPFWait(t, timeout)
             /\ UNCHANGED writeList
    <3>1. PICK w : w = InsertAt(readList[l], OsSchedLockPendFindPos(t, readList[l]), t)
      OBVIOUS
    <3>2. readList[l] \in Seq(Tasks) /\ IsInjective(readList[l]) /\ priority \in [Tasks -> Nat]
      BY <1>0 DEF TypeOK, Linked, WaitList, Sides
    <3>3. /\ w \in Seq(Tasks) /\ ToSet(w) = ToSet(readList[l]) \cup {t}
          /\ t \notin ToSet(readList[l]) => IsInjective(w)
      BY <3>1, <3>2, LinkFacts
    <3>4. readList'[l] = w /\ \A k \in Rwlocks : k # l => readList'[k] = readList[k]
      BY <2>3, <3>1, <1>0 DEF TypeOK
    <3>5. WaitList(l, "READ")' = w /\ WaitList(l, "READ") = readList[l]
          /\ \A k \in Rwlocks, y \in Sides : k # l \/ y # "READ" => WaitList(k, y)' = WaitList(k, y)
      BY <2>3, <3>4 DEF WaitList, Sides
    <3>6. Linked'
      BY <2>3, <3>3, <3>5, <1>0, <1>4, LinkedJoin DEF Sides
    <3> QED BY <3>6, <2>1, <1>2, <1>4
  <2> QED BY <2>2, <2>3, <1>4 DEF OsRwlockRdPendOp
<1>5. ASSUME NEW t \in Tasks, NEW l \in Rwlocks, NEW timeout, OsRwlockWrPendOp(t, l, timeout),
             Running(t), magic[l]
      PROVE  Linked' /\ DeadIsFree'
  <2>1. UNCHANGED magic /\ \A k \in Rwlocks : k # l => rwCount'[k] = rwCount[k]
    BY <1>5, <1>0 DEF OsRwlockWrPendOp, TypeOK
  <2>2. CASE UNCHANGED <<taskStatus, readList, writeList>>
    BY <2>1, <2>2, <1>1, <1>2, <1>5
  <2>3. CASE /\ writeList' = [writeList EXCEPT ![l] = InsertAt(@, OsSchedLockPendFindPos(t, @), t)]
             /\ taskStatus' = HPFWait(t, timeout)
             /\ UNCHANGED readList
    <3>1. PICK w : w = InsertAt(writeList[l], OsSchedLockPendFindPos(t, writeList[l]), t)
      OBVIOUS
    <3>2. writeList[l] \in Seq(Tasks) /\ IsInjective(writeList[l]) /\ priority \in [Tasks -> Nat]
      BY <1>0 DEF TypeOK, Linked, WaitList, Sides
    <3>3. /\ w \in Seq(Tasks) /\ ToSet(w) = ToSet(writeList[l]) \cup {t}
          /\ t \notin ToSet(writeList[l]) => IsInjective(w)
      BY <3>1, <3>2, LinkFacts
    <3>4. writeList'[l] = w /\ \A k \in Rwlocks : k # l => writeList'[k] = writeList[k]
      BY <2>3, <3>1, <1>0 DEF TypeOK
    <3>5. WaitList(l, "WRITE")' = w /\ WaitList(l, "WRITE") = writeList[l]
          /\ \A k \in Rwlocks, y \in Sides : k # l \/ y # "WRITE" => WaitList(k, y)' = WaitList(k, y)
      BY <2>3, <3>4 DEF WaitList, Sides
    <3>6. Linked'
      BY <2>3, <3>3, <3>5, <1>0, <1>5, LinkedJoin DEF Sides
    <3> QED BY <3>6, <2>1, <1>2, <1>5
  <2> QED BY <2>2, <2>3, <1>5 DEF OsRwlockWrPendOp
<1>6. ASSUME NEW t \in Tasks, NEW l \in Rwlocks, LOS_RwlockUnLock(t, l)
      PROVE  Linked' /\ DeadIsFree'
  <2>1. UNCHANGED magic /\ magic[l]
    BY <1>6 DEF LOS_RwlockUnLock
  <2>2. \A k \in Rwlocks : k # l => rwCount'[k] = rwCount[k]
    BY <1>6, <1>0 DEF LOS_RwlockUnLock, OsRwlockPostOp, TypeOK
  <2>3. \/ UNCHANGED <<taskStatus, readList, writeList>>
        \/ \E rd, wr : OsRwlockPostOp(l, rd, wr)
    BY <1>6 DEF LOS_RwlockUnLock
  <2> QED BY <2>1, <2>2, <2>3, <1>1, <1>2, PostLinked
<1>7. ASSUME NEW t \in Tasks, RwlockTimeout(t) \/ LOS_TaskDelete(t) PROVE Linked' /\ DeadIsFree'
  <2>1. UNCHANGED <<magic, rwCount>>
    BY <1>7 DEF RwlockTimeout, LOS_TaskDelete, Unlink
  <2>2. ASSUME NEW l \in Rwlocks, NEW x \in Sides
        PROVE  IsInjective(WaitList(l, x)') /\ ToSet(WaitList(l, x)') \subseteq ToSet(WaitList(l, x)) \ {t}
    <3>1. WaitList(l, x)' = LOS_ListDelete(WaitList(l, x), t)
      BY <1>7 DEF RwlockTimeout, LOS_TaskDelete, Unlink, WaitList
    <3>2. WaitList(l, x) \in Seq(Tasks) /\ IsInjective(WaitList(l, x))
      BY <1>0, WaitListType DEF Linked
    <3> QED BY <3>1, <3>2, DeleteList
  <2>3. \A u \in Tasks : IsPending(u) /\ u \notin {t} => IsPending(u)'
    BY <1>0, <1>7 DEF RwlockTimeout, LOS_TaskDelete, SchedTimeoutTaskWake, IsPending, TypeOK
  <2> QED BY <2>1, <2>2, <2>3, <1>0, <1>2, LinkedLeave
<1>8. ASSUME NEW t \in Tasks, RwlockPendReturn(t) PROVE Linked' /\ DeadIsFree'
  <2>1. /\ UNCHANGED <<magic, rwCount, readList, writeList>>
        /\ \A u \in Tasks : IsPending(u) => IsPending(u)'
    BY <1>0, <1>8 DEF RwlockPendReturn, HPFWaitReturn, lockVars, IsPending, TypeOK
  <2>2. \A l \in Rwlocks, x \in Sides : WaitList(l, x)' = WaitList(l, x)
    BY <2>1 DEF WaitList
  <2>3. \A l \in Rwlocks, x \in Sides :
            /\ IsInjective(WaitList(l, x)')
            /\ ToSet(WaitList(l, x)') \subseteq ToSet(WaitList(l, x)) \ {}
    BY <2>2, <1>0 DEF Linked
  <2> QED BY <2>1, <2>3, <1>0, <1>2, LinkedLeave
<1>9. ASSUME NEW t \in Tasks, NEW pol, NEW prio, HPFSchedParamModify(t, pol, prio) PROVE Linked' /\ DeadIsFree'
  BY <1>1, <1>2, <1>9 DEF HPFSchedParamModify, lockVars
<1>10. CASE UNCHANGED vars
  BY <1>1, <1>2, <1>10 DEF vars, lockVars
<1> QED BY <1>3, <1>4, <1>5, <1>6, <1>7, <1>8, <1>9, <1>10 DEF Next, LOS_RwlockRdLock,
        LOS_RwlockTryRdLock, LOS_RwlockWrLock, LOS_RwlockTryWrLock

LEMMA GrantedRaised ==
    ASSUME OnlyHolders, NEW held \in [Rwlocks -> [Tasks -> Int]], NEW l \in Rwlocks, NEW A
    PROVE  /\ Raised(held[l], Granted(held, l, A)[l], A)
           /\ \A k \in Rwlocks : k # l => Granted(held, l, A)[k] = held[k]
<1>1. Granted(held, l, A)[l] = [t \in Tasks |-> held[l][t] + IF t \in A THEN 1 ELSE 0]
  BY DEF Granted
<1>2. \A t \in Tasks : (held[l][t] + IF t \in A THEN 1 ELSE 0) \in Int
  OBVIOUS
<1>3. \A k \in Rwlocks : k # l => Granted(held, l, A)[k] = held[k]
  BY DEF Granted
<1> QED BY <1>1, <1>2, <1>3 DEF Raised

LEMMA ReleasedRaised ==
    ASSUME OnlyHolders, NEW held \in [Rwlocks -> [Tasks -> Int]], NEW l \in Rwlocks,
           NEW t \in Tasks
    PROVE  /\ Raised(Released(held, l, t)[l], held[l], {t})
           /\ Released(held, l, t) \in [Rwlocks -> [Tasks -> Int]]
           /\ \A k \in Rwlocks : k # l => Released(held, l, t)[k] = held[k]
<1>1. Released(held, l, t) = [held EXCEPT ![l] = [held[l] EXCEPT ![t] = held[l][t] - 1]]
  BY DEF Released
<1>2. [held[l] EXCEPT ![t] = held[l][t] - 1] \in [Tasks -> Int]
  OBVIOUS
<1>3. Released(held, l, t)[l] = [held[l] EXCEPT ![t] = held[l][t] - 1]
  BY <1>1
<1> QED BY <1>1, <1>2, <1>3 DEF Raised

\* The owner field of a free lock does not matter.
LEMMA FreeAnyOwner ==
    ASSUME NEW o, NEW p, NEW rd, NEW wr, LockOK(0, o, rd, wr)
    PROVE  LockOK(0, p, rd, wr)
<1>1. Total(wr) = 0
  BY LockFacts
<1> QED BY <1>1 DEF LockOK

\* The last unlock: rd and wr are what its release has left of a lock nobody holds.
LEMMA PostLocksOK ==
    ASSUME OnlyHolders, TypeOK, Linked, NEW l \in Rwlocks,
           NEW rd \in [Rwlocks -> [Tasks -> Int]], NEW wr \in [Rwlocks -> [Tasks -> Int]],
           LockOK(0, NULL, rd[l], wr[l]),
           \A k \in Rwlocks : k # l => LockOK(rwCount[k], writeOwner[k], rd[k], wr[k]),
           OsRwlockPostOp(l, rd, wr)
    PROVE  LocksOK'
<1>1. /\ \A k \in Rwlocks : k # l => rwCount'[k] = rwCount[k] /\ writeOwner'[k] = writeOwner[k]
      /\ \A k \in Rwlocks : k # l => rdHeld'[k] = rd[k] /\ wrHeld'[k] = wr[k]
  <2>1. \A k \in Rwlocks : k # l => rwCount'[k] = rwCount[k] /\ writeOwner'[k] = writeOwner[k]
    BY DEF OsRwlockPostOp, TypeOK
  <2>2. \A A : \A k \in Rwlocks : k # l => Granted(rd, l, A)[k] = rd[k] /\ Granted(wr, l, A)[k] = wr[k]
    BY GrantedRaised
  <2>3. rdHeld' = rd \/ \E A : rdHeld' = Granted(rd, l, A)
    BY DEF OsRwlockPostOp
  <2>4. wrHeld' = wr \/ \E A : wrHeld' = Granted(wr, l, A)
    BY DEF OsRwlockPostOp
  <2> QED BY <2>1, <2>2, <2>3, <2>4
<1>2. SUFFICES LockOK(rwCount'[l], writeOwner'[l], rdHeld'[l], wrHeld'[l])
  BY <1>1 DEF LocksOK
<1>3. readList[l] \in Seq(Tasks) /\ writeList[l] \in Seq(Tasks) /\ IsInjective(readList[l])
  BY DEF TypeOK, Linked, WaitList, Sides
<1>4. CASE /\ rwCount' = [rwCount EXCEPT ![l] = 0]
           /\ rdHeld' = rd /\ wrHeld' = wr
  BY <1>4, FreeAnyOwner DEF TypeOK
<1>5. CASE /\ writeList[l] # <<>>
           /\ writeOwner' = [writeOwner EXCEPT ![l] = Head(writeList[l])]
           /\ wrHeld' = Granted(wr, l, {Head(writeList[l])})
           /\ rwCount' = [rwCount EXCEPT ![l] = -1]
           /\ rdHeld' = rd
  <2>1. PICK w \in Tasks : w = Head(writeList[l])
    BY <1>3, <1>5, TailList
  <2>2. PICK h : h = wrHeld'[l]
    OBVIOUS
  <2>3. Raised(wr[l], h, {w})
    BY <2>1, <2>2, <1>5, GrantedRaised
  <2>z. PICK z \in Int : z = 0
    OBVIOUS
  <2>4. LockOK(0 - 1, w, rd[l], h)
    <3>1. LockOK(z, NULL, rd[l], wr[l])
      BY <2>z
    <3>2. LockOK(z - 1, w, rd[l], h)
      BY <3>1, <2>z, <2>3, GrantWrite
    <3> QED BY <3>2, <2>z
  <2>5. rwCount'[l] = 0 - 1 /\ writeOwner'[l] = w /\ rdHeld'[l] = rd[l]
    BY <1>5, <2>1 DEF TypeOK
  <2> QED BY <2>2, <2>4, <2>5
<1>6. CASE \E n \in 1..Len(readList[l]) :
             LET woken == {readList[l][i] : i \in 1..n} IN
             /\ rwCount' = [rwCount EXCEPT ![l] = n]
             /\ rdHeld' = Granted(rd, l, woken)
             /\ wrHeld' = wr
  <2>1. PICK n \in 1..Len(readList[l]) :
             LET woken == {readList[l][i] : i \in 1..n} IN
             /\ rwCount' = [rwCount EXCEPT ![l] = n]
             /\ rdHeld' = Granted(rd, l, woken)
             /\ wrHeld' = wr
    BY <1>6
  <2>2. PICK A : A = {readList[l][i] : i \in 1..n}
    OBVIOUS
  <2>3. A \in SUBSET Tasks /\ Cardinality(A) = n
    <3>1. BatchOf(Tasks, readList[l], n, A)
      BY <2>2, <1>3, Batch
    <3> QED BY <3>1 DEF BatchOf
  <2>4. PICK h : h = rdHeld'[l]
    OBVIOUS
  <2>5. Raised(rd[l], h, A)
    BY <2>1, <2>2, <2>4, GrantedRaised
  <2>6. PICK p : p = writeOwner'[l]
    OBVIOUS
  <2>z. PICK z \in Int : z = 0 /\ z >= 0
    OBVIOUS
  <2>7. LockOK(0 + n, p, h, wr[l])
    <3>1. LockOK(z, NULL, rd[l], wr[l])
      BY <2>z
    <3>2. LockOK(z + Cardinality(A), p, h, wr[l])
      BY <3>1, <2>z, <2>3, <2>5, GrantRead
    <3> QED BY <3>2, <2>z, <2>3
  <2>8. rwCount'[l] = 0 + n /\ wrHeld'[l] = wr[l]
    BY <2>1, <1>3 DEF TypeOK
  <2> QED BY <2>4, <2>6, <2>7, <2>8
<1>7. \/ /\ rwCount' = [rwCount EXCEPT ![l] = 0]
         /\ rdHeld' = rd /\ wrHeld' = wr
      \/ /\ writeList[l] # <<>>
         /\ writeOwner' = [writeOwner EXCEPT ![l] = Head(writeList[l])]
         /\ wrHeld' = Granted(wr, l, {Head(writeList[l])})
         /\ rwCount' = [rwCount EXCEPT ![l] = -1]
         /\ rdHeld' = rd
      \/ \E n \in 1..Len(readList[l]) :
             LET woken == {readList[l][i] : i \in 1..n} IN
             /\ rwCount' = [rwCount EXCEPT ![l] = n]
             /\ rdHeld' = Granted(rd, l, woken)
             /\ wrHeld' = wr
  BY Zenon DEF OsRwlockPostOp, GrantsWriter
<1> QED BY <1>4, <1>5, <1>6, <1>7

LEMMA UnlockLocksOK ==
    ASSUME OnlyHolders, HInv, NEW t \in Tasks, NEW l \in Rwlocks, LOS_RwlockUnLock(t, l)
    PROVE  LocksOK'
<1>0. TypeOK /\ Linked /\ LocksOK
  BY DEF HInv, IInv
<1>1. PICK rd, wr : /\ rd = IF rwCount[l] > 0 THEN Released(rdHeld, l, t) ELSE rdHeld
                    /\ wr = IF rwCount[l] < 0 THEN Released(wrHeld, l, t) ELSE wrHeld
  OBVIOUS
<1>2. rdHeld \in [Rwlocks -> [Tasks -> Int]] /\ wrHeld \in [Rwlocks -> [Tasks -> Int]]
      /\ rwCount[l] \in Int
  BY <1>0, RwlockAssumption DEF TypeOK
<1>3. /\ rd \in [Rwlocks -> [Tasks -> Int]] /\ wr \in [Rwlocks -> [Tasks -> Int]]
      /\ \A k \in Rwlocks : k # l => rd[k] = rdHeld[k] /\ wr[k] = wrHeld[k]
  BY <1>1, <1>2, ReleasedRaised
<1>4. LockOK(rwCount[l], writeOwner[l], rdHeld[l], wrHeld[l])
  BY <1>0 DEF LocksOK
<1>5. \A k \in Rwlocks : k # l => LockOK(rwCount[k], writeOwner[k], rd[k], wr[k])
  BY <1>0, <1>3 DEF LocksOK
<1>6. rdHeld[l][t] + wrHeld[l][t] > 0 /\ rwCount[l] # 0 /\ (rwCount[l] < 0 => writeOwner[l] = t)
  BY DEF LOS_RwlockUnLock
<1>7. ASSUME rwCount[l] > 0, NEW p PROVE LockOK(rwCount[l] - 1, p, rd[l], wr[l])
  <2>1. wrHeld[l][t] = 0 /\ rdHeld[l][t] \in Int
    BY <1>2, <1>4, <1>7, LockFacts
  <2>2. rdHeld[l][t] > 0
    BY <2>1, <1>6
  <2>3. Raised(rd[l], rdHeld[l], {t}) /\ wr[l] = wrHeld[l]
    <3>1. ~(rwCount[l] < 0)
      BY <1>2, <1>7
    <3> QED BY <3>1, <1>1, <1>2, <1>7, ReleasedRaised
  <2>4. rd[l] \in [Tasks -> Int]
    BY <1>3
  <2> QED BY <2>2, <2>3, <2>4, <1>2, <1>4, <1>7, ReleaseRead
<1>8. ASSUME rwCount[l] < 0, NEW p, rwCount[l] = -1 \/ p = t
      PROVE  LockOK(rwCount[l] + 1, p, rd[l], wr[l])
  <2>1. LockOK(rwCount[l], t, rdHeld[l], wrHeld[l])
    BY <1>4, <1>6, <1>8
  <2>2. Raised(wr[l], wrHeld[l], {t}) /\ rd[l] = rdHeld[l]
    <3>1. ~(rwCount[l] > 0)
      BY <1>2, <1>8
    <3> QED BY <3>1, <1>1, <1>2, <1>8, ReleasedRaised
  <2>3. wr[l] \in [Tasks -> Int]
    BY <1>3
  <2> QED BY <2>1, <2>2, <2>3, <1>2, <1>8, ReleaseWrite
<1>9. CASE /\ rwCount[l] > 1 \/ rwCount[l] < -1
           /\ rwCount' = [rwCount EXCEPT ![l] = IF @ > 1 THEN @ - 1 ELSE @ + 1]
           /\ rdHeld' = rd /\ wrHeld' = wr
           /\ UNCHANGED writeOwner
  <2>1. \A k \in Rwlocks : k # l => rwCount'[k] = rwCount[k]
    BY <1>9, <1>0 DEF TypeOK
  <2>2. SUFFICES LockOK(rwCount'[l], writeOwner[l], rd[l], wr[l])
    BY <2>1, <1>5, <1>9 DEF LocksOK
  <2>3. CASE rwCount[l] > 1
    <3>1. rwCount'[l] = rwCount[l] - 1
      BY <2>3, <1>9, <1>0 DEF TypeOK
    <3>2. rwCount[l] > 0
      BY <2>3, <1>2
    <3> QED BY <3>1, <3>2, <1>7
  <2>4. CASE rwCount[l] < -1
    <3>1. ~(rwCount[l] > 1) /\ rwCount[l] < 0
      BY <2>4, <1>2
    <3>2. rwCount'[l] = rwCount[l] + 1
      BY <3>1, <1>9, <1>0 DEF TypeOK
    <3> QED BY <3>1, <3>2, <1>6, <1>8
  <2> QED BY <2>3, <2>4, <1>9
<1>10. CASE rwCount[l] \in {-1, 1} /\ OsRwlockPostOp(l, rd, wr)
  <2>1. LockOK(0, NULL, rd[l], wr[l])
    <3>1. CASE rwCount[l] = 1
      <4>1. rwCount[l] > 0 /\ rwCount[l] - 1 = 0
        BY <3>1
      <4> QED BY <4>1, <1>7
    <3>2. CASE rwCount[l] = -1
      <4>1. rwCount[l] < 0 /\ rwCount[l] + 1 = 0
        BY <3>2
      <4> QED BY <4>1, <3>2, <1>8
    <3> QED BY <3>1, <3>2, <1>10
  <2> QED BY <2>1, <1>0, <1>3, <1>5, <1>10, PostLocksOK
<1> QED BY <1>1, <1>9, <1>10 DEF LOS_RwlockUnLock

LEMMA NextLocksOK == HInv /\ [Next]_vars /\ OnlyHolders => LocksOK'
<1> SUFFICES ASSUME HInv, [Next]_vars, OnlyHolders PROVE LocksOK'
  OBVIOUS
<1>0. TypeOK /\ DeadIsFree /\ LocksOK
  BY DEF HInv, IInv
<1>t. \A l \in Rwlocks : /\ rwCount[l] \in Int
                         /\ LockOK(rwCount[l], writeOwner[l], rdHeld[l], wrHeld[l])
  BY <1>0, RwlockAssumption DEF TypeOK, LocksOK
<1>1. ASSUME UNCHANGED <<rwCount, writeOwner, rdHeld, wrHeld>> PROVE LocksOK'
  BY <1>0, <1>1 DEF LocksOK
<1>2. ASSUME NEW t \in Tasks, NEW l \in Rwlocks, LOS_RwlockInit(t, l) \/ LOS_RwlockDestroy(t, l)
      PROVE  LocksOK'
  <2>1. rwCount[l] = 0 /\ UNCHANGED <<rdHeld, wrHeld>>
    BY <1>2, <1>0 DEF LOS_RwlockInit, LOS_RwlockDestroy, DeadIsFree
  <2>2. rwCount' = rwCount /\ \A k \in Rwlocks : k # l => writeOwner'[k] = writeOwner[k]
    BY <2>1, <1>2, <1>0 DEF LOS_RwlockInit, LOS_RwlockDestroy, TypeOK
  <2>3. PICK p : p = writeOwner'[l]
    OBVIOUS
  <2>4. LockOK(0, p, rdHeld[l], wrHeld[l])
    BY <2>1, <1>t, FreeAnyOwner
  <2> QED BY <2>1, <2>2, <2>3, <2>4, <1>t DEF LocksOK
<1>3. ASSUME NEW t \in Tasks, NEW l \in Rwlocks, NEW timeout, OsRwlockRdPendOp(t, l, timeout)
      PROVE  LocksOK'
  <2>1. CASE UNCHANGED <<rwCount, rdHeld>>
    BY <2>1, <1>1, <1>3 DEF OsRwlockRdPendOp
  <2>2. CASE /\ rwCount[l] >= 0
             /\ rwCount' = [rwCount EXCEPT ![l] = @ + 1]
             /\ rdHeld' = Granted(rdHeld, l, {t})
    <3>1. UNCHANGED <<writeOwner, wrHeld>>
      BY <1>3 DEF OsRwlockRdPendOp
    <3>2. /\ rwCount'[l] = rwCount[l] + 1
          /\ \A k \in Rwlocks : k # l => rwCount'[k] = rwCount[k]
      BY <2>2, <1>0 DEF TypeOK
    <3>3. PICK h : h = rdHeld'[l]
      OBVIOUS
    <3>4. Raised(rdHeld[l], h, {t}) /\ \A k \in Rwlocks : k # l => rdHeld'[k] = rdHeld[k]
      <4>1. rdHeld \in [Rwlocks -> [Tasks -> Int]]
        BY <1>0 DEF TypeOK
      <4>2. /\ Raised(rdHeld[l], Granted(rdHeld, l, {t})[l], {t})
            /\ \A k \in Rwlocks : k # l => Granted(rdHeld, l, {t})[k] = rdHeld[k]
        BY <4>1, GrantedRaised
      <4> QED BY <2>2, <3>3, <4>2, Zenon
    <3>5. LockOK(rwCount[l] + 1, writeOwner[l], h, wrHeld[l])
      <4>1. Cardinality({t}) = 1
        BY FS_Singleton
      <4>2. LockOK(rwCount[l] + Cardinality({t}), writeOwner[l], h, wrHeld[l])
        BY <2>2, <3>4, <1>t, GrantRead
      <4> QED BY <4>1, <4>2
    <3> QED BY <3>1, <3>2, <3>3, <3>4, <3>5, <1>t DEF LocksOK
  <2> QED BY <2>1, <2>2, <1>3 DEF OsRwlockRdPendOp
<1>4. ASSUME NEW t \in Tasks, NEW l \in Rwlocks, NEW timeout, OsRwlockWrPendOp(t, l, timeout)
      PROVE  LocksOK'
  <2>1. CASE UNCHANGED <<rwCount, writeOwner, wrHeld>>
    BY <2>1, <1>1, <1>4 DEF OsRwlockWrPendOp
  <2>2. CASE /\ rwCount[l] = 0 \/ (rwCount[l] < 0 /\ writeOwner[l] = t)
             /\ rwCount' = [rwCount EXCEPT ![l] = rwCount[l] - 1]
             /\ writeOwner' = [writeOwner EXCEPT ![l] = t]
             /\ wrHeld' = Granted(wrHeld, l, {t})
    <3>1. UNCHANGED rdHeld
      BY <1>4 DEF OsRwlockWrPendOp
    <3>2. /\ rwCount'[l] = rwCount[l] - 1 /\ writeOwner'[l] = t
          /\ \A k \in Rwlocks : k # l => rwCount'[k] = rwCount[k] /\ writeOwner'[k] = writeOwner[k]
      BY <2>2, <1>0 DEF TypeOK
    <3>3. PICK h : h = wrHeld'[l]
      OBVIOUS
    <3>4. Raised(wrHeld[l], h, {t}) /\ \A k \in Rwlocks : k # l => wrHeld'[k] = wrHeld[k]
      <4>1. wrHeld \in [Rwlocks -> [Tasks -> Int]]
        BY <1>0 DEF TypeOK
      <4>2. /\ Raised(wrHeld[l], Granted(wrHeld, l, {t})[l], {t})
            /\ \A k \in Rwlocks : k # l => Granted(wrHeld, l, {t})[k] = wrHeld[k]
        BY <4>1, GrantedRaised
      <4> QED BY <2>2, <3>3, <4>2, Zenon
    <3>5. LockOK(rwCount[l] - 1, t, rdHeld[l], h)
      BY <2>2, <3>4, <1>t, GrantWrite
    <3> QED BY <3>1, <3>2, <3>3, <3>4, <3>5, <1>t DEF LocksOK
  <2>3. ASSUME rwCount[l] < 0, writeOwner[l] = t, UNCHANGED writeOwner
        PROVE  writeOwner' = [writeOwner EXCEPT ![l] = t]
    BY <2>3, <1>0 DEF TypeOK
  <2>4. rwCount[l] = 0 => rwCount[l] - 1 = -1
    OBVIOUS
  <2> QED BY <2>1, <2>2, <2>3, <2>4, <1>4 DEF OsRwlockWrPendOp
<1>5. ASSUME NEW t \in Tasks, NEW l \in Rwlocks, LOS_RwlockUnLock(t, l) PROVE LocksOK'
  BY <1>5, UnlockLocksOK
<1>6. ASSUME NEW t \in Tasks, RwlockTimeout(t) \/ LOS_TaskDelete(t) \/ RwlockPendReturn(t)
      PROVE  LocksOK'
  BY <1>1, <1>6 DEF RwlockTimeout, LOS_TaskDelete, RwlockPendReturn, Unlink, lockVars
<1>7. ASSUME NEW t \in Tasks, NEW pol, NEW prio, HPFSchedParamModify(t, pol, prio) PROVE LocksOK'
  BY <1>1, <1>7 DEF HPFSchedParamModify, lockVars
<1>8. CASE UNCHANGED vars
  BY <1>1, <1>8 DEF vars, lockVars
<1> QED BY <1>2, <1>3, <1>4, <1>5, <1>6, <1>7, <1>8 DEF Next, LOS_RwlockRdLock,
        LOS_RwlockTryRdLock, LOS_RwlockWrLock, LOS_RwlockTryWrLock

LEMMA InitHInv == Init => HInv
<1> SUFFICES ASSUME Init PROVE HInv
  OBVIOUS
<1>1. IInv
  BY InitIInv
<1>2. DeadIsFree
  BY DEF Init, DeadIsFree
<1>3. ASSUME NEW l \in Rwlocks, NEW x \in Sides PROVE WaitList(l, x) = <<>>
  BY DEF Init, WaitList
<1>4. IsInjective(<<>>) /\ ToSet(<<>>) = {}
  BY DEF IsInjective, ToSet
<1>5. Linked
  BY <1>3, <1>4 DEF Linked
<1>6. ASSUME NEW l \in Rwlocks
      PROVE  LockOK(rwCount[l], writeOwner[l], rdHeld[l], wrHeld[l])
  <2>1. PICK f : f = [t \in Tasks |-> 0]
    OBVIOUS
  <2>2. rwCount[l] = 0 /\ rdHeld[l] = f /\ wrHeld[l] = f
    BY <2>1 DEF Init
  <2>3. f \in [Tasks -> Int] /\ \A t \in Tasks : f[t] = 0
    BY <2>1
  <2>4. Total(f) = 0
    BY <2>3, SumZero
  <2> QED BY <2>2, <2>3, <2>4 DEF LockOK
<1>7. LocksOK
  BY <1>6 DEF LocksOK
<1> QED BY <1>1, <1>2, <1>5, <1>7 DEF HInv

LEMMA NextHInv == HInv /\ [Next]_vars => HInv'
<1> SUFFICES ASSUME HInv, [Next]_vars PROVE HInv'
  OBVIOUS
<1>1. IInv'
  BY NextIInv DEF HInv
<1>2. Linked' /\ DeadIsFree'
  BY NextLinked
<1>3. OnlyHolders => LocksOK'
  BY NextLocksOK
<1> QED BY <1>1, <1>2, <1>3 DEF HInv

LEMMA HInvAgrees == HInv /\ OnlyHolders => HoldersAgree
<1> SUFFICES ASSUME HInv, OnlyHolders, NEW l \in Rwlocks
             PROVE  LET readers == Total(rdHeld[l])
                        writers == Total(wrHeld[l])
                    IN  /\ rwCount[l] = readers - writers
                        /\ readers = 0 \/ writers = 0
                        /\ writers > 0 => wrHeld[l][writeOwner[l]] = writers
  BY DEF HoldersAgree
<1>1. LockOK(rwCount[l], writeOwner[l], rdHeld[l], wrHeld[l])
  BY DEF HInv, LocksOK
<1> QED BY <1>1 DEF LockOK

\* A lock has readers or one writer, never both, and rwCount is the number of grants that
\* have not been released, those to woken tasks that have not run yet included: for any
\* number of tasks and locks, if tasks unlock only what they have locked.
THEOREM MutualExclusion == Spec => [](OnlyHolders => HoldersAgree)
BY InitHInv, NextHInv, HInvAgrees, PTL DEF Spec

=============================================================================

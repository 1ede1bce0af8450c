---------------------------- MODULE LosSem_proofs ----------------------------
(***************************************************************************)
(* Proofs that the semaphore invariants hold for every number of tasks and *)
(* control blocks and every OS_SEM_COUNT_MAX.                              *)
(*                                                                         *)
(* No invariant is inductive alone.  That a timeout or a wake up removes a *)
(* task from the one list it is on needs PendingOnOneList; that the second *)
(* half of OsSemCreate does not clear a list under a waiter needs          *)
(* PoolConserved and WaiterHandleIsCurrent.                                *)
(***************************************************************************)
EXTENDS LosSem, LosListLemmas, FiniteSetTheorems

\* LOS_SemPost tests semCount for equality with maxSemCount: enough, because no other
\* step raises the count and OsSemCreate starts it within the maximum.
CountBounded == \A s \in Sems : semCount[s] <= maxSemCount[s]

IInv == /\ TypeOK
        /\ CountBounded
        /\ NoWaiterBesideToken
        /\ WaiterHandleIsCurrent
        /\ PendingOnOneList
        /\ PoolConserved

LEMMA InitIInv == Init => IInv
<1> SUFFICES ASSUME Init PROVE IInv
  OBVIOUS
<1> USE SemAssumption
<1>1. SemIDs # {} /\ \A h \in SemIDs : h[2] \in Sems
  <2>1. PICK s : s \in Sems
    OBVIOUS
  <2>2. <<0, s>> \in SemIDs
    BY <2>1 DEF SemIDs
  <2> QED BY <2>2 DEF SemIDs
<1>2. /\ g_unusedSemList \in Seq(Sems) /\ ToSet(g_unusedSemList) = Sems
      /\ IsInjective(g_unusedSemList)
  <2>1. Cardinality(Sems) \in Nat
    BY FS_CardinalityType
  <2> QED BY <2>1 DEF Init
<1>3. TypeOK
  BY <1>1, <1>2 DEF Init, TypeOK, TaskStatus
<1>5. \A s \in Sems : ToSet(semList[s]) = {} /\ IsInjective(semList[s])
  BY DEF Init, ToSet, IsInjective
<1>6. CountBounded /\ NoWaiterBesideToken
  BY DEF Init, CountBounded, NoWaiterBesideToken
<1>7. WaiterHandleIsCurrent
  BY <1>5 DEF WaiterHandleIsCurrent
<1>8. PendingOnOneList
  BY <1>5 DEF Init, PendingOnOneList, IsPending
<1>9. PoolConserved
  BY <1>2 DEF Init, PoolConserved
<1> QED BY <1>3, <1>6, <1>7, <1>8, <1>9 DEF IInv

LEMMA HandleFacts ==
    \A h \in SemIDs : h[1] \in 0..MaxGen /\ h[2] \in Sems /\ h = <<h[1], h[2]>>
BY DEF SemIDs

LEMMA CreateTakeStep ==
    ASSUME IInv, NEW t \in Tasks, OsSemCreateTake(t)
    PROVE  IInv'
<1> USE DEF IInv
<1> DEFINE s == Head(g_unusedSemList)
<1>1. /\ s \in Sems
      /\ g_unusedSemList' \in Seq(Sems)
      /\ ToSet(g_unusedSemList) = ToSet(g_unusedSemList') \cup {s}
      /\ IsInjective(g_unusedSemList') /\ s \notin ToSet(g_unusedSemList')
  BY TailList DEF TypeOK, PoolConserved, OsSemCreateTake
<1>2. TypeOK'
  BY <1>1 DEF TypeOK, OsSemCreateTake
<1>3. CountBounded' /\ NoWaiterBesideToken'
  BY DEF CountBounded, NoWaiterBesideToken, OsSemCreateTake
<1>4. WaiterHandleIsCurrent'
  BY DEF WaiterHandleIsCurrent, IsValid, SemID, OsSemCreateTake
<1>5. PendingOnOneList'
  BY DEF PendingOnOneList, IsPending, OsSemCreateTake
<1>6. creating' = [creating EXCEPT ![t] = s] /\ creating[t] = NoSem /\ semStat' = semStat
  BY DEF OsSemCreateTake, Running
<1>7. \A u \in Tasks : creating[u] # s
  BY <1>1, SemAssumption DEF PoolConserved, TypeOK
<1>8. PoolConserved'
  <2>1. IsInjective(g_unusedSemList')
    BY <1>1
  <2>2. ASSUME NEW u \in Tasks, creating'[u] # NoSem
        PROVE  /\ creating'[u] \notin ToSet(g_unusedSemList')
               /\ \A v \in Tasks \ {u} : creating'[v] # creating'[u]
    <3>1. CASE u = t
      BY <1>1, <1>6, <1>7, <3>1 DEF TypeOK
    <3>2. CASE u # t
      BY <1>1, <1>6, <1>7, <2>2, <3>2 DEF TypeOK, PoolConserved
    <3> QED BY <3>1, <3>2
  <2>3. ASSUME NEW r \in Sems
        PROVE  semStat'[r] = "USED" <=> /\ r \notin ToSet(g_unusedSemList')
                                        /\ \A u \in Tasks : creating'[u] # r
    <3>1. CASE r = s
      BY <1>1, <1>6, <3>1 DEF TypeOK, PoolConserved
    <3>2. CASE r # s
      <4>1. (\A u \in Tasks : creating'[u] # r) <=> (\A u \in Tasks : creating[u] # r)
        BY <1>6, <3>2, SemAssumption DEF TypeOK
      <4> QED BY <1>1, <1>6, <3>2, <4>1 DEF PoolConserved
    <3> QED BY <3>1, <3>2
  <2> QED BY <2>1, <2>2, <2>3 DEF PoolConserved
<1> QED BY <1>2, <1>3, <1>4, <1>5, <1>8

LEMMA CreateInitStep ==
    ASSUME IInv, NEW t \in Tasks,
           NEW maxCount \in {OS_SEM_BINARY_COUNT_MAX, OS_SEM_COUNT_MAX},
           NEW count \in 0..OS_SEM_COUNT_MAX,
           OsSemCreateInit(t, count, maxCount)
    PROVE  IInv'
<1> USE DEF IInv
<1> DEFINE s == creating[t]
<1>1. s \in Sems /\ s # NoSem
  BY DEF TypeOK, OsSemCreateInit
<1>2. maxCount \in 0..OS_SEM_COUNT_MAX /\ count <= maxCount
  BY SemAssumption DEF OS_SEM_BINARY_COUNT_MAX, OsSemCreateInit
<1>3. semStat[s] = "UNUSED" /\ s \notin ToSet(g_unusedSemList)
  BY <1>1 DEF TypeOK, PoolConserved
<1>4. ToSet(semList[s]) = {} /\ semList[s] = <<>>
  <2>1. semList[s] \in Seq(Tasks)
    BY <1>1 DEF TypeOK
  <2>2. \A u : u \notin ToSet(semList[s])
    BY <1>1, <1>3 DEF WaiterHandleIsCurrent, IsValid
  <2>3. ToSet(semList[s]) = {}
    BY <2>2
  <2> QED BY <2>1, <2>3, ToSetIn
<1>5. semList' = semList
  BY <1>4 DEF OsSemCreateInit, TypeOK
<1>6. TypeOK'
  BY <1>1, <1>2, <1>5 DEF TypeOK, OsSemCreateInit
<1>7. CountBounded' /\ NoWaiterBesideToken'
  BY <1>1, <1>2, <1>4, <1>5 DEF TypeOK, CountBounded, NoWaiterBesideToken, OsSemCreateInit
<1>8. WaiterHandleIsCurrent'
  <2>1. SUFFICES ASSUME NEW r \in Sems, NEW u \in ToSet(semList[r])
                 PROVE  (IsValid(semHandle[u]) /\ semHandle[u][2] = r)'
    BY <1>5 DEF WaiterHandleIsCurrent
  <2>2. r # s
    BY <2>1, <1>4
  <2>3. IsValid(semHandle[u]) /\ semHandle[u][2] = r
    BY <2>1 DEF WaiterHandleIsCurrent
  <2> QED BY <2>2, <2>3, <1>1 DEF IsValid, SemID, OsSemCreateInit, TypeOK
<1>9. PendingOnOneList'
  BY <1>5 DEF PendingOnOneList, IsPending, OsSemCreateInit
<1>10. PoolConserved'
  <2>1. /\ creating' = [creating EXCEPT ![t] = NoSem]
        /\ semStat' = [semStat EXCEPT ![s] = "USED"]
        /\ g_unusedSemList' = g_unusedSemList
    BY DEF OsSemCreateInit
  <2>2. \A u \in Tasks \ {t} : creating[u] # s
    BY <1>1 DEF PoolConserved
  <2>3. ASSUME NEW u \in Tasks, creating'[u] # NoSem
        PROVE  /\ creating'[u] \notin ToSet(g_unusedSemList')
               /\ \A v \in Tasks \ {u} : creating'[v] # creating'[u]
    BY <2>1, <2>3 DEF TypeOK, PoolConserved
  <2>4. ASSUME NEW r \in Sems
        PROVE  semStat'[r] = "USED" <=> /\ r \notin ToSet(g_unusedSemList')
                                        /\ \A u \in Tasks : creating'[u] # r
    <3>1. CASE r = s
      BY <1>1, <1>3, <2>1, <2>2, <3>1, SemAssumption DEF TypeOK
    <3>2. CASE r # s
      <4>1. (\A u \in Tasks : creating'[u] # r) <=> (\A u \in Tasks : creating[u] # r)
        BY <2>1, <3>2, SemAssumption DEF TypeOK
      <4> QED BY <2>1, <3>2, <4>1, <1>1 DEF TypeOK, PoolConserved
    <3> QED BY <3>1, <3>2
  <2> QED BY <2>1, <2>3, <2>4 DEF PoolConserved
<1> QED BY <1>6, <1>7, <1>8, <1>9, <1>10

LEMMA DeleteStep ==
    ASSUME IInv, NEW t \in Tasks, NEW h \in SemIDs, LOS_SemDelete(t, h)
    PROVE  IInv'
<1> USE DEF IInv
<1> DEFINE s == h[2]
<1>1. s \in Sems /\ semStat[s] = "USED" /\ semList[s] = <<>> /\ ToSet(semList[s]) = {}
  BY HandleFacts, ToSetIn DEF LOS_SemDelete, IsValid, TypeOK
<1>2. s \notin ToSet(g_unusedSemList) /\ \A u \in Tasks : creating[u] # s
  BY <1>1 DEF PoolConserved
<1>3. /\ g_unusedSemList' \in Seq(Sems)
      /\ ToSet(g_unusedSemList') = ToSet(g_unusedSemList) \cup {s}
      /\ IsInjective(g_unusedSemList')
  BY <1>1, <1>2, AppendList DEF TypeOK, PoolConserved, LOS_SemDelete
<1>4. TypeOK'
  <2>1. semGen[s] + 1 \in 0..MaxGen
    BY <1>1, SemAssumption, SMTT(40) DEF TypeOK, LOS_SemDelete
  <2>2. semGen' \in [Sems -> 0..MaxGen]
    BY <2>1, <1>1 DEF TypeOK, LOS_SemDelete
  <2> QED BY <2>2, <1>1, <1>3 DEF TypeOK, LOS_SemDelete
<1>5. CountBounded' /\ NoWaiterBesideToken'
  BY DEF CountBounded, NoWaiterBesideToken, LOS_SemDelete
<1>6. WaiterHandleIsCurrent'
  <2>1. SUFFICES ASSUME NEW r \in Sems, NEW u \in ToSet(semList[r])
                 PROVE  (IsValid(semHandle[u]) /\ semHandle[u][2] = r)'
    BY DEF WaiterHandleIsCurrent, LOS_SemDelete
  <2>2. r # s /\ IsValid(semHandle[u]) /\ semHandle[u][2] = r
    BY <2>1, <1>1 DEF WaiterHandleIsCurrent
  <2> QED BY <2>2, <1>1 DEF IsValid, SemID, LOS_SemDelete, TypeOK
<1>7. PendingOnOneList'
  BY DEF PendingOnOneList, IsPending, LOS_SemDelete
<1>8. PoolConserved'
  <2>1. creating' = creating /\ semStat' = [semStat EXCEPT ![s] = "UNUSED"]
    BY DEF LOS_SemDelete
  <2>2. ASSUME NEW u \in Tasks, creating'[u] # NoSem
        PROVE  /\ creating'[u] \notin ToSet(g_unusedSemList')
               /\ \A v \in Tasks \ {u} : creating'[v] # creating'[u]
    BY <1>2, <1>3, <2>1, <2>2 DEF PoolConserved
  <2>3. ASSUME NEW r \in Sems
        PROVE  semStat'[r] = "USED" <=> /\ r \notin ToSet(g_unusedSemList')
                                        /\ \A u \in Tasks : creating'[u] # r
    BY <1>1, <1>3, <2>1 DEF TypeOK, PoolConserved
  <2> QED BY <1>3, <2>2, <2>3 DEF PoolConserved
<1> QED BY <1>4, <1>5, <1>6, <1>7, <1>8

LEMMA PendStep ==
    ASSUME IInv, NEW t \in Tasks, NEW h \in SemIDs, NEW timeout \in Timeouts,
           LOS_SemPend(t, h, timeout)
    PROVE  IInv'
<1> USE DEF IInv
<1> DEFINE s == h[2]
<1>1. s \in Sems /\ IsValid(h) /\ taskStatus[t] = "RUN" /\ semHandle' = [semHandle EXCEPT ![t] = h]
  BY HandleFacts DEF LOS_SemPend, Running
<1>2. \A r \in Sems : t \notin ToSet(semList[r])
  BY <1>1 DEF PendingOnOneList, IsPending
<1>3. PoolConserved'
  BY DEF PoolConserved, LOS_SemPend
<1>4. \A r \in Sems : \A u \in ToSet(semList[r]) :
        u # t /\ u \in Tasks /\ (IsValid(semHandle[u]) /\ semHandle[u][2] = r)'
  <2>1. SUFFICES ASSUME NEW r \in Sems, NEW u \in ToSet(semList[r])
                 PROVE  /\ u # t /\ u \in Tasks
                        /\ (IsValid(semHandle[u]) /\ semHandle[u][2] = r)'
    OBVIOUS
  <2>2. u # t /\ u \in Tasks /\ semList[r] \in Seq(Tasks)
    BY <1>2, <2>1, ToSetIn DEF TypeOK
  <2>3. semHandle'[u] = semHandle[u]
    BY <1>1, <2>2 DEF TypeOK
  <2>4. IsValid(semHandle[u]) /\ semHandle[u][2] = r
    BY <2>1 DEF WaiterHandleIsCurrent
  <2> QED BY <2>2, <2>3, <2>4 DEF IsValid, SemID, LOS_SemPend
<1>5. CASE /\ semCount[s] > 0
           /\ semCount' = [semCount EXCEPT ![s] = @ - 1]
           /\ UNCHANGED <<taskStatus, semList>>
  <2>1. semCount[s] - 1 \in 0..OS_SEM_COUNT_MAX
    BY <1>1, <1>5, SemAssumption DEF TypeOK
  <2>2. TypeOK'
    BY <2>1, <1>1, <1>5 DEF TypeOK, LOS_SemPend
  <2>3. CountBounded' /\ NoWaiterBesideToken'
    <3>1. maxSemCount' = maxSemCount /\ semList' = semList
      BY <1>5 DEF LOS_SemPend
    <3>2. semCount[s] \in Int /\ maxSemCount[s] \in Int /\ semCount[s] <= maxSemCount[s]
      BY <1>1 DEF TypeOK, CountBounded
    <3>3. semList[s] = <<>>
      BY <1>1, <1>5, <3>2 DEF NoWaiterBesideToken
    <3>4. semCount'[s] <= maxSemCount'[s] /\ \A r \in Sems : r # s => semCount'[r] = semCount[r]
      BY <1>1, <1>5, <3>1, <3>2 DEF TypeOK
    <3> QED BY <3>1, <3>3, <3>4 DEF CountBounded, NoWaiterBesideToken
  <2>4. WaiterHandleIsCurrent'
    BY <1>4, <1>5 DEF WaiterHandleIsCurrent
  <2>5. PendingOnOneList'
    BY <1>5 DEF PendingOnOneList, IsPending
  <2> QED BY <2>2, <2>3, <2>4, <2>5, <1>3
<1>6. CASE /\ semCount[s] = 0
           /\ timeout # "NO_WAIT"
           /\ taskStatus' = HPFWait(t, timeout)
           /\ semList' = [semList EXCEPT ![s] = Append(@, t)]
           /\ UNCHANGED semCount
  <2>1. /\ semList'[s] \in Seq(Tasks)
        /\ ToSet(semList'[s]) = ToSet(semList[s]) \cup {t}
        /\ IsInjective(semList'[s])
    BY <1>1, <1>2, <1>6, AppendList DEF TypeOK, PendingOnOneList
  <2>2. \A r \in Sems : r # s => semList'[r] = semList[r]
    BY <1>1, <1>6 DEF TypeOK
  <2>3. /\ taskStatus' \in [Tasks -> TaskStatus]
        /\ taskStatus'[t] \in {"PENDING", "PEND_TIME"}
        /\ \A u \in Tasks : u # t => taskStatus'[u] = taskStatus[u]
    BY <1>6 DEF TypeOK, HPFWait, TaskStatus
  <2>4. TypeOK'
    <3>1. semList' \in [Sems -> Seq(Tasks)]
      BY <2>1, <1>1, <1>6 DEF TypeOK
    <3> QED BY <3>1, <2>3, <1>1, <1>6 DEF TypeOK, LOS_SemPend
  <2>5. CountBounded' /\ NoWaiterBesideToken'
    BY <1>1, <1>6, <2>2 DEF CountBounded, NoWaiterBesideToken, LOS_SemPend
  <2>6. WaiterHandleIsCurrent'
    <3>1. SUFFICES ASSUME NEW r \in Sems, NEW u \in ToSet(semList'[r])
                   PROVE  (IsValid(semHandle[u]) /\ semHandle[u][2] = r)'
      BY DEF WaiterHandleIsCurrent
    <3>2. CASE u = t
      <4>1. r = s
        BY <3>1, <3>2, <1>2, <2>2
      <4>2. semHandle'[t] = h
        BY <1>1 DEF TypeOK
      <4> QED BY <4>1, <4>2, <3>2, <1>1 DEF IsValid, SemID, LOS_SemPend
    <3>3. CASE u # t
      <4>1. u \in ToSet(semList[r])
        BY <3>1, <3>3, <2>1, <2>2
      <4> QED BY <4>1, <1>4
    <3> QED BY <3>2, <3>3
  <2>7. PendingOnOneList'
    <3>1. \A r \in Sems : ToSet(semList'[r]) = IF r = s THEN ToSet(semList[s]) \cup {t}
                                               ELSE ToSet(semList[r])
      BY <2>1, <2>2
    <3>2. \A r \in Sems : IsInjective(semList'[r])
      BY <2>1, <2>2 DEF PendingOnOneList
    <3>3. \A r1, r2 \in Sems : r1 # r2 => ToSet(semList'[r1]) \cap ToSet(semList'[r2]) = {}
      BY <3>1, <1>2 DEF PendingOnOneList
    <3>4. ASSUME NEW u \in Tasks
          PROVE  IsPending(u)' <=> \E r \in Sems : u \in ToSet(semList'[r])
      <4>1. CASE u = t
        BY <4>1, <3>1, <2>3, <1>1 DEF IsPending
      <4>2. CASE u # t
        <5>1. IsPending(u)' <=> IsPending(u)
          BY <4>2, <2>3 DEF IsPending
        <5>2. \A r \in Sems : u \in ToSet(semList'[r]) <=> u \in ToSet(semList[r])
          BY <4>2, <3>1
        <5> QED BY <5>1, <5>2 DEF PendingOnOneList
      <4> QED BY <4>1, <4>2
    <3> QED BY <3>2, <3>3, <3>4 DEF PendingOnOneList
  <2> QED BY <2>4, <2>5, <2>6, <2>7, <1>3
<1> QED BY <1>5, <1>6 DEF LOS_SemPend

\* A task leaves the list it pends on and stops being pending: the common part of a
\* wake up and of a timeout.
LEMMA UnlinkStep ==
    ASSUME IInv, NEW t \in Tasks, NEW status \in {"WOKEN", "TIMEOUT", "UNUSED"},
           NEW L, semList' = L, L \in [Sems -> Seq(Tasks)],
           \A r \in Sems : IsInjective(L[r]) /\ ToSet(L[r]) = ToSet(semList[r]) \ {t},
           taskStatus' = [taskStatus EXCEPT ![t] = status],
           UNCHANGED <<g_unusedSemList, semStat, semCount, maxSemCount, semGen, creating, semHandle>>
    PROVE  IInv'
<1> USE DEF IInv
<1>1. TypeOK'
  BY DEF TypeOK, TaskStatus
<1>2. CountBounded' /\ PoolConserved'
  BY DEF CountBounded, PoolConserved
<1>3. NoWaiterBesideToken'
  <2>1. SUFFICES ASSUME NEW r \in Sems, L[r] # <<>> PROVE semCount[r] = 0
    BY DEF NoWaiterBesideToken
  <2>2. L[r] \in Seq(Tasks) /\ semList[r] \in Seq(Tasks)
    BY DEF TypeOK
  <2>3. ToSet(L[r]) # {}
    BY <2>1, <2>2, ToSetIn
  <2>4. ToSet(semList[r]) # {}
    BY <2>3
  <2>5. semList[r] # <<>>
    BY <2>2, <2>4, ToSetIn
  <2> QED BY <2>5 DEF NoWaiterBesideToken
<1>4. WaiterHandleIsCurrent'
  BY DEF WaiterHandleIsCurrent, IsValid, SemID
<1>5. PendingOnOneList'
  <2>1. \A r \in Sems : IsInjective(semList'[r])
    OBVIOUS
  <2>2. \A r1, r2 \in Sems : r1 # r2 => ToSet(semList'[r1]) \cap ToSet(semList'[r2]) = {}
    BY DEF PendingOnOneList
  <2>3. ASSUME NEW u \in Tasks
        PROVE  IsPending(u)' <=> \E r \in Sems : u \in ToSet(semList'[r])
    <3>1. CASE u = t
      BY <3>1 DEF IsPending, TypeOK
    <3>2. CASE u # t
      <4>1. IsPending(u)' <=> IsPending(u)
        BY <3>2 DEF IsPending, TypeOK
      <4>2. \A r \in Sems : u \in ToSet(semList'[r]) <=> u \in ToSet(semList[r])
        BY <3>2
      <4> QED BY <4>1, <4>2 DEF PendingOnOneList
    <3> QED BY <3>1, <3>2
  <2> QED BY <2>1, <2>2, <2>3 DEF PendingOnOneList
<1> QED BY <1>1, <1>2, <1>3, <1>4, <1>5

LEMMA PostStep ==
    ASSUME IInv, NEW h \in SemIDs, LOS_SemPost(h)
    PROVE  IInv'
<1> USE DEF IInv
<1> DEFINE s == h[2]
<1>1. s \in Sems /\ semList[s] \in Seq(Tasks) /\ semCount[s] # maxSemCount[s]
  BY HandleFacts DEF LOS_SemPost, TypeOK
<1>2. CASE /\ semList[s] # <<>>
           /\ semList' = [semList EXCEPT ![s] = Tail(@)]
           /\ taskStatus' = HPFWake(Head(semList[s]))
           /\ UNCHANGED semCount
  <2> DEFINE w == Head(semList[s])
             L == [semList EXCEPT ![s] = Tail(@)]
  <2>1. /\ L[s] \in Seq(Tasks) /\ w \in Tasks
        /\ ToSet(semList[s]) = ToSet(L[s]) \cup {w}
        /\ IsInjective(L[s]) /\ w \notin ToSet(L[s])
    BY <1>1, <1>2, TailList DEF TypeOK, PendingOnOneList
  <2>2. \A r \in Sems : r # s => L[r] = semList[r] /\ w \notin ToSet(semList[r])
    BY <2>1, <1>1 DEF TypeOK, PendingOnOneList
  <2>3. L \in [Sems -> Seq(Tasks)]
    BY <2>1, <1>1 DEF TypeOK
  <2>4. \A r \in Sems : IsInjective(L[r]) /\ ToSet(L[r]) = ToSet(semList[r]) \ {w}
    BY <2>1, <2>2 DEF PendingOnOneList
  <2>5. taskStatus' = [taskStatus EXCEPT ![w] = "WOKEN"]
    BY <1>2 DEF HPFWake
  <2>6. /\ semList' = L
        /\ UNCHANGED <<g_unusedSemList, semStat, semCount, maxSemCount, semGen, creating, semHandle>>
    BY <1>2 DEF LOS_SemPost
  <2> HIDE DEF L, w, IInv
  <2> QED BY <2>1, <2>3, <2>4, <2>5, <2>6, UnlinkStep
<1>3. CASE /\ semList[s] = <<>>
           /\ semCount' = [semCount EXCEPT ![s] = @ + 1]
           /\ UNCHANGED <<taskStatus, semList>>
  <2>1. semCount[s] + 1 \in 0..OS_SEM_COUNT_MAX /\ semCount[s] + 1 <= maxSemCount[s]
    <3>1. /\ semCount[s] \in 0..OS_SEM_COUNT_MAX
          /\ maxSemCount[s] \in 0..OS_SEM_COUNT_MAX
          /\ semCount[s] <= maxSemCount[s]
      BY <1>1 DEF TypeOK, CountBounded
    <3> QED BY <1>1, <3>1, SemAssumption
  <2>2. TypeOK'
    BY <2>1, <1>1, <1>3 DEF TypeOK, LOS_SemPost
  <2>3. CountBounded' /\ NoWaiterBesideToken'
    <3>1. maxSemCount' = maxSemCount /\ semList' = semList
      BY <1>3 DEF LOS_SemPost
    <3>2. semCount'[s] <= maxSemCount'[s] /\ \A r \in Sems : r # s => semCount'[r] = semCount[r]
      BY <1>1, <1>3, <2>1, <3>1 DEF TypeOK
    <3> QED BY <1>3, <3>1, <3>2 DEF CountBounded, NoWaiterBesideToken
  <2>4. WaiterHandleIsCurrent' /\ PendingOnOneList' /\ PoolConserved'
    BY <1>3 DEF WaiterHandleIsCurrent, PendingOnOneList, PoolConserved, IsPending, IsValid, SemID,
                LOS_SemPost
  <2> QED BY <2>2, <2>3, <2>4
<1> QED BY <1>2, <1>3 DEF LOS_SemPost

LEMMA TimeoutStep ==
    ASSUME IInv, NEW t \in Tasks, SemTimeout(t)
    PROVE  IInv'
<1> DEFINE L == [s \in Sems |-> LOS_ListDelete(semList[s], t)]
<1>1. /\ L \in [Sems -> Seq(Tasks)]
      /\ \A r \in Sems : IsInjective(L[r]) /\ ToSet(L[r]) = ToSet(semList[r]) \ {t}
  <2>1. \A r \in Sems : semList[r] \in Seq(Tasks) /\ IsInjective(semList[r])
    BY DEF IInv, TypeOK, PendingOnOneList
  <2> QED BY <2>1, DeleteList
<1>2. semList' = L /\ taskStatus' = [taskStatus EXCEPT ![t] = "TIMEOUT"]
  BY DEF SemTimeout, SchedTimeoutTaskWake
<1>3. UNCHANGED <<g_unusedSemList, semStat, semCount, maxSemCount, semGen, creating, semHandle>>
  BY DEF SemTimeout
<1> HIDE DEF L
<1> QED BY <1>1, <1>2, <1>3, UnlinkStep

LEMMA TaskDeleteStep ==
    ASSUME IInv, NEW t \in Tasks, LOS_TaskDelete(t)
    PROVE  IInv'
<1> DEFINE L == [s \in Sems |-> LOS_ListDelete(semList[s], t)]
<1>1. /\ L \in [Sems -> Seq(Tasks)]
      /\ \A r \in Sems : IsInjective(L[r]) /\ ToSet(L[r]) = ToSet(semList[r]) \ {t}
  <2>1. \A r \in Sems : semList[r] \in Seq(Tasks) /\ IsInjective(semList[r])
    BY DEF IInv, TypeOK, PendingOnOneList
  <2> QED BY <2>1, DeleteList
<1>2. semList' = L /\ taskStatus' = [taskStatus EXCEPT ![t] = "UNUSED"]
  BY DEF LOS_TaskDelete
<1>3. UNCHANGED <<g_unusedSemList, semStat, semCount, maxSemCount, semGen, creating, semHandle>>
  BY DEF LOS_TaskDelete
<1> HIDE DEF L
<1> QED BY <1>1, <1>2, <1>3, UnlinkStep

LEMMA ReturnStep ==
    ASSUME IInv, NEW t \in Tasks, SemPendReturn(t)
    PROVE  IInv'
<1> USE DEF IInv
<1>1. TypeOK'
  BY DEF TypeOK, SemPendReturn, HPFWaitReturn, TaskStatus
<1>2. \A u \in Tasks : IsPending(u)' <=> IsPending(u)
  BY DEF TypeOK, SemPendReturn, HPFWaitReturn, IsPending
<1>3. PendingOnOneList'
  BY <1>2 DEF PendingOnOneList, SemPendReturn
<1>4. CountBounded' /\ NoWaiterBesideToken' /\ WaiterHandleIsCurrent' /\ PoolConserved'
  BY DEF CountBounded, NoWaiterBesideToken, WaiterHandleIsCurrent, PoolConserved, IsValid, SemID,
         SemPendReturn
<1> QED BY <1>1, <1>3, <1>4

LEMMA NextIInv == IInv /\ [Next]_vars => IInv'
<1> SUFFICES ASSUME IInv, [Next]_vars PROVE IInv'
  OBVIOUS
<1>1. CASE UNCHANGED vars
  BY <1>1 DEF vars, IInv, TypeOK, CountBounded, NoWaiterBesideToken, WaiterHandleIsCurrent,
              PendingOnOneList, PoolConserved, IsPending, IsValid, SemID
<1>2. CASE Next
  BY <1>2, CreateTakeStep, CreateInitStep, DeleteStep, PendStep, PostStep, ReturnStep, TimeoutStep,
     TaskDeleteStep
  DEF Next
<1> QED BY <1>1, <1>2

-----------------------------------------------------------------------------
\* Semaphore state stays well typed; in particular semCount never leaves
\* 0..OS_SEM_COUNT_MAX, although LOS_SemPost only tests for equality with the maximum.
THEOREM TypeCorrect == Spec => []TypeOK
<1>1. IInv => TypeOK
  BY DEF IInv
<1> QED BY <1>1, InitIInv, NextIInv, PTL DEF Spec

\* No task sleeps on a semaphore that has a token: LOS_SemPend, LOS_SemPost and the
\* timeout never leave a waiter beside a stored token.
THEOREM NoLostWakeup == Spec => []NoWaiterBesideToken
<1>1. IInv => NoWaiterBesideToken
  BY DEF IInv
<1> QED BY <1>1, InitIInv, NextIInv, PTL DEF Spec

\* LOS_SemDelete and the reuse of a control block never pull a semaphore from under a
\* task that is pending on it.
THEOREM NoReuseUnderWaiter == Spec => []WaiterHandleIsCurrent
<1>1. IInv => WaiterHandleIsCurrent
  BY DEF IInv
<1> QED BY <1>1, InitIInv, NextIInv, PTL DEF Spec

\* A task is linked on at most one pend list, exactly while it is pending.
THEOREM LinkedIffPending == Spec => []PendingOnOneList
<1>1. IInv => PendingOnOneList
  BY DEF IInv
<1> QED BY <1>1, InitIInv, NextIInv, PTL DEF Spec

\* OsSemCreate and LOS_SemDelete neither lose a control block nor hand one out twice.
THEOREM PoolIntegrity == Spec => []PoolConserved
<1>1. IInv => PoolConserved
  BY DEF IInv
<1> QED BY <1>1, InitIInv, NextIInv, PTL DEF Spec

-----------------------------------------------------------------------------
(***************************************************************************)
(* LosSem implements AbsSem.  A token is stored in semCount or is in the   *)
(* hands of a woken task.  A task may hold it after its semaphore has been *)
(* deleted, so the mapping needs one more invariant: the handle of a woken *)
(* task is current or was deleted, never one that is still to be created.  *)
(***************************************************************************)
WokenHandleSeen ==
    \A t \in Tasks : taskStatus[t] = "WOKEN" =>
        IsValid(semHandle[t]) \/ semHandle[t][1] < semGen[semHandle[t][2]]

LEMMA NextWokenHandleSeen == IInv /\ WokenHandleSeen /\ [Next]_vars => WokenHandleSeen'
<1> SUFFICES ASSUME IInv, WokenHandleSeen, [Next]_vars PROVE WokenHandleSeen'
  OBVIOUS
<1> USE DEF WokenHandleSeen, IsValid, SemID
<1>0. TypeOK /\ \A t \in Tasks : /\ semHandle[t] \in SemIDs /\ semHandle[t][2] \in Sems
                                 /\ semHandle[t] = <<semHandle[t][1], semHandle[t][2]>>
                                 /\ semHandle[t][1] \in Nat
  BY HandleFacts DEF IInv, TypeOK
<1>1. CASE UNCHANGED vars
  BY <1>1 DEF vars
<1>2. ASSUME NEW h \in SemIDs, LOS_SemPost(h) PROVE WokenHandleSeen'
  <2>1. UNCHANGED <<semStat, semGen, semHandle>>
    BY <1>2 DEF LOS_SemPost
  <2>2. \A t \in Tasks : taskStatus'[t] = "WOKEN" =>
            taskStatus[t] = "WOKEN" \/ \E s \in Sems : t \in ToSet(semList[s])
    <3>1. h[2] \in Sems /\ semList[h[2]] \in Seq(Tasks)
      BY HandleFacts, <1>0 DEF TypeOK
    <3>2. semList[h[2]] # <<>> => Head(semList[h[2]]) \in ToSet(semList[h[2]])
      BY <3>1, TailList
    <3>3. CASE taskStatus' = taskStatus
      BY <3>3
    <3>4. CASE semList[h[2]] # <<>> /\ taskStatus' = HPFWake(Head(semList[h[2]]))
      <4>1. \A t \in Tasks : t # Head(semList[h[2]]) => taskStatus'[t] = taskStatus[t]
        BY <3>4, <1>0 DEF HPFWake, TypeOK
      <4> QED BY <4>1, <3>1, <3>2, <3>4
    <3> QED BY <1>2, <3>3, <3>4 DEF LOS_SemPost
  <2>3. \A t \in Tasks : (\E s \in Sems : t \in ToSet(semList[s])) => IsValid(semHandle[t])
    BY DEF IInv, WaiterHandleIsCurrent
  <2> QED BY <2>1, <2>2, <2>3
<1>3. ASSUME NEW t \in Tasks, OsSemCreateTake(t) PROVE WokenHandleSeen'
  BY <1>3 DEF OsSemCreateTake
<1>4. ASSUME NEW t \in Tasks, NEW count \in 0..OS_SEM_COUNT_MAX, NEW maxCount,
             OsSemCreateInit(t, count, maxCount)
      PROVE  WokenHandleSeen'
  BY <1>0, <1>4 DEF OsSemCreateInit, TypeOK
<1>5. ASSUME NEW t \in Tasks, NEW h \in SemIDs, LOS_SemDelete(t, h) PROVE WokenHandleSeen'
  <2>1. h[2] \in Sems /\ semGen[h[2]] \in Nat /\ taskStatus' = taskStatus /\ semHandle' = semHandle
    BY HandleFacts, <1>0, <1>5 DEF LOS_SemDelete, TypeOK
  <2>2. \A s \in Sems : IF s = h[2] THEN semGen'[s] = semGen[s] + 1
                                    ELSE semGen'[s] = semGen[s] /\ semStat'[s] = semStat[s]
    BY <2>1, <1>0, <1>5 DEF LOS_SemDelete, TypeOK
  <2>3. SUFFICES ASSUME NEW u \in Tasks, taskStatus[u] = "WOKEN"
                 PROVE  (IsValid(semHandle[u]) \/ semHandle[u][1] < semGen[semHandle[u][2]])'
    BY <2>1
  <2>4. PICK gen \in Nat, s \in Sems : semHandle[u] = <<gen, s>>
    BY <1>0
  <2>5. IsValid(<<gen, s>>) \/ gen < semGen[s]
    BY <2>3, <2>4
  <2>6. semGen[s] \in Nat /\ (IsValid(<<gen, s>>) => gen = semGen[s])
    BY <1>0 DEF TypeOK
  <2>7. IsValid(<<gen, s>>)' \/ gen < semGen'[s]
    BY <2>2, <2>5, <2>6
  <2> QED BY <2>1, <2>4, <2>7
<1>6. ASSUME NEW t \in Tasks, NEW h \in SemIDs, NEW timeout \in Timeouts, LOS_SemPend(t, h, timeout)
      PROVE  WokenHandleSeen'
  <2>1. /\ taskStatus'[t] # "WOKEN"
        /\ \A u \in Tasks : u # t => taskStatus'[u] = taskStatus[u] /\ semHandle'[u] = semHandle[u]
        /\ UNCHANGED <<semStat, semGen>>
    BY <1>0, <1>6 DEF LOS_SemPend, HPFWait, Running, TypeOK
  <2> QED BY <2>1
<1>7. ASSUME NEW t \in Tasks, SemPendReturn(t) \/ SemTimeout(t) \/ LOS_TaskDelete(t)
      PROVE  WokenHandleSeen'
  <2>1. /\ \A u \in Tasks : taskStatus'[u] = "WOKEN" => taskStatus[u] = "WOKEN"
        /\ UNCHANGED <<semStat, semGen, semHandle>>
    BY <1>0, <1>7
    DEF SemPendReturn, SemTimeout, LOS_TaskDelete, HPFWaitReturn, SchedTimeoutTaskWake, TypeOK
  <2> QED BY <2>1
<1> QED BY <1>1, <1>2, <1>3, <1>4, <1>5, <1>6, <1>7 DEF Next

\* The invariant of the refinement.
RInv == IInv /\ WokenHandleSeen

\* The tokens of a handle: a number exactly when the handle is valid.
LEMMA TokenFacts ==
    ASSUME TypeOK, NEW h \in SemIDs
    PROVE  /\ IsFiniteSet(Woken(h)) /\ Cardinality(Woken(h)) \in Nat
           /\ semCount[h[2]] \in Nat
           /\ IsValid(h) => Tokens[h] = semCount[h[2]] + Cardinality(Woken(h)) /\ Tokens[h] # Dead
           /\ ~IsValid(h) => Tokens[h] = Dead
<1>1. IsFiniteSet(Woken(h)) /\ Cardinality(Woken(h)) \in Nat
  BY SemAssumption, FS_Subset, FS_CardinalityType DEF Woken
<1>2. semCount[h[2]] \in Nat
  BY HandleFacts, SemAssumption DEF TypeOK
<1> QED BY <1>1, <1>2 DEF Tokens, Dead

\* A step that changes the tokens of no handle but h.
LEMMA OneHandle ==
    ASSUME NEW h \in SemIDs,
           \A g \in SemIDs : g # h => Tokens'[g] = Tokens[g]
    PROVE  Tokens' = [Tokens EXCEPT ![h] = Tokens'[h]]
BY DEF Tokens

LEMMA SameTokens ==
    ASSUME \A g \in SemIDs : Tokens'[g] = Tokens[g]
    PROVE  Tokens' = Tokens
BY DEF Tokens

\* A handle whose control block, stored count and woken tasks a step leaves alone keeps
\* its tokens.
LEMMA KeepsTokens ==
    ASSUME NEW g \in SemIDs,
           semStat'[g[2]] = semStat[g[2]], semGen'[g[2]] = semGen[g[2]],
           semCount'[g[2]] = semCount[g[2]], Woken(g)' = Woken(g)
    PROVE  Tokens'[g] = Tokens[g]
<1>1. IsValid(g)' = IsValid(g)
  BY DEF IsValid, SemID
<1> QED BY <1>1 DEF Tokens

\* A woken task that leaves LOS_SemPend, or is deleted in it, takes its token with it:
\* the successful pend of AbsSem, unless the semaphore is gone.
LEMMA ConsumeRefines ==
    ASSUME RInv, RInv', NEW t \in Tasks, NEW status \in {"RUN", "UNUSED"},
           taskStatus' = [taskStatus EXCEPT ![t] = status],
           UNCHANGED <<semStat, semCount, semGen, semHandle>>
    PROVE  Abs!Next \/ Tokens' = Tokens
<1>0. TypeOK /\ TypeOK'
  BY DEF RInv, IInv
<1> DEFINE h == semHandle[t]
<1>1. h \in SemIDs
  BY <1>0 DEF TypeOK
<1>2. ASSUME NEW g \in SemIDs, g # h \/ taskStatus[t] # "WOKEN" PROVE Tokens'[g] = Tokens[g]
  <2>1. Woken(g)' = Woken(g)
    BY <1>0, <1>2 DEF Woken, TypeOK
  <2> QED BY <2>1, KeepsTokens
<1>3. CASE taskStatus[t] # "WOKEN"
  BY <1>2, <1>3, SameTokens
<1>4. CASE taskStatus[t] = "WOKEN" /\ ~IsValid(h)
  <2>1. ~IsValid(h)'
    BY <1>1, <1>4 DEF IsValid, SemID
  <2>2. Tokens'[h] = Tokens[h]
    BY <1>1, <1>4, <2>1 DEF Tokens
  <2> QED BY <1>2, <2>2, SameTokens
<1>5. CASE taskStatus[t] = "WOKEN" /\ IsValid(h)
  <2>1. t \in Woken(h) /\ Woken(h)' = Woken(h) \ {t}
    BY <1>0, <1>5 DEF Woken, TypeOK
  <2>2. /\ IsFiniteSet(Woken(h)) /\ Cardinality(Woken(h)) \in Nat /\ semCount[h[2]] \in Nat
        /\ Tokens[h] = semCount[h[2]] + Cardinality(Woken(h)) /\ Tokens[h] # Dead
    BY <1>0, <1>1, <1>5, TokenFacts
  <2>3. Cardinality(Woken(h)') = Cardinality(Woken(h)) - 1
    BY <2>1, <2>2, FS_RemoveElement
  <2>4. Cardinality(Woken(h)) > 0
    BY <2>1, <2>2, FS_EmptySet
  <2>5. IsValid(h)'
    BY <1>5 DEF IsValid, SemID
  <2>6. Tokens'[h] = semCount[h[2]] + Cardinality(Woken(h)')
    BY <1>1, <2>5 DEF Tokens
  <2>7. Tokens'[h] = Tokens[h] - 1 /\ Tokens[h] > 0
    BY <2>2, <2>3, <2>4, <2>6
  <2>8. Tokens' = [Tokens EXCEPT ![h] = Tokens[h] - 1]
    BY <1>1, <1>2, <2>7, OneHandle
  <2>9. Abs!Pend(h)
    BY <2>2, <2>7, <2>8 DEF Abs!Pend, Abs!Live
  <2> QED BY <1>1, <2>9 DEF Abs!Next
<1> QED BY <1>3, <1>4, <1>5

LEMMA PostRefines ==
    ASSUME RInv, RInv', NEW h \in SemIDs, LOS_SemPost(h)
    PROVE  Abs!Post(h)
<1>0. TypeOK /\ TypeOK' /\ h[2] \in Sems
  BY HandleFacts DEF RInv, IInv
<1> DEFINE s == h[2]
<1>1. IsValid(h) /\ IsValid(h)' /\ UNCHANGED <<semStat, semGen, semHandle>>
  BY DEF LOS_SemPost, IsValid, SemID
<1>2. /\ IsFiniteSet(Woken(h)) /\ Cardinality(Woken(h)) \in Nat /\ semCount[s] \in Nat
      /\ Tokens[h] = semCount[s] + Cardinality(Woken(h)) /\ Tokens[h] # Dead
  BY <1>0, <1>1, TokenFacts
<1>3. Tokens'[h] = semCount'[s] + Cardinality(Woken(h)')
  BY <1>1 DEF Tokens
<1>4. Tokens'[h] = Tokens[h] + 1 /\ \A g \in SemIDs : g # h => Tokens'[g] = Tokens[g]
  <2>1. CASE /\ semList[s] # <<>>
             /\ taskStatus' = HPFWake(Head(semList[s]))
             /\ UNCHANGED semCount
    <3> DEFINE w == Head(semList[s])
    <3>1. w \in Tasks /\ w \in ToSet(semList[s])
      BY <1>0, <2>1, TailList DEF TypeOK
    <3>2. IsValid(semHandle[w]) /\ semHandle[w][2] = s /\ semHandle[w] \in SemIDs
      BY <3>1, <1>0 DEF RInv, IInv, WaiterHandleIsCurrent, TypeOK
    <3>3. semHandle[w] = h
      BY <1>1, <3>2 DEF IsValid
    <3>4. IsPending(w)
      BY <1>0, <3>1 DEF RInv, IInv, PendingOnOneList
    <3>5. taskStatus[w] # "WOKEN"
      BY <3>4 DEF IsPending
    <3>6. taskStatus' = [taskStatus EXCEPT ![w] = "WOKEN"]
      BY <2>1 DEF HPFWake
    <3> HIDE DEF w
    <3>7. w \notin Woken(h) /\ Woken(h)' = Woken(h) \cup {w}
      BY <1>0, <1>1, <3>1, <3>3, <3>5, <3>6 DEF Woken, TypeOK
    <3>8. Cardinality(Woken(h)') = Cardinality(Woken(h)) + 1
      BY <3>7, <1>2, FS_AddElement
    <3>9. ASSUME NEW g \in SemIDs, g # h PROVE Tokens'[g] = Tokens[g]
      <4>1. Woken(g)' = Woken(g)
        BY <1>0, <1>1, <3>1, <3>3, <3>6, <3>9 DEF Woken, TypeOK
      <4> QED BY <4>1, <1>1, <2>1, KeepsTokens
    <3> QED BY <1>2, <1>3, <2>1, <3>8, <3>9
  <2>2. CASE /\ semCount' = [semCount EXCEPT ![s] = @ + 1]
             /\ UNCHANGED taskStatus
    <3>1. \A g \in SemIDs : Woken(g)' = Woken(g)
      BY <1>1, <2>2 DEF Woken
    <3>2. semCount'[s] = semCount[s] + 1
      BY <1>0, <2>2 DEF TypeOK
    <3>3. ASSUME NEW g \in SemIDs, g # h PROVE Tokens'[g] = Tokens[g]
      <4>1. CASE g[2] = s
        <5>1. ~IsValid(g) /\ ~IsValid(g)'
          BY <1>1, <3>3, <4>1 DEF IsValid, SemID
        <5> QED BY <5>1 DEF Tokens
      <4>2. CASE g[2] # s
        <5>1. semCount'[g[2]] = semCount[g[2]]
          BY <1>0, <2>2, <4>2, HandleFacts DEF TypeOK
        <5> QED BY <5>1, <3>1, <1>1, KeepsTokens
      <4> QED BY <4>1, <4>2
    <3> QED BY <1>2, <1>3, <3>1, <3>2, <3>3
  <2> QED BY <2>1, <2>2 DEF LOS_SemPost
<1>5. Tokens' = [Tokens EXCEPT ![h] = Tokens[h] + 1]
  BY <1>4, OneHandle
<1> QED BY <1>2, <1>5 DEF Abs!Post, Abs!Live

LEMMA PendRefines ==
    ASSUME RInv, RInv', NEW t \in Tasks, NEW h \in SemIDs, NEW timeout \in Timeouts,
           LOS_SemPend(t, h, timeout)
    PROVE  Abs!Pend(h) \/ Tokens' = Tokens
<1>0. TypeOK /\ TypeOK' /\ h[2] \in Sems
  BY HandleFacts DEF RInv, IInv
<1> DEFINE s == h[2]
<1>1. /\ IsValid(h) /\ IsValid(h)' /\ UNCHANGED <<semStat, semGen>>
      /\ taskStatus[t] = "RUN" /\ semHandle' = [semHandle EXCEPT ![t] = h]
  BY DEF LOS_SemPend, IsValid, SemID, Running
<1>2. \A g \in SemIDs : Woken(g)' = Woken(g)
  <2>1. /\ taskStatus[t] # "WOKEN" /\ taskStatus'[t] # "WOKEN"
        /\ \A u \in Tasks : u # t => taskStatus'[u] = taskStatus[u] /\ semHandle'[u] = semHandle[u]
    BY <1>0, <1>1 DEF LOS_SemPend, HPFWait, TypeOK
  <2> QED BY <2>1 DEF Woken
<1>3. CASE semCount' = semCount
  BY <1>1, <1>2, <1>3, KeepsTokens, SameTokens
<1>4. CASE semCount[s] > 0 /\ semCount' = [semCount EXCEPT ![s] = @ - 1]
  <2>1. /\ Cardinality(Woken(h)) \in Nat /\ semCount[s] \in Nat
        /\ Tokens[h] = semCount[s] + Cardinality(Woken(h)) /\ Tokens[h] # Dead
    BY <1>0, <1>1, TokenFacts
  <2>2. Tokens'[h] = semCount'[s] + Cardinality(Woken(h))
    BY <1>1, <1>2 DEF Tokens
  <2>3. semCount'[s] = semCount[s] - 1
    BY <1>0, <1>4 DEF TypeOK
  <2>4. Tokens[h] > 0 /\ Tokens'[h] = Tokens[h] - 1
    BY <2>1, <2>2, <2>3, <1>4
  <2>5. ASSUME NEW g \in SemIDs, g # h PROVE Tokens'[g] = Tokens[g]
    <3>1. CASE g[2] = s
      <4>1. ~IsValid(g) /\ ~IsValid(g)'
        BY <1>1, <2>5, <3>1 DEF IsValid, SemID
      <4> QED BY <4>1 DEF Tokens
    <3>2. CASE g[2] # s
      <4>1. semCount'[g[2]] = semCount[g[2]]
        BY <1>0, <1>4, <3>2, HandleFacts DEF TypeOK
      <4> QED BY <4>1, <1>1, <1>2, KeepsTokens
    <3> QED BY <3>1, <3>2
  <2>6. Tokens' = [Tokens EXCEPT ![h] = Tokens[h] - 1]
    BY <2>4, <2>5, OneHandle
  <2> QED BY <2>1, <2>4, <2>6 DEF Abs!Pend, Abs!Live
<1> QED BY <1>3, <1>4 DEF LOS_SemPend

LEMMA DeleteRefines ==
    ASSUME RInv, RInv', NEW t \in Tasks, NEW h \in SemIDs, LOS_SemDelete(t, h)
    PROVE  Abs!Destroy(h)
<1>0. TypeOK /\ TypeOK' /\ h[2] \in Sems
  BY HandleFacts DEF RInv, IInv
<1> DEFINE s == h[2]
<1>1. /\ IsValid(h) /\ UNCHANGED <<semCount, taskStatus, semHandle>>
      /\ semStat'[s] = "UNUSED"
      /\ \A r \in Sems : r # s => semStat'[r] = semStat[r] /\ semGen'[r] = semGen[r]
  BY <1>0 DEF LOS_SemDelete, TypeOK
<1>2. Tokens[h] # Dead
  BY <1>0, <1>1, TokenFacts
<1>3. Tokens'[h] = Dead
  BY <1>1 DEF IsValid, Tokens
<1>4. ASSUME NEW g \in SemIDs, g # h PROVE Tokens'[g] = Tokens[g]
  <2>1. CASE g[2] = s
    <3>1. ~IsValid(g) /\ ~IsValid(g)'
      BY <1>1, <1>4, <2>1 DEF IsValid, SemID
    <3> QED BY <3>1 DEF Tokens
  <2>2. CASE g[2] # s
    <3>1. Woken(g)' = Woken(g) /\ g[2] \in Sems
      BY <1>1, HandleFacts DEF Woken
    <3> QED BY <3>1, <2>2, <1>1, KeepsTokens
  <2> QED BY <2>1, <2>2
<1>5. Tokens' = [Tokens EXCEPT ![h] = Dead]
  BY <1>3, <1>4, OneHandle
<1> QED BY <1>2, <1>5 DEF Abs!Destroy, Abs!Live

\* The handle a creation publishes was not valid before, and no woken task holds it.
LEMMA CreateRefines ==
    ASSUME RInv, RInv', NEW t \in Tasks, NEW count \in 0..OS_SEM_COUNT_MAX, NEW maxCount,
           OsSemCreateInit(t, count, maxCount)
    PROVE  Abs!Next
<1>0. TypeOK /\ TypeOK'
  BY DEF RInv, IInv
<1>s. PICK s \in Sems : s = creating[t]
  BY <1>0 DEF OsSemCreateInit, TypeOK
<1>h. PICK h \in SemIDs : h = <<semGen[s], s>>
  BY <1>0 DEF TypeOK, SemIDs
<1>1. s \in Sems /\ h \in SemIDs /\ h[1] = semGen[s] /\ h[2] = s
  BY <1>h
<1>2. /\ semStat[s] # "USED" /\ semStat'[s] = "USED" /\ semCount'[s] = count
      /\ \A r \in Sems : r # s => semStat'[r] = semStat[r] /\ semCount'[r] = semCount[r]
      /\ UNCHANGED <<semGen, taskStatus, semHandle>>
  BY <1>0, <1>s DEF OsSemCreateInit, TypeOK, RInv, IInv, PoolConserved
<1>3. ~IsValid(h) /\ IsValid(h)'
  BY <1>1, <1>2, <1>h DEF IsValid, SemID
<1>4. Tokens[h] = Dead
  BY <1>1, <1>3 DEF Tokens
<1>5. Woken(h)' = {}
  <2>1. SUFFICES ASSUME NEW u \in Tasks, taskStatus[u] = "WOKEN", semHandle[u] = h PROVE FALSE
    BY <1>2 DEF Woken
  <2>2. h[1] < semGen[h[2]]
    BY <2>1, <1>3 DEF RInv, WokenHandleSeen
  <2>3. semGen[s] \in Nat
    BY <1>0, <1>1 DEF TypeOK
  <2> QED BY <2>2, <2>3, <1>1
<1>6. Tokens'[h] = count
  BY <1>1, <1>2, <1>3, <1>5, FS_EmptySet DEF Tokens
<1>7. ASSUME NEW g \in SemIDs, g # h PROVE Tokens'[g] = Tokens[g]
  <2>1. CASE g[2] = s
    <3>1. ~IsValid(g) /\ ~IsValid(g)'
      BY <1>2, <1>7, <1>h, <2>1 DEF IsValid, SemID
    <3> QED BY <3>1 DEF Tokens
  <2>2. CASE g[2] # s
    <3>1. Woken(g)' = Woken(g) /\ g[2] \in Sems
      BY <1>2, HandleFacts DEF Woken
    <3> QED BY <3>1, <2>2, <1>2, KeepsTokens
  <2> QED BY <2>1, <2>2
<1>8. Tokens' = [Tokens EXCEPT ![h] = count]
  BY <1>1, <1>6, <1>7, OneHandle
<1>9. Abs!Create(h, count)
  BY <1>4, <1>8 DEF Abs!Create, Abs!Live
<1> QED BY <1>1, <1>9 DEF Abs!Next

LEMMA NextRefines == RInv /\ RInv' /\ [Next]_vars => [Abs!Next]_Tokens
<1> SUFFICES ASSUME RInv, RInv', [Next]_vars PROVE Abs!Next \/ Tokens' = Tokens
  OBVIOUS
<1>1. ASSUME UNCHANGED <<taskStatus, semStat, semCount, semGen, semHandle>> PROVE Tokens' = Tokens
  <2>1. \A g \in SemIDs : Woken(g)' = Woken(g)
    BY <1>1 DEF Woken
  <2> QED BY <1>1, <2>1, KeepsTokens, SameTokens
<1>2. ASSUME NEW t \in Tasks, SemTimeout(t) PROVE Tokens' = Tokens
  <2>1. \A g \in SemIDs : Woken(g)' = Woken(g)
    BY <1>2 DEF SemTimeout, SchedTimeoutTaskWake, Woken, RInv, IInv, TypeOK
  <2> QED BY <1>2, <2>1, KeepsTokens, SameTokens DEF SemTimeout
<1>3. ASSUME NEW t \in Tasks, SemPendReturn(t) PROVE Abs!Next \/ Tokens' = Tokens
  BY <1>3, ConsumeRefines DEF SemPendReturn, HPFWaitReturn
<1>4. ASSUME NEW t \in Tasks, LOS_TaskDelete(t) PROVE Abs!Next \/ Tokens' = Tokens
  BY <1>4, ConsumeRefines DEF LOS_TaskDelete
<1>5. ASSUME NEW t \in Tasks, OsSemCreateTake(t) PROVE Tokens' = Tokens
  BY <1>5, <1>1 DEF OsSemCreateTake
<1>6. UNCHANGED vars => Tokens' = Tokens
  BY <1>1 DEF vars
<1> QED
  <2>1. ASSUME NEW h \in SemIDs, Abs!Post(h) \/ Abs!Pend(h) \/ Abs!Destroy(h) PROVE Abs!Next
    BY <2>1 DEF Abs!Next
  <2> QED BY <1>2, <1>3, <1>4, <1>5, <1>6, <2>1, PostRefines, PendRefines, DeleteRefines,
             CreateRefines DEF Next

\* The pool of control blocks with direct hand-off implements plain counting semaphores:
\* a post is seen by one successful pend at most, on the handle it was made to, whatever
\* timeouts, deletions and reuse of control blocks come between.
THEOREM Refinement == Spec => ImplementsSemaphore
<1>1. Init => RInv /\ Abs!Init
  <2> SUFFICES ASSUME Init PROVE WokenHandleSeen /\ Abs!Init
    BY InitIInv DEF RInv
  <2>1. WokenHandleSeen
    BY DEF Init, WokenHandleSeen
  <2>2. \A h \in SemIDs : ~IsValid(h)
    BY HandleFacts DEF Init, IsValid
  <2>3. Abs!Init
    BY <2>2 DEF Tokens, Abs!Init
  <2> QED BY <2>1, <2>3
<1>2. RInv /\ [Next]_vars => RInv'
  BY NextIInv, NextWokenHandleSeen DEF RInv
<1> QED BY <1>1, <1>2, NextRefines, PTL DEF Spec, ImplementsSemaphore, Abs!Spec

=============================================================================

--------------------------- MODULE LosSched_proofs ---------------------------
(***************************************************************************)
(* Proofs about LosSched, for any tasks, CPUs and priorities: types, that  *)
(* no ready task is lost to the scheduler and, where no task is suspended  *)
(* before it is started, that the run queue is exact, that the task of the *)
(* highest priority is on top, that a bounded wait has a timeout and that  *)
(* a wait reports success only after a wake up.                            *)
(***************************************************************************)
EXTENDS LosSched, LosListLemmas, FiniteSetTheorems

-----------------------------------------------------------------------------
(* The run queue                                                            *)

\* PriQueHeadInsert and PriQueTailInsert keep the run queue well formed, and every list
\* that is not empty can still be found through the bitmaps.
LEMMA InsertKeepsQueue ==
    ASSUME NEW rq \in RunQueues, NEW t \in Tasks, NEW b \in BasePrios, NEW p \in Prios,
           NEW atHead \in BOOLEAN
    PROVE  /\ PriQueInsert(rq, t, b, p, atHead) \in RunQueues
           /\ Findable(rq) => Findable(PriQueInsert(rq, t, b, p, atHead))
<1> DEFINE new == PriQueInsert(rq, t, b, p, atHead)
           list == rq.priQueList[b][p]
           longer == IF atHead THEN <<t>> \o list ELSE Append(list, t)
<1>1. /\ rq.queueBitmap \subseteq BasePrios
      /\ rq.bitmap \in [BasePrios -> SUBSET Prios]
      /\ rq.priQueList \in [BasePrios -> [Prios -> Seq(Tasks)]]
      /\ rq.readyTasks \in [BasePrios -> [Prios -> 0 .. UINT32_SIZE - 1]]
  BY DEF RunQueues
<1>2. list \in Seq(Tasks)
  BY <1>1
<1>3. longer \in Seq(Tasks)
  <2>1. <<t>> \in Seq(Tasks)
    OBVIOUS
  <2> QED
    BY <1>2, <2>1, ConcatList, AppendList
<1>4. /\ new.queueBitmap = IF rq.bitmap[b] = {} THEN rq.queueBitmap \cup {b} ELSE rq.queueBitmap
      /\ new.bitmap = IF list = <<>> THEN [rq.bitmap EXCEPT ![b] = @ \cup {p}] ELSE rq.bitmap
      /\ new.priQueList = [rq.priQueList EXCEPT ![b][p] = longer]
      /\ new.readyTasks = [rq.readyTasks EXCEPT ![b][p] = (@ + 1) % UINT32_SIZE]
  BY DEF PriQueInsert
<1>5. new = [queueBitmap |-> new.queueBitmap, bitmap |-> new.bitmap,
             priQueList |-> new.priQueList, readyTasks |-> new.readyTasks]
  BY DEF PriQueInsert
<1> HIDE DEF new, longer, list
<1>6. new.queueBitmap \subseteq BasePrios /\ new.bitmap \in [BasePrios -> SUBSET Prios]
  BY <1>1, <1>4
<1>7. new.priQueList \in [BasePrios -> [Prios -> Seq(Tasks)]]
  BY <1>1, <1>3, <1>4
<1>8. new.readyTasks \in [BasePrios -> [Prios -> 0 .. UINT32_SIZE - 1]]
  <2>1. UINT32_SIZE \in Nat \ {0} /\ rq.readyTasks[b][p] \in 0 .. UINT32_SIZE - 1
    BY <1>1, SchedAssumption
  <2>2. (rq.readyTasks[b][p] + 1) % UINT32_SIZE \in 0 .. UINT32_SIZE - 1
    BY <2>1
  <2> QED
    BY <1>1, <1>4, <2>2
<1>9. ASSUME Findable(rq) PROVE Findable(new)
  <2> SUFFICES ASSUME NEW d \in BasePrios
               PROVE  /\ \A q \in Prios : new.priQueList[d][q] # <<>> => q \in new.bitmap[d]
                      /\ new.bitmap[d] # {} => d \in new.queueBitmap
    BY DEF Findable
  <2>1. /\ \A q \in Prios : rq.priQueList[d][q] # <<>> => q \in rq.bitmap[d]
        /\ rq.bitmap[d] # {} => d \in rq.queueBitmap
    BY <1>9 DEF Findable
  <2>2. ASSUME NEW q \in Prios, new.priQueList[d][q] # <<>> PROVE q \in new.bitmap[d]
    <3>1. CASE d = b /\ q = p
      BY <1>1, <1>4, <2>1, <3>1 DEF list
    <3>2. CASE ~(d = b /\ q = p)
      <4>1. new.priQueList[d][q] = rq.priQueList[d][q]
        BY <1>1, <1>4, <3>2
      <4>2. rq.bitmap[d] \subseteq new.bitmap[d]
        BY <1>1, <1>4
      <4> QED
        BY <2>1, <2>2, <4>1, <4>2
    <3> QED
      BY <3>1, <3>2
  <2>3. new.bitmap[d] # {} => d \in new.queueBitmap
    BY <1>1, <1>4, <2>1
  <2> QED
    BY <2>2, <2>3
<1> QED
  BY <1>5, <1>6, <1>7, <1>8, <1>9 DEF RunQueues, new

\* PriQueDelete does the same.  The list that the node is in need not be the list of the
\* priority that the bits are cleared for.
LEMMA DeleteKeepsQueue ==
    ASSUME NEW rq \in RunQueues, NEW t \in Tasks, NEW b \in BasePrios, NEW p \in Prios
    PROVE  /\ PriQueDelete(rq, t, b, p) \in RunQueues
           /\ Findable(rq) => Findable(PriQueDelete(rq, t, b, p))
<1> DEFINE new == PriQueDelete(rq, t, b, p)
           lists == [k \in BasePrios |-> [q \in Prios |-> LOS_ListDelete(rq.priQueList[k][q], t)]]
           bits == IF lists[b][p] = <<>> THEN rq.bitmap[b] \ {p} ELSE rq.bitmap[b]
<1>1. /\ rq.queueBitmap \subseteq BasePrios
      /\ rq.bitmap \in [BasePrios -> SUBSET Prios]
      /\ rq.priQueList \in [BasePrios -> [Prios -> Seq(Tasks)]]
      /\ rq.readyTasks \in [BasePrios -> [Prios -> 0 .. UINT32_SIZE - 1]]
  BY DEF RunQueues
<1>2. \A k \in BasePrios, q \in Prios :
          /\ lists[k][q] \in Seq(Tasks)
          /\ lists[k][q] # <<>> => rq.priQueList[k][q] # <<>>
  <2> SUFFICES ASSUME NEW k \in BasePrios, NEW q \in Prios
               PROVE  /\ LOS_ListDelete(rq.priQueList[k][q], t) \in Seq(Tasks)
                      /\ LOS_ListDelete(rq.priQueList[k][q], t) # <<>> => rq.priQueList[k][q] # <<>>
    OBVIOUS
  <2> DEFINE l == rq.priQueList[k][q]
  <2>1. l \in Seq(Tasks)
    BY <1>1
  <2> HIDE DEF l
  <2>2. /\ LOS_ListDelete(l, t) \in Seq(Tasks)
        /\ ToSet(LOS_ListDelete(l, t)) \subseteq ToSet(l)
    BY <2>1, DeleteList
  <2>3. l = <<>> <=> ToSet(l) = {}
    BY <2>1, ToSetIn
  <2>4. LOS_ListDelete(l, t) = <<>> <=> ToSet(LOS_ListDelete(l, t)) = {}
    BY <2>2, ToSetIn
  <2> QED
    BY <2>2, <2>3, <2>4 DEF l
<1>3. /\ new.queueBitmap = IF bits = {} THEN rq.queueBitmap \ {b} ELSE rq.queueBitmap
      /\ new.bitmap = [rq.bitmap EXCEPT ![b] = bits]
      /\ new.priQueList = lists
      /\ new.readyTasks = [rq.readyTasks EXCEPT ![b][p] = (@ + UINT32_SIZE - 1) % UINT32_SIZE]
  BY DEF PriQueDelete
<1>4. new = [queueBitmap |-> new.queueBitmap, bitmap |-> new.bitmap,
             priQueList |-> new.priQueList, readyTasks |-> new.readyTasks]
  BY DEF PriQueDelete
<1>5. lists \in [BasePrios -> [Prios -> Seq(Tasks)]]
  BY <1>2
<1>6. bits \subseteq rq.bitmap[b] /\ bits \in SUBSET Prios
  BY <1>1
<1>7. \A q \in Prios : q \in rq.bitmap[b] /\ lists[b][q] # <<>> => q \in bits
  OBVIOUS
<1> HIDE DEF new, lists, bits
<1>8. new.queueBitmap \subseteq BasePrios /\ new.bitmap \in [BasePrios -> SUBSET Prios]
  BY <1>1, <1>3, <1>6
<1>9. new.readyTasks \in [BasePrios -> [Prios -> 0 .. UINT32_SIZE - 1]]
  <2>1. UINT32_SIZE \in Nat \ {0} /\ rq.readyTasks[b][p] \in 0 .. UINT32_SIZE - 1
    BY <1>1, SchedAssumption
  <2>2. (rq.readyTasks[b][p] + UINT32_SIZE - 1) % UINT32_SIZE \in 0 .. UINT32_SIZE - 1
    BY <2>1
  <2> QED
    BY <1>1, <1>3, <2>2
<1>10. ASSUME Findable(rq) PROVE Findable(new)
  <2> SUFFICES ASSUME NEW d \in BasePrios
               PROVE  /\ \A q \in Prios : new.priQueList[d][q] # <<>> => q \in new.bitmap[d]
                      /\ new.bitmap[d] # {} => d \in new.queueBitmap
    BY DEF Findable
  <2>1. /\ \A q \in Prios : rq.priQueList[d][q] # <<>> => q \in rq.bitmap[d]
        /\ rq.bitmap[d] # {} => d \in rq.queueBitmap
    BY <1>10 DEF Findable
  <2>2. \A q \in Prios : lists[d][q] # <<>> => q \in rq.bitmap[d]
    BY <1>2, <2>1
  <2>3. CASE d = b
    BY <1>1, <1>3, <1>6, <1>7, <2>1, <2>2, <2>3
  <2>4. CASE d # b
    BY <1>1, <1>3, <2>1, <2>2, <2>4
  <2> QED
    BY <2>3, <2>4
<1> QED
  BY <1>3, <1>4, <1>5, <1>8, <1>9, <1>10 DEF RunQueues, new

LEMMA EnqueueKeepsQueue ==
    ASSUME TypeOK, NEW rq \in RunQueues, NEW t \in Tasks, NEW atHead \in BOOLEAN
    PROVE  /\ HPFEnqueue(rq, t, atHead) \in RunQueues
           /\ Findable(rq) => Findable(HPFEnqueue(rq, t, atHead))
<1>1. basePrio[t] \in BasePrios /\ priority[t] \in Prios
  BY DEF TypeOK
<1> QED
  BY <1>1, InsertKeepsQueue DEF HPFEnqueue

LEMMA DequeueKeepsQueue ==
    ASSUME TypeOK, NEW rq \in RunQueues, NEW st, NEW pr \in [Tasks -> Prios], NEW t \in Tasks
    PROVE  /\ HPFDequeue(rq, st, pr, t) \in RunQueues
           /\ Findable(rq) => Findable(HPFDequeue(rq, st, pr, t))
<1>1. basePrio[t] \in BasePrios /\ pr[t] \in Prios
  BY DEF TypeOK
<1> QED
  BY <1>1, DeleteKeepsQueue DEF HPFDequeue

LEMMA TopTaskIsTask ==
    ASSUME NEW rq \in RunQueues
    PROVE  TopTaskGet(rq) \subseteq Tasks \cup {Idle}
<1>1. \A s \in FoundLists(rq) : Head(rq.priQueList[s[1]][s[2]]) \in Tasks
  <2> SUFFICES ASSUME NEW s \in FoundLists(rq)
               PROVE  Head(rq.priQueList[s[1]][s[2]]) \in Tasks
    OBVIOUS
  <2>1. s[1] \in BasePrios /\ s[2] \in Prios /\ rq.priQueList[s[1]][s[2]] # <<>>
    BY DEF FoundLists
  <2>2. rq.priQueList[s[1]][s[2]] \in Seq(Tasks)
    BY <2>1 DEF RunQueues
  <2> QED
    BY <2>1, <2>2, TailList
<1> QED
  BY <1>1 DEF TopTaskGet

-----------------------------------------------------------------------------
(* Flags and timeouts                                                       *)

LEMMA FlagTypes ==
    ASSUME NEW st \in [Tasks -> SUBSET Flags], NEW t \in Tasks, NEW flags \in SUBSET Flags
    PROVE  /\ MakeReady(st, t) \in [Tasks -> SUBSET Flags]
           /\ With(st, t, flags) \in [Tasks -> SUBSET Flags]
           /\ Without(st, t, flags) \in [Tasks -> SUBSET Flags]
<1>1. (st[t] \ BLOCKED) \cup {"READY"} \in SUBSET Flags /\ st[t] \cup flags \in SUBSET Flags
  BY DEF Flags
<1> QED
  BY <1>1 DEF MakeReady, With, Without

LEMMA SwitchedFlagsType ==
    ASSUME NEW st \in [Tasks -> SUBSET Flags], NEW run, NEW new
    PROVE  SwitchedFlags(st, run, new) \in [Tasks -> SUBSET Flags]
<1>1. \A t \in Tasks : /\ (st[t] \ {"READY"}) \cup {"RUNNING"} \in SUBSET Flags
                       /\ st[t] \ {"RUNNING"} \in SUBSET Flags
  BY DEF Flags
<1> QED
  BY <1>1 DEF SwitchedFlags

TimeTypeOK ==
    /\ timeoutQueue \subseteq Tasks
    /\ responseTime \in [Tasks -> {"SET", "INVALID"}]
    /\ fault \in BOOLEAN

LEMMA TimeTypes ==
    ASSUME TimeTypeOK, NEW t \in Tasks, NEW pm \in BOOLEAN,
           \/ UNCHANGED timeVars
           \/ OsSchedTimeoutQueueAdd(t)
           \/ OsSchedTimeoutQueueDelete(t)
           \/ SchedTaskFreeze(t, pm)
    PROVE  TimeTypeOK'
<1>1. CASE UNCHANGED timeVars
  BY <1>1 DEF TimeTypeOK, timeVars
<1>2. CASE OsSchedTimeoutQueueAdd(t)
  BY <1>2 DEF TimeTypeOK, OsSchedTimeoutQueueAdd
<1>3. CASE OsSchedTimeoutQueueDelete(t)
  BY <1>3 DEF TimeTypeOK, OsSchedTimeoutQueueDelete, timeVars
<1>4. CASE SchedTaskFreeze(t, pm)
  BY <1>4 DEF TimeTypeOK, SchedTaskFreeze, timeVars
<1> QED
  BY <1>1, <1>2, <1>3, <1>4

-----------------------------------------------------------------------------
(* The invariant                                                            *)

QueueOK == g_schedHPF \in RunQueues /\ Findable(g_schedHPF)

PrioTypeOK ==
    /\ basePrio \in [Tasks -> BasePrios]
    /\ priority \in [Tasks -> Prios]
    /\ muxOwner \in Tasks \cup {NULL}
    /\ priBitmap \subseteq Prios
    /\ inherited \in 0 .. MaxInherited

RestTypeOK ==
    /\ taskStatus \in [Tasks -> SUBSET Flags]
    /\ currTask \in [Cpus -> Tasks \cup {Idle}]
    /\ pendList \in Seq(Tasks)
    /\ scanning \in [Cpus -> Tasks \cup {NULL}]
    /\ call \in [Tasks -> {"NONE", "WAIT", "GRANTED", "EXPIRED"}]

IInv == QueueOK /\ PrioTypeOK /\ TimeTypeOK /\ RestTypeOK

LEMMA IInvIs == IInv <=> TypeOK /\ ReadyIsFindable
BY DEF IInv, QueueOK, PrioTypeOK, TimeTypeOK, RestTypeOK, TypeOK, ReadyIsFindable

LEMMA ReschedTypes ==
    ASSUME IInv, NEW c \in Cpus, NEW rq \in RunQueues, Findable(rq),
           NEW st \in [Tasks -> SUBSET Flags], priority' \in [Tasks -> Prios],
           OsSchedResched(c, rq, st)
    PROVE  /\ QueueOK' /\ TimeTypeOK'
           /\ taskStatus' \in [Tasks -> SUBSET Flags]
           /\ currTask' \in [Cpus -> Tasks \cup {Idle}]
<1>1. PICK new \in TopTaskGet(rq) :
        /\ g_schedHPF' = IF new = Idle THEN rq ELSE HPFDequeue(rq, st, priority', new)
        /\ currTask' = [currTask EXCEPT ![c] = new]
        /\ taskStatus' = SwitchedFlags(st, currTask[c], new)
        /\ \/ currTask[c] # Idle /\ OsSchedTimeoutQueueAdd(currTask[c])
           \/ UNCHANGED timeVars
  BY DEF OsSchedResched
<1>2. new \in Tasks \cup {Idle} /\ currTask[c] \in Tasks \cup {Idle} /\ TypeOK
  BY TopTaskIsTask, IInvIs DEF IInv, RestTypeOK
<1>3. QueueOK'
  <2>1. CASE new = Idle
    BY <1>1, <2>1 DEF QueueOK, Findable
  <2>2. CASE new # Idle
    <3>1. g_schedHPF' = HPFDequeue(rq, st, priority', new) /\ new \in Tasks
      BY <1>1, <1>2, <2>2
    <3>2. g_schedHPF' \in RunQueues /\ Findable(HPFDequeue(rq, st, priority', new))
      BY <1>2, <3>1, DequeueKeepsQueue
    <3> QED
      BY <3>1, <3>2 DEF QueueOK, Findable
  <2> QED
    BY <2>1, <2>2
<1>4. TimeTypeOK'
  BY <1>1, <1>2, TimeTypes DEF IInv, TimeTypeOK, timeVars
<1>5. taskStatus' \in [Tasks -> SUBSET Flags]
  BY <1>1, SwitchedFlagsType
<1>6. currTask' \in [Cpus -> Tasks \cup {Idle}]
  BY <1>1, <1>2 DEF IInv, RestTypeOK
<1> QED
  BY <1>3, <1>4, <1>5, <1>6

\* The wait that the blocking operations end with.
LEMMA WaitTypes ==
    ASSUME IInv, NEW c \in Cpus, NEW t \in Tasks, NEW timed \in BOOLEAN,
           PrioTypeOK', HPFWait(c, t, timed)
    PROVE  IInv'
<1> DEFINE st == With(taskStatus, t, {"PENDING"} \cup IF timed THEN {"PEND_TIME"} ELSE {})
<1>1. st \in [Tasks -> SUBSET Flags]
  <2>1. {"PENDING"} \cup (IF timed THEN {"PEND_TIME"} ELSE {}) \in SUBSET Flags
    BY DEF Flags
  <2> QED
    BY <2>1, FlagTypes DEF IInv, RestTypeOK
<1>2. OsSchedResched(c, g_schedHPF, st) /\ priority' \in [Tasks -> Prios]
  BY DEF HPFWait, PrioTypeOK
<1> HIDE DEF st
<1>3. /\ QueueOK' /\ TimeTypeOK'
      /\ taskStatus' \in [Tasks -> SUBSET Flags]
      /\ currTask' \in [Cpus -> Tasks \cup {Idle}]
  BY <1>1, <1>2, ReschedTypes DEF IInv, QueueOK
<1>4. /\ pendList' \in Seq(Tasks)
      /\ scanning' \in [Cpus -> Tasks \cup {NULL}]
      /\ call' \in [Tasks -> {"NONE", "WAIT", "GRANTED", "EXPIRED"}]
  BY AppendList DEF HPFWait, IInv, RestTypeOK
<1> QED
  BY <1>3, <1>4 DEF IInv, RestTypeOK

\* A step that ends in OsSchedResched and changes no wait list.
LEMMA SwitchTypes ==
    ASSUME IInv, NEW c \in Cpus, NEW rq \in RunQueues, Findable(rq),
           NEW st \in [Tasks -> SUBSET Flags], PrioTypeOK',
           OsSchedResched(c, rq, st), UNCHANGED <<pendList, scanning, call>>
    PROVE  IInv'
<1>1. priority' \in [Tasks -> Prios]
  BY DEF PrioTypeOK
<1>2. /\ QueueOK' /\ TimeTypeOK'
      /\ taskStatus' \in [Tasks -> SUBSET Flags]
      /\ currTask' \in [Cpus -> Tasks \cup {Idle}]
  BY <1>1, ReschedTypes
<1> QED
  BY <1>2 DEF IInv, RestTypeOK

LEMMA PrioUnchanged == PrioTypeOK /\ UNCHANGED prioVars => PrioTypeOK'
BY DEF PrioTypeOK, prioVars

LEMMA InPlaceTypes ==
    ASSUME PrioTypeOK, NEW t, NEW p, CountInPlace(t, p)
    PROVE  inherited' \in 0 .. MaxInherited
BY SchedAssumption DEF PrioTypeOK, CountInPlace

LEMMA UnlockTypes ==
    ASSUME PrioTypeOK, NEW t \in Tasks, NEW p \in Prios,
           OsMuxUnlockUnsafe(t, p) \/ OsTaskReleaseHoldLock(t, p)
    PROVE  PrioTypeOK'
<1>1. CASE OsMuxUnlockUnsafe(t, p)
  <2>1. inherited' \in 0 .. MaxInherited
    BY <1>1, InPlaceTypes DEF OsMuxUnlockUnsafe
  <2> QED
    BY <1>1, <2>1 DEF PrioTypeOK, OsMuxUnlockUnsafe
<1>2. CASE UNCHANGED prioVars
  BY <1>2, PrioUnchanged
<1> QED
  BY <1>1, <1>2 DEF OsTaskReleaseHoldLock

-----------------------------------------------------------------------------
(* Every operation keeps the invariant                                      *)

\* Operations of a task that is created, scheduled, blocked or ended on CPU c.
LEMMA CpuStepKeeps ==
    ASSUME IInv, NEW c \in Cpus, NEW t \in Tasks, NEW p \in Prios,
           NEW atHead \in BOOLEAN, NEW timed \in BOOLEAN,
           \/ LOS_Schedule(c, atHead) \/ LOS_TaskYield(c, t) \/ LOS_TaskDelay(c, t)
           \/ OsTaskWait(c, t, timed) \/ OsMuxPendOp(c, t, timed)
           \/ SuspendSelf(c, t) \/ OsRunningTaskToExit(c, t, p)
    PROVE  IInv'
<1>1. /\ TypeOK /\ PrioTypeOK
      /\ g_schedHPF \in RunQueues /\ Findable(g_schedHPF)
      /\ taskStatus \in [Tasks -> SUBSET Flags]
      /\ currTask[c] \in Tasks \cup {Idle}
  BY IInvIs DEF IInv, QueueOK, RestTypeOK
<1>2. \A u \in Tasks : /\ HPFEnqueue(g_schedHPF, u, atHead) \in RunQueues
                       /\ Findable(HPFEnqueue(g_schedHPF, u, atHead))
                       /\ HPFEnqueue(g_schedHPF, u, FALSE) \in RunQueues
                       /\ Findable(HPFEnqueue(g_schedHPF, u, FALSE))
                       /\ MakeReady(taskStatus, u) \in [Tasks -> SUBSET Flags]
  BY <1>1, EnqueueKeepsQueue, FlagTypes
<1>3. /\ With(taskStatus, t, {"DELAY"}) \in [Tasks -> SUBSET Flags]
      /\ With(taskStatus, t, {"SUSPENDED"}) \in [Tasks -> SUBSET Flags]
      /\ With(taskStatus, t, {"UNUSED"}) \in [Tasks -> SUBSET Flags]
  <2>1. {"DELAY"} \in SUBSET Flags /\ {"SUSPENDED"} \in SUBSET Flags /\ {"UNUSED"} \in SUBSET Flags
    BY DEF Flags
  <2> QED
    BY <1>1, <2>1, FlagTypes
<1>4. CASE LOS_Schedule(c, atHead)
  <2>1. PrioTypeOK' /\ UNCHANGED <<pendList, scanning, call>>
    BY <1>1, <1>4, PrioUnchanged DEF LOS_Schedule
  <2>2. CASE currTask[c] = Idle
    BY <1>1, <1>4, <2>1, <2>2, SwitchTypes DEF LOS_Schedule
  <2>3. CASE currTask[c] # Idle
    BY <1>1, <1>2, <1>4, <2>1, <2>3, SwitchTypes DEF LOS_Schedule
  <2> QED
    BY <2>2, <2>3
<1>5. CASE LOS_TaskYield(c, t)
  BY <1>1, <1>2, <1>5, PrioUnchanged, SwitchTypes DEF LOS_TaskYield
<1>6. CASE LOS_TaskDelay(c, t)
  BY <1>1, <1>3, <1>6, PrioUnchanged, SwitchTypes DEF LOS_TaskDelay
<1>7. CASE OsTaskWait(c, t, timed)
  BY <1>1, <1>7, PrioUnchanged, WaitTypes DEF OsTaskWait
<1>8. CASE OsMuxPendOp(c, t, timed)
  <2>1. muxOwner \in Tasks
    BY <1>1, <1>8 DEF OsMuxPendOp, PrioTypeOK
  <2>2. inherited' \in 0 .. MaxInherited
    BY <1>1, <1>8, InPlaceTypes DEF OsMuxPendOp
  <2>3. PrioTypeOK'
    BY <1>1, <1>8, <2>1, <2>2 DEF OsMuxPendOp, PrioTypeOK
  <2> QED
    BY <1>8, <2>3, WaitTypes DEF OsMuxPendOp
<1>9. CASE SuspendSelf(c, t)
  BY <1>1, <1>3, <1>9, PrioUnchanged, SwitchTypes DEF SuspendSelf
<1>10. CASE OsRunningTaskToExit(c, t, p)
  BY <1>1, <1>3, <1>10, UnlockTypes, SwitchTypes DEF OsRunningTaskToExit
<1> QED
  BY <1>4, <1>5, <1>6, <1>7, <1>8, <1>9, <1>10

\* Operations on a task that is woken, resumed, timed out, moved or deleted.
LEMMA TaskStepKeeps ==
    ASSUME IInv, NEW t \in Tasks, NEW b \in BasePrios, NEW p \in Prios, NEW c \in Cpus,
           NEW atHead \in BOOLEAN, NEW expired \in BOOLEAN, NEW pm \in BOOLEAN,
           \/ LOS_TaskCreateOnly(t, b, p) \/ LOS_TaskCreate(t, b, p)
           \/ LOS_TaskSuspend(t, pm) \/ LOS_TaskResume(t, expired, atHead)
           \/ HPFWake(t, atHead) \/ SchedTimeoutTaskWake(c, t, atHead)
           \/ LOS_TaskPriSet(t, p, atHead) \/ LOS_TaskDelete(t, p)
    PROVE  IInv'
<1>1. /\ TypeOK /\ PrioTypeOK /\ TimeTypeOK
      /\ basePrio[t] \in BasePrios
      /\ priority \in [Tasks -> Prios]
      /\ g_schedHPF \in RunQueues /\ Findable(g_schedHPF)
      /\ taskStatus \in [Tasks -> SUBSET Flags]
      /\ currTask \in [Cpus -> Tasks \cup {Idle}]
      /\ pendList \in Seq(Tasks)
      /\ scanning \in [Cpus -> Tasks \cup {NULL}]
      /\ call \in [Tasks -> {"NONE", "WAIT", "GRANTED", "EXPIRED"}]
  BY IInvIs DEF IInv, QueueOK, RestTypeOK, PrioTypeOK
<1>2. /\ HPFEnqueue(g_schedHPF, t, atHead) \in RunQueues
      /\ Findable(HPFEnqueue(g_schedHPF, t, atHead))
  BY <1>1, EnqueueKeepsQueue
<1>3. LOS_ListDelete(pendList, t) \in Seq(Tasks)
  BY <1>1, DeleteList
<1>4. \A flags \in SUBSET Flags : LET st == Without(taskStatus, t, flags) IN
          st \in [Tasks -> SUBSET Flags] /\ MakeReady(st, t) \in [Tasks -> SUBSET Flags]
  BY <1>1, FlagTypes
<1>5. ASSUME NEW rq \in RunQueues, Findable(rq), g_schedHPF' = rq PROVE QueueOK'
  BY <1>5 DEF QueueOK, Findable
<1>6. CASE LOS_TaskCreateOnly(t, b, p)
  <2>1. {"INIT"} \in SUBSET Flags
    BY DEF Flags
  <2> QED
    BY <1>1, <1>5, <1>6, <2>1
    DEF LOS_TaskCreateOnly, IInv, PrioTypeOK, TimeTypeOK, RestTypeOK, timeVars
<1>7. CASE LOS_TaskCreate(t, b, p)
  <2>1. {"READY"} \in SUBSET Flags
    BY DEF Flags
  <2>2. QueueOK'
    BY <1>1, <1>5, <1>7, InsertKeepsQueue DEF LOS_TaskCreate
  <2> QED
    BY <1>1, <1>7, <2>1, <2>2
    DEF LOS_TaskCreate, IInv, PrioTypeOK, TimeTypeOK, RestTypeOK, timeVars
<1>8. CASE LOS_TaskSuspend(t, pm)
  <2>1. QueueOK'
    BY <1>1, <1>5, <1>8, DequeueKeepsQueue DEF LOS_TaskSuspend
  <2>2. TimeTypeOK'
    BY <1>1, <1>8, TimeTypes DEF LOS_TaskSuspend
  <2>3. taskStatus' \in [Tasks -> SUBSET Flags]
    <3>1. Without(taskStatus, t, {"READY"}) \in [Tasks -> SUBSET Flags]
      BY <1>4 DEF Flags
    <3>2. {"SUSPENDED", "FROZEN"} \in SUBSET Flags /\ {"SUSPENDED"} \in SUBSET Flags
      BY DEF Flags
    <3> QED
      BY <1>8, <3>1, <3>2, FlagTypes DEF LOS_TaskSuspend
  <2>4. PrioTypeOK'
    BY <1>1, <1>8, PrioUnchanged DEF LOS_TaskSuspend
  <2> QED
    BY <1>1, <1>8, <2>1, <2>2, <2>3, <2>4 DEF LOS_TaskSuspend, IInv, RestTypeOK
<1>9. CASE LOS_TaskResume(t, expired, atHead)
  <2> DEFINE ends == "FROZEN" \in taskStatus[t] /\ expired
             flags == {"SUSPENDED", "FROZEN"} \cup IF ends THEN BLOCKED ELSE {}
             st == Without(taskStatus, t, flags)
  <2>1. /\ SchedTaskUnfreeze(t, expired)
        /\ \/ taskStatus' = st /\ g_schedHPF' = g_schedHPF
           \/ /\ taskStatus' = MakeReady(st, t)
              /\ g_schedHPF' = HPFEnqueue(g_schedHPF, t, atHead)
        /\ call' = [call EXCEPT ![t] = IF ends /\ @ = "WAIT" THEN "EXPIRED" ELSE @]
        /\ UNCHANGED <<prioVars, currTask, scanning>>
    BY <1>9 DEF LOS_TaskResume
  <2>2. flags \in SUBSET Flags
    BY DEF Flags, BLOCKED
  <2> HIDE DEF flags, ends
  <2>3. st \in [Tasks -> SUBSET Flags] /\ MakeReady(st, t) \in [Tasks -> SUBSET Flags]
    BY <1>4, <2>2
  <2> HIDE DEF st
  <2>4. QueueOK'
    BY <1>1, <1>2, <1>5, <2>1
  <2>5. TimeTypeOK' /\ pendList' \in Seq(Tasks)
    <3>1. CASE UNCHANGED timeVars /\ UNCHANGED pendList
      BY <1>1, <3>1 DEF TimeTypeOK, timeVars
    <3>2. CASE /\ fault' = (t \in timeoutQueue)
               /\ timeoutQueue' = timeoutQueue \cup {t}
               /\ UNCHANGED <<responseTime, pendList>>
      BY <1>1, <3>2 DEF TimeTypeOK
    <3>3. CASE /\ responseTime' = [responseTime EXCEPT ![t] = "INVALID"]
               /\ pendList' = LOS_ListDelete(pendList, t)
               /\ UNCHANGED <<timeoutQueue, fault>>
      BY <1>1, <1>3, <3>3 DEF TimeTypeOK
    <3> QED
      BY <2>1, <3>1, <3>2, <3>3 DEF SchedTaskUnfreeze
  <2>6. call' \in [Tasks -> {"NONE", "WAIT", "GRANTED", "EXPIRED"}]
    BY <1>1, <2>1
  <2>7. PrioTypeOK'
    BY <1>1, <2>1, PrioUnchanged
  <2> QED
    BY <1>1, <2>1, <2>3, <2>4, <2>5, <2>6, <2>7 DEF IInv, RestTypeOK
<1>10. CASE HPFWake(t, atHead)
  <2> DEFINE st == Without(taskStatus, t, {"PENDING", "PEND_TIME"})
  <2>1. st \in [Tasks -> SUBSET Flags] /\ MakeReady(st, t) \in [Tasks -> SUBSET Flags]
    BY <1>4 DEF Flags
  <2>2. /\ \/ taskStatus' = st /\ g_schedHPF' = g_schedHPF
           \/ /\ taskStatus' = MakeReady(st, t)
              /\ g_schedHPF' = HPFEnqueue(g_schedHPF, t, atHead)
        /\ pendList' = LOS_ListDelete(pendList, t)
        /\ call' = [call EXCEPT ![t] = "GRANTED"]
        /\ UNCHANGED <<prioVars, currTask, scanning>>
        /\ OsSchedTimeoutQueueDelete(t) \/ UNCHANGED timeVars
    BY <1>10 DEF HPFWake
  <2> HIDE DEF st
  <2>3. QueueOK'
    BY <1>1, <1>2, <1>5, <2>2
  <2>4. TimeTypeOK' /\ PrioTypeOK'
    BY <1>1, <2>2, TimeTypes, PrioUnchanged
  <2> QED
    BY <1>1, <1>3, <2>1, <2>2, <2>3, <2>4 DEF IInv, RestTypeOK
<1>11. CASE SchedTimeoutTaskWake(c, t, atHead)
  <2> DEFINE st == TimedOutFlags(taskStatus, t)
  <2>1. st \in [Tasks -> SUBSET Flags] /\ MakeReady(st, t) \in [Tasks -> SUBSET Flags]
    <3>1. {"TIMEOUT"} \in SUBSET Flags /\ {} \in SUBSET Flags
          /\ {"PENDING", "PEND_TIME", "DELAY"} \in SUBSET Flags
      BY DEF Flags
    <3>2. With(taskStatus, t, IF "PEND_TIME" \in taskStatus[t] THEN {"TIMEOUT"} ELSE {})
             \in [Tasks -> SUBSET Flags]
      BY <1>1, <3>1, FlagTypes
    <3>3. st \in [Tasks -> SUBSET Flags]
      BY <3>1, <3>2, FlagTypes DEF TimedOutFlags
    <3> HIDE DEF st
    <3> QED
      BY <3>1, <3>3, FlagTypes
  <2>2. /\ \/ taskStatus' \in {st, taskStatus} /\ g_schedHPF' = g_schedHPF
           \/ /\ taskStatus' = MakeReady(st, t)
              /\ g_schedHPF' = HPFEnqueue(g_schedHPF, t, atHead)
        /\ pendList' \in {LOS_ListDelete(pendList, t), pendList}
        /\ scanning' = [scanning EXCEPT ![c] = NULL]
        /\ UNCHANGED <<prioVars, currTask, timeVars, call>>
    BY <1>11 DEF SchedTimeoutTaskWake
  <2> HIDE DEF st
  <2>3. QueueOK'
    BY <1>1, <1>2, <1>5, <2>2
  <2>4. TimeTypeOK' /\ PrioTypeOK'
    BY <1>1, <2>2, TimeTypes, PrioUnchanged
  <2> QED
    BY <1>1, <1>3, <2>1, <2>2, <2>3, <2>4 DEF IInv, RestTypeOK
<1>12. CASE LOS_TaskPriSet(t, p, atHead)
  <2> DEFINE rq == HPFDequeue(g_schedHPF, taskStatus, priority, t)
  <2>1. rq \in RunQueues /\ Findable(rq)
    BY <1>1, DequeueKeepsQueue
  <2>2. /\ priority' = [priority EXCEPT ![t] = p]
        /\ \/ /\ g_schedHPF' = PriQueInsert(rq, t, basePrio[t], p, atHead)
              /\ taskStatus' = MakeReady(taskStatus, t)
           \/ g_schedHPF' = g_schedHPF /\ taskStatus' = taskStatus
        /\ UNCHANGED <<basePrio, muxOwner, priBitmap, inherited, currTask, pendList, timeVars,
                       scanning, call>>
    BY <1>12 DEF LOS_TaskPriSet
  <2> HIDE DEF rq
  <2>3. /\ PriQueInsert(rq, t, basePrio[t], p, atHead) \in RunQueues
        /\ Findable(PriQueInsert(rq, t, basePrio[t], p, atHead))
    BY <1>1, <2>1, InsertKeepsQueue
  <2>4. QueueOK'
    BY <1>1, <1>5, <2>2, <2>3
  <2>5. MakeReady(taskStatus, t) \in [Tasks -> SUBSET Flags]
    BY <1>1, FlagTypes
  <2> QED
    BY <1>1, <2>2, <2>4, <2>5 DEF IInv, PrioTypeOK, TimeTypeOK, RestTypeOK, timeVars
<1>13. CASE LOS_TaskDelete(t, p)
  <2>1. PrioTypeOK'
    BY <1>1, <1>13, UnlockTypes DEF LOS_TaskDelete
  <2>2. QueueOK'
    <3>1. priority' \in [Tasks -> Prios]
      BY <2>1 DEF PrioTypeOK
    <3> QED
      BY <1>1, <1>5, <1>13, <3>1, DequeueKeepsQueue DEF LOS_TaskDelete
  <2>3. TimeTypeOK'
    BY <1>1, <1>13, TimeTypes DEF LOS_TaskDelete
  <2>4. taskStatus' \in [Tasks -> SUBSET Flags]
    <3>1. {"UNUSED"} \in SUBSET Flags
      BY DEF Flags
    <3>2. taskStatus' = [taskStatus EXCEPT ![t] = {"UNUSED"}]
      BY <1>13 DEF LOS_TaskDelete
    <3> QED
      BY <1>1, <3>1, <3>2
  <2> QED
    BY <1>1, <1>3, <1>13, <2>1, <2>2, <2>3, <2>4 DEF LOS_TaskDelete, IInv, RestTypeOK
<1> QED
  BY <1>6, <1>7, <1>8, <1>9, <1>10, <1>11, <1>12, <1>13

\* The other steps leave the run queue alone.
LEMMA OtherStepKeeps ==
    ASSUME IInv, NEW c \in Cpus, NEW t \in Tasks, NEW p \in Prios,
           \/ HPFWaitReturn(c, t) \/ SchedTimeoutQueueScan(c, t)
           \/ LOS_MuxLock(c, t) \/ LOS_MuxUnlock(c, t, p) \/ HPFPriorityRestore(p)
    PROVE  IInv'
<1>1. QueueOK'
  BY DEF HPFWaitReturn, SchedTimeoutQueueScan, LOS_MuxLock, LOS_MuxUnlock, HPFPriorityRestore,
         IInv, QueueOK, Findable
<1>2. CASE HPFWaitReturn(c, t)
  <2>1. taskStatus' \in [Tasks -> SUBSET Flags]
    BY <1>2, FlagTypes DEF HPFWaitReturn, IInv, RestTypeOK, Flags
  <2>2. TimeTypeOK' /\ PrioTypeOK'
    BY <1>2, TimeTypes, PrioUnchanged DEF HPFWaitReturn, IInv
  <2> QED
    BY <1>1, <1>2, <2>1, <2>2 DEF HPFWaitReturn, IInv, RestTypeOK
<1>3. CASE SchedTimeoutQueueScan(c, t)
  <2>1. TimeTypeOK' /\ PrioTypeOK'
    BY <1>3, PrioUnchanged DEF SchedTimeoutQueueScan, IInv, TimeTypeOK
  <2> QED
    BY <1>1, <1>3, <2>1 DEF SchedTimeoutQueueScan, IInv, RestTypeOK
<1>4. CASE LOS_MuxLock(c, t)
  BY <1>1, <1>4 DEF LOS_MuxLock, IInv, PrioTypeOK, TimeTypeOK, RestTypeOK, timeVars
<1>5. CASE LOS_MuxUnlock(c, t, p)
  <2>1. PrioTypeOK'
    BY <1>5, UnlockTypes DEF LOS_MuxUnlock, IInv
  <2> QED
    BY <1>1, <1>5, <2>1 DEF LOS_MuxUnlock, IInv, TimeTypeOK, RestTypeOK, timeVars
<1>6. CASE HPFPriorityRestore(p)
  <2>1. inherited' \in 0 .. MaxInherited
    BY <1>6, InPlaceTypes DEF HPFPriorityRestore, IInv
  <2>2. PrioTypeOK'
    BY <1>6, <2>1 DEF HPFPriorityRestore, IInv, PrioTypeOK
  <2> QED
    BY <1>1, <1>6, <2>2 DEF HPFPriorityRestore, IInv, TimeTypeOK, RestTypeOK, timeVars
<1> QED
  BY <1>2, <1>3, <1>4, <1>5, <1>6

LEMMA InitInv == ASSUME BasePrios # {}, Prios # {}, Init PROVE IInv
<1>1. /\ Min(BasePrios) \in BasePrios /\ Min(Prios) \in Prios
  <2>1. \E x \in BasePrios : \A y \in BasePrios : x <= y
    BY NatMin, SchedAssumption
  <2>2. \E x \in Prios : \A y \in Prios : x <= y
    BY NatMin, SchedAssumption
  <2> QED
    BY <2>1, <2>2 DEF Min
<1>2. g_schedHPF \in RunQueues
  BY SchedAssumption DEF Init, RunQueues
<1>3. Findable(g_schedHPF)
  BY DEF Init, Findable
<1>4. PrioTypeOK
  BY <1>1, SchedAssumption DEF Init, PrioTypeOK
<1>5. TimeTypeOK
  BY DEF Init, TimeTypeOK
<1>6. RestTypeOK
  BY DEF Init, RestTypeOK, Flags
<1> QED
  BY <1>2, <1>3, <1>4, <1>5, <1>6 DEF IInv, QueueOK

LEMMA NextKeepsInv == IInv /\ [Next]_vars => IInv'
<1> SUFFICES ASSUME IInv, [Next]_vars PROVE IInv'
  OBVIOUS
<1>1. CASE UNCHANGED vars
  BY <1>1 DEF vars, prioVars, timeVars, IInv, QueueOK, Findable, PrioTypeOK, TimeTypeOK, RestTypeOK
<1>2. CASE Next
  <2>0. (\E c \in Cpus : TRUE) /\ (\E t \in Tasks : TRUE) /\ (\E p \in Prios : TRUE)
        /\ (\E b \in BasePrios : TRUE) /\ TRUE \in BOOLEAN /\ \A pm \in PmModes : pm \in BOOLEAN
    BY SchedAssumption
  <2>1. CASE \E p \in Prios : HPFPriorityRestore(p)
    BY <2>0, <2>1, OtherStepKeeps
  <2>2. ASSUME NEW t \in Tasks, NEW b \in BasePrios, NEW p \in Prios,
               LOS_TaskCreateOnly(t, b, p) \/ LOS_TaskCreate(t, b, p)
        PROVE  IInv'
    BY <2>0, <2>2, TaskStepKeeps
  <2>3. ASSUME NEW t \in Tasks, NEW pm \in PmModes, LOS_TaskSuspend(t, pm) PROVE IInv'
    BY <2>0, <2>3, TaskStepKeeps
  <2>4. ASSUME NEW t \in Tasks, NEW p \in Prios, LOS_TaskDelete(t, p) PROVE IInv'
    BY <2>0, <2>4, TaskStepKeeps
  <2>5. ASSUME NEW t \in Tasks, NEW atHead \in BOOLEAN,
               \/ HPFWake(t, atHead)
               \/ \E expired \in BOOLEAN : LOS_TaskResume(t, expired, atHead)
               \/ \E p \in Prios : LOS_TaskPriSet(t, p, atHead)
        PROVE  IInv'
    BY <2>0, <2>5, TaskStepKeeps
  <2>6. ASSUME NEW c \in Cpus, NEW atHead \in BOOLEAN, LOS_Schedule(c, atHead) PROVE IInv'
    BY <2>0, <2>6, CpuStepKeeps
  <2>7. ASSUME NEW c \in Cpus, NEW t \in Tasks,
               \/ LOS_TaskYield(c, t) \/ LOS_TaskDelay(c, t) \/ SuspendSelf(c, t)
               \/ \E timed \in BOOLEAN : OsTaskWait(c, t, timed) \/ OsMuxPendOp(c, t, timed)
               \/ \E p \in Prios : OsRunningTaskToExit(c, t, p)
        PROVE  IInv'
    BY <2>0, <2>7, CpuStepKeeps
  <2>8. ASSUME NEW c \in Cpus, NEW t \in Tasks,
               \/ LOS_MuxLock(c, t) \/ HPFWaitReturn(c, t) \/ SchedTimeoutQueueScan(c, t)
               \/ \E p \in Prios : LOS_MuxUnlock(c, t, p)
        PROVE  IInv'
    BY <2>0, <2>8, OtherStepKeeps
  <2>9. ASSUME NEW c \in Cpus, NEW t \in Tasks, NEW atHead \in BOOLEAN,
               SchedTimeoutTaskWake(c, t, atHead)
        PROVE  IInv'
    BY <2>0, <2>9, TaskStepKeeps
  <2>10. Ends \subseteq BOOLEAN
    BY DEF Ends
  <2> QED
    BY <1>2, <2>1, <2>2, <2>3, <2>4, <2>5, <2>6, <2>7, <2>8, <2>9, <2>10 DEF Next
<1> QED
  BY <1>1, <1>2

\* Every variable of the scheduler keeps its type.
THEOREM TypeCorrect == Spec => []TypeOK
<1>1. Init => IInv
  BY InitInv, SchedAssumption
<1>2. IInv /\ [Next]_vars => IInv'
  BY NextKeepsInv
<1>3. IInv => TypeOK
  BY IInvIs
<1> QED
  BY <1>1, <1>2, <1>3, PTL DEF Spec

\* No ready task is lost to the scheduler: whatever the operations and the mutexes do to
\* priorities, HPFRunqueueTopTaskGet comes across every ready list that is not empty.
THEOREM NoReadyTaskLost == Spec => []ReadyIsFindable
<1>1. Init => IInv
  BY InitInv, SchedAssumption
<1>2. IInv /\ [Next]_vars => IInv'
  BY NextKeepsInv
<1>3. IInv => ReadyIsFindable
  BY IInvIs
<1> QED
  BY <1>1, <1>2, <1>3, PTL DEF Spec

-----------------------------------------------------------------------------
(***************************************************************************)
(* The run queue holds the ready tasks, each once; as long as no mutex has *)
(* changed the priority of a ready task, each is in the list of its own    *)
(* priority and the bitmaps and counts are exact.                          *)
(***************************************************************************)
LEMMA PrependList ==
    ASSUME NEW S, NEW s \in Seq(S), NEW e \in S
    PROVE  /\ ToSet(<<e>> \o s) = ToSet(s) \cup {e}
           /\ IsInjective(s) /\ e \notin ToSet(s) => IsInjective(<<e>> \o s)
<1>1. PICK r : r = <<e>> \o s
  OBVIOUS
<1>2. r \in Seq(S) /\ Len(r) = Len(s) + 1 /\ Len(s) \in Nat
  BY <1>1
<1>3. \A i \in 1..Len(s) + 1 : r[i] = IF i = 1 THEN e ELSE s[i - 1]
  BY <1>1, <1>2
<1>4. ASSUME NEW x PROVE x \in ToSet(r) <=> x \in ToSet(s) \cup {e}
  <2>1. x \in ToSet(r) <=> \E i \in 1..Len(s) + 1 : r[i] = x
    BY <1>2, ToSetIn
  <2>2. x \in ToSet(s) <=> \E i \in 1..Len(s) : s[i] = x
    BY ToSetIn
  <2>3. ASSUME NEW i \in 1..Len(s), s[i] = x PROVE \E j \in 1..Len(s) + 1 : r[j] = x
    <3>1. i + 1 \in 1..Len(s) + 1 /\ r[i + 1] = s[i]
      BY <1>2, <1>3
    <3> QED BY <3>1, <2>3
  <2>4. ASSUME NEW i \in 1..Len(s) + 1, r[i] = x PROVE x = e \/ \E j \in 1..Len(s) : s[j] = x
    <3>1. CASE i = 1
      BY <3>1, <2>4, <1>3
    <3>2. CASE i # 1
      <4>1. i - 1 \in 1..Len(s) /\ r[i] = s[i - 1]
        BY <3>2, <1>2, <1>3
      <4> QED BY <4>1, <2>4
    <3> QED BY <3>1, <3>2
  <2>5. 1 \in 1..Len(s) + 1 /\ r[1] = e
    BY <1>2, <1>3
  <2> QED BY <2>1, <2>2, <2>3, <2>4, <2>5
<1>5. ASSUME IsInjective(s), e \notin ToSet(s) PROVE IsInjective(r)
  <2>1. \A i, j \in 1..Len(s) : s[i] = s[j] => i = j
    BY <1>5 DEF IsInjective
  <2>2. \A i \in 1..Len(s) : s[i] # e
    BY <1>5, ToSetIn
  <2>3. ASSUME NEW i \in 1..Len(s) + 1, NEW j \in 1..Len(s) + 1, r[i] = r[j] PROVE i = j
    <3>1. i # 1 => i - 1 \in 1..Len(s) /\ r[i] = s[i - 1]
      BY <1>2, <1>3
    <3>2. j # 1 => j - 1 \in 1..Len(s) /\ r[j] = s[j - 1]
      BY <1>2, <1>3
    <3>3. r[1] = e
      BY <2>3, <1>3, <1>2
    <3>4. CASE i = 1 \/ j = 1
      BY <3>1, <3>2, <3>3, <3>4, <2>2, <2>3
    <3>5. CASE i # 1 /\ j # 1
      <4>1. i - 1 = j - 1
        BY <3>1, <3>2, <3>5, <2>1, <2>3
      <4> QED BY <4>1, <1>2
    <3> QED BY <3>4, <3>5
  <2> QED BY <1>2, <2>3 DEF IsInjective
<1> QED BY <1>1, <1>4, <1>5

\* A list without duplicates is as long as the set of its members.
LEMMA ListSize ==
    ASSUME NEW S, NEW s \in Seq(S), IsInjective(s)
    PROVE  IsFiniteSet(ToSet(s)) /\ Cardinality(ToSet(s)) = Len(s)
<1>1. Len(s) \in Nat /\ DOMAIN s = 1..Len(s)
  OBVIOUS
<1>2. s \in Bijection(1..Len(s), ToSet(s))
  <2>1. s \in [1..Len(s) -> ToSet(s)]
    BY <1>1 DEF ToSet
  <2>2. \A y \in ToSet(s) : \E x \in 1..Len(s) : s[x] = y
    BY ToSetIn
  <2>3. \A a, b \in 1..Len(s) : s[a] = s[b] => a = b
    BY <1>1 DEF IsInjective
  <2> QED BY <2>1, <2>2, <2>3 DEF Bijection, Injection, Surjection, IsInjective
<1>3. ExistsBijection(1..Len(s), ToSet(s))
  BY <1>2 DEF ExistsBijection
<1>4. IsFiniteSet(1..Len(s)) /\ Cardinality(1..Len(s)) = Len(s)
  BY <1>1, FS_Interval, SMTT(40)
<1> QED BY <1>3, <1>4, FS_Bijection

ReadySet(st) == {t \in Tasks : "READY" \in st[t]}

\* Every ready list holds members of R, each once.
Once(rq, R) ==
    \A b \in BasePrios, p \in Prios :
        IsInjective(rq.priQueList[b][p]) /\ ToSet(rq.priQueList[b][p]) \subseteq R

\* The members of R with one pair of priorities.
Place(R, base, pr, b, p) == {t \in R : base[t] = b /\ pr[t] = p}

\* The run queue is exact for R under the priorities base and pr.
Exact(rq, R, base, pr) ==
    \A b \in BasePrios :
        /\ \A p \in Prios :
              /\ ToSet(rq.priQueList[b][p]) = Place(R, base, pr, b, p)
              /\ p \in rq.bitmap[b] <=> Place(R, base, pr, b, p) # {}
              /\ rq.readyTasks[b][p] = Cardinality(Place(R, base, pr, b, p))
        /\ b \in rq.queueBitmap <=> rq.bitmap[b] # {}

LEMMA ExactMoved ==
    ASSUME NEW rq, NEW R, NEW base, NEW pr, NEW base2, NEW pr2, Exact(rq, R, base, pr),
           \A u \in R : base2[u] = base[u] /\ pr2[u] = pr[u]
    PROVE  Exact(rq, R, base2, pr2)
<1>1. \A b, p : Place(R, base2, pr2, b, p) = Place(R, base, pr, b, p)
  BY DEF Place
<1> QED BY <1>1 DEF Exact

LEMMA PlaceSize ==
    ASSUME NEW R \in SUBSET Tasks, NEW base, NEW pr, NEW b, NEW p
    PROVE  /\ IsFiniteSet(Place(R, base, pr, b, p))
           /\ Cardinality(Place(R, base, pr, b, p)) \in Nat
           /\ Cardinality(Place(R, base, pr, b, p)) < UINT32_SIZE
           /\ UINT32_SIZE \in Nat
<1>1. Place(R, base, pr, b, p) \in SUBSET Tasks
  BY DEF Place
<1>2. IsFiniteSet(Tasks) /\ Cardinality(Tasks) < UINT32_SIZE /\ UINT32_SIZE \in Nat
  BY SchedAssumption
<1>3. IsFiniteSet(Place(R, base, pr, b, p))
      /\ Cardinality(Place(R, base, pr, b, p)) <= Cardinality(Tasks)
  BY <1>1, <1>2, FS_Subset
<1>4. Cardinality(Place(R, base, pr, b, p)) \in Nat /\ Cardinality(Tasks) \in Nat
  BY <1>2, <1>3, FS_CardinalityType
<1> QED BY <1>2, <1>3, <1>4

\* The fields of the run queue new after PriQueInsert, at the priorities d and q.
InsertedAt(new, rq, t, b, p, atHead, d, q) ==
    /\ new.priQueList[d][q] = IF d = b /\ q = p
           THEN IF atHead THEN <<t>> \o rq.priQueList[b][p] ELSE Append(rq.priQueList[b][p], t)
           ELSE rq.priQueList[d][q]
    /\ new.bitmap[d] = IF d = b /\ rq.priQueList[b][p] = <<>>
                       THEN rq.bitmap[b] \cup {p} ELSE rq.bitmap[d]
    /\ new.queueBitmap = IF rq.bitmap[b] = {} THEN rq.queueBitmap \cup {b} ELSE rq.queueBitmap
    /\ new.readyTasks[d][q] = IF d = b /\ q = p
           THEN (rq.readyTasks[b][p] + 1) % UINT32_SIZE ELSE rq.readyTasks[d][q]
    /\ rq.priQueList[d][q] \in Seq(Tasks)

LEMMA InsertIs ==
    ASSUME NEW rq \in RunQueues, NEW t \in Tasks, NEW b \in BasePrios, NEW p \in Prios,
           NEW atHead \in BOOLEAN, NEW new, new = PriQueInsert(rq, t, b, p, atHead),
           NEW d \in BasePrios, NEW q \in Prios
    PROVE  InsertedAt(new, rq, t, b, p, atHead, d, q)
<1>1. /\ rq.bitmap \in [BasePrios -> SUBSET Prios]
      /\ rq.priQueList \in [BasePrios -> [Prios -> Seq(Tasks)]]
      /\ rq.readyTasks \in [BasePrios -> [Prios -> 0 .. UINT32_SIZE - 1]]
  BY DEF RunQueues
<1>2. PICK longer : longer = IF atHead THEN <<t>> \o rq.priQueList[b][p]
                                       ELSE Append(rq.priQueList[b][p], t)
  OBVIOUS
<1>3. /\ new.queueBitmap = IF rq.bitmap[b] = {} THEN rq.queueBitmap \cup {b} ELSE rq.queueBitmap
      /\ new.bitmap = IF rq.priQueList[b][p] = <<>>
                      THEN [rq.bitmap EXCEPT ![b] = rq.bitmap[b] \cup {p}] ELSE rq.bitmap
      /\ new.priQueList = [rq.priQueList EXCEPT ![b] = [rq.priQueList[b] EXCEPT ![p] = longer]]
      /\ new.readyTasks = [rq.readyTasks EXCEPT ![b] =
             [rq.readyTasks[b] EXCEPT ![p] = (rq.readyTasks[b][p] + 1) % UINT32_SIZE]]
  BY <1>1, <1>2 DEF PriQueInsert
<1>4. new.priQueList[d][q] = IF d = b /\ q = p THEN longer ELSE rq.priQueList[d][q]
  BY <1>1, <1>3
<1>5. new.readyTasks[d][q] = IF d = b /\ q = p
          THEN (rq.readyTasks[b][p] + 1) % UINT32_SIZE ELSE rq.readyTasks[d][q]
  BY <1>1, <1>3
<1>6. new.bitmap[d] = IF d = b /\ rq.priQueList[b][p] = <<>>
                      THEN rq.bitmap[b] \cup {p} ELSE rq.bitmap[d]
  BY <1>1, <1>3
<1> QED BY <1>1, <1>2, <1>3, <1>4, <1>5, <1>6 DEF InsertedAt

\* The same after PriQueDelete.
DeletedAt(new, rq, t, b, p, d, q) ==
    /\ new.priQueList[d][q] = LOS_ListDelete(rq.priQueList[d][q], t)
    /\ new.bitmap[d] = IF d = b /\ new.priQueList[b][p] = <<>>
                       THEN rq.bitmap[b] \ {p} ELSE rq.bitmap[d]
    /\ new.queueBitmap = IF new.bitmap[b] = {} THEN rq.queueBitmap \ {b} ELSE rq.queueBitmap
    /\ new.readyTasks[d][q] = IF d = b /\ q = p
           THEN (rq.readyTasks[b][p] + UINT32_SIZE - 1) % UINT32_SIZE ELSE rq.readyTasks[d][q]
    /\ rq.priQueList[d][q] \in Seq(Tasks)

LEMMA DeleteIs ==
    ASSUME NEW rq \in RunQueues, NEW t \in Tasks, NEW b \in BasePrios, NEW p \in Prios,
           NEW new, new = PriQueDelete(rq, t, b, p), NEW d \in BasePrios, NEW q \in Prios
    PROVE  DeletedAt(new, rq, t, b, p, d, q)
<1>1. /\ rq.bitmap \in [BasePrios -> SUBSET Prios]
      /\ rq.priQueList \in [BasePrios -> [Prios -> Seq(Tasks)]]
      /\ rq.readyTasks \in [BasePrios -> [Prios -> 0 .. UINT32_SIZE - 1]]
  BY DEF RunQueues
<1>2. PICK lists : lists =
          [k \in BasePrios |-> [r \in Prios |-> LOS_ListDelete(rq.priQueList[k][r], t)]]
  OBVIOUS
<1>3. PICK bits : bits = IF lists[b][p] = <<>> THEN rq.bitmap[b] \ {p} ELSE rq.bitmap[b]
  OBVIOUS
<1>4. /\ new.queueBitmap = IF bits = {} THEN rq.queueBitmap \ {b} ELSE rq.queueBitmap
      /\ new.bitmap = [rq.bitmap EXCEPT ![b] = bits]
      /\ new.priQueList = lists
      /\ new.readyTasks = [rq.readyTasks EXCEPT ![b] =
             [rq.readyTasks[b] EXCEPT ![p] = (rq.readyTasks[b][p] + UINT32_SIZE - 1) % UINT32_SIZE]]
  BY <1>1, <1>2, <1>3 DEF PriQueDelete
<1>5. new.priQueList[d][q] = LOS_ListDelete(rq.priQueList[d][q], t)
  BY <1>2, <1>4
<1>6. new.bitmap[b] = bits /\ (d # b => new.bitmap[d] = rq.bitmap[d])
  BY <1>1, <1>4
<1>7. new.readyTasks[d][q] = IF d = b /\ q = p
          THEN (rq.readyTasks[b][p] + UINT32_SIZE - 1) % UINT32_SIZE ELSE rq.readyTasks[d][q]
  BY <1>1, <1>4
<1> QED BY <1>1, <1>3, <1>4, <1>5, <1>6, <1>7 DEF DeletedAt

LEMMA InsertOnce ==
    ASSUME NEW rq \in RunQueues, NEW t \in Tasks, NEW b \in BasePrios, NEW p \in Prios,
           NEW atHead \in BOOLEAN, NEW R, Once(rq, R), t \notin R
    PROVE  Once(PriQueInsert(rq, t, b, p, atHead), R \cup {t})
<1>1. PICK new : new = PriQueInsert(rq, t, b, p, atHead)
  OBVIOUS
<1>2. ASSUME NEW d \in BasePrios, NEW q \in Prios
      PROVE  IsInjective(new.priQueList[d][q]) /\ ToSet(new.priQueList[d][q]) \subseteq R \cup {t}
  <2>0. InsertedAt(new, rq, t, b, p, atHead, d, q)
    BY <1>1, InsertIs
  <2>1. PICK s : s = rq.priQueList[d][q]
    OBVIOUS
  <2>2. s \in Seq(Tasks) /\ IsInjective(s) /\ ToSet(s) \subseteq R
    BY <2>0, <2>1 DEF Once, InsertedAt
  <2>3. PICK r : r = new.priQueList[d][q]
    OBVIOUS
  <2>4. r = s \/ r = <<t>> \o s \/ r = Append(s, t)
    BY <2>0, <2>1, <2>3 DEF InsertedAt
  <2>5. r # s => ToSet(r) = ToSet(s) \cup {t} /\ IsInjective(r)
    <3>1. t \notin ToSet(s)
      BY <2>2
    <3>2. CASE r = <<t>> \o s
      BY <2>2, <3>1, <3>2, PrependList
    <3>3. CASE r = Append(s, t)
      BY <2>2, <3>1, <3>3, AppendList
    <3> QED BY <3>2, <3>3, <2>4
  <2> QED BY <2>2, <2>3, <2>5
<1> QED BY <1>1, <1>2 DEF Once

LEMMA DeleteOnce ==
    ASSUME NEW rq \in RunQueues, NEW t \in Tasks, NEW b \in BasePrios, NEW p \in Prios,
           NEW R, Once(rq, R)
    PROVE  Once(PriQueDelete(rq, t, b, p), R \ {t})
<1>1. PICK new : new = PriQueDelete(rq, t, b, p)
  OBVIOUS
<1>2. ASSUME NEW d \in BasePrios, NEW q \in Prios
      PROVE  IsInjective(new.priQueList[d][q]) /\ ToSet(new.priQueList[d][q]) \subseteq R \ {t}
  <2>0. DeletedAt(new, rq, t, b, p, d, q)
    BY <1>1, DeleteIs
  <2>1. PICK s : s = rq.priQueList[d][q]
    OBVIOUS
  <2>2. s \in Seq(Tasks) /\ IsInjective(s) /\ ToSet(s) \subseteq R
    BY <2>0, <2>1 DEF Once, DeletedAt
  <2>3. new.priQueList[d][q] = LOS_ListDelete(s, t)
    BY <2>0, <2>1 DEF DeletedAt
  <2> QED BY <2>2, <2>3, DeleteList
<1> QED BY <1>1, <1>2 DEF Once

LEMMA InsertExact ==
    ASSUME NEW rq \in RunQueues, NEW t \in Tasks, NEW b \in BasePrios, NEW p \in Prios,
           NEW atHead \in BOOLEAN, NEW R \in SUBSET Tasks, t \notin R,
           NEW base, NEW pr, base[t] = b, pr[t] = p, Exact(rq, R, base, pr)
    PROVE  Exact(PriQueInsert(rq, t, b, p, atHead), R \cup {t}, base, pr)
<1> DEFINE Old(d, q) == Place(R, base, pr, d, q)
           Now(d, q) == Place(R \cup {t}, base, pr, d, q)
<1>1. PICK new : new = PriQueInsert(rq, t, b, p, atHead)
  OBVIOUS
<1>2. ASSUME NEW d, NEW q
      PROVE  Now(d, q) = IF d = b /\ q = p THEN Old(d, q) \cup {t} ELSE Old(d, q)
  BY DEF Place
<1>3. t \notin Old(b, p)
  BY DEF Place
<1> HIDE DEF Old, Now
<1>4. ASSUME NEW d \in BasePrios, NEW q \in Prios
      PROVE  /\ ToSet(rq.priQueList[d][q]) = Old(d, q)
             /\ q \in rq.bitmap[d] <=> Old(d, q) # {}
             /\ rq.readyTasks[d][q] = Cardinality(Old(d, q))
             /\ d \in rq.queueBitmap <=> rq.bitmap[d] # {}
  BY DEF Exact, Old
<1>5. ASSUME NEW d \in BasePrios, NEW q \in Prios
      PROVE  /\ ToSet(new.priQueList[d][q]) = Now(d, q)
             /\ q \in new.bitmap[d] <=> Now(d, q) # {}
             /\ new.readyTasks[d][q] = Cardinality(Now(d, q))
             /\ d \in new.queueBitmap <=> new.bitmap[d] # {}
  <2>0. InsertedAt(new, rq, t, b, p, atHead, d, q)
    BY <1>1, InsertIs
  <2>1. PICK s \in Seq(Tasks) : s = rq.priQueList[d][q]
    BY <2>0 DEF InsertedAt
  <2>2. ToSet(new.priQueList[d][q]) = Now(d, q)
    <3>1. PICK r : r = new.priQueList[d][q]
      OBVIOUS
    <3>2. CASE d = b /\ q = p
      <4>1. r = <<t>> \o s \/ r = Append(s, t)
        BY <2>0, <2>1, <3>1, <3>2 DEF InsertedAt
      <4>2. ToSet(<<t>> \o s) = ToSet(s) \cup {t} /\ ToSet(Append(s, t)) = ToSet(s) \cup {t}
        BY PrependList, AppendList
      <4> QED BY <4>1, <4>2, <3>1, <3>2, <2>1, <1>2, <1>4
    <3>3. CASE ~(d = b /\ q = p)
      BY <2>0, <3>3, <1>2, <1>4 DEF InsertedAt
    <3> QED BY <3>2, <3>3
  <2>3. rq.priQueList[b][p] = <<>> <=> Old(b, p) = {}
    <3>1. InsertedAt(new, rq, t, b, p, atHead, b, p)
      BY <1>1, InsertIs
    <3>2. PICK u \in Seq(Tasks) : u = rq.priQueList[b][p]
      BY <3>1 DEF InsertedAt
    <3>3. u = <<>> <=> ToSet(u) = {}
      BY ToSetIn
    <3> QED BY <3>2, <3>3, <1>4
  <2>4. q \in new.bitmap[d] <=> Now(d, q) # {}
    BY <2>0, <2>3, <1>2, <1>4 DEF InsertedAt
  <2>5. new.readyTasks[d][q] = Cardinality(Now(d, q))
    <3>1. CASE d = b /\ q = p
      <4>1. Now(d, q) = Old(d, q) \cup {t} /\ t \notin Old(d, q)
        BY <3>1, <1>2, <1>3
      <4>2. /\ IsFiniteSet(Old(d, q)) /\ Cardinality(Old(d, q)) \in Nat /\ UINT32_SIZE \in Nat
            /\ Cardinality(Now(d, q)) < UINT32_SIZE
        <5>1. R \cup {t} \in SUBSET Tasks
          OBVIOUS
        <5> QED BY <5>1, PlaceSize DEF Old, Now
      <4>3. Cardinality(Now(d, q)) = Cardinality(Old(d, q)) + 1
        BY <4>1, <4>2, FS_AddElement
      <4>4. new.readyTasks[d][q] = (Cardinality(Old(d, q)) + 1) % UINT32_SIZE
        BY <2>0, <3>1, <1>4 DEF InsertedAt
      <4>5. ASSUME NEW n \in Nat, n + 1 < UINT32_SIZE PROVE (n + 1) % UINT32_SIZE = n + 1
        BY <4>2, <4>5
      <4>6. Cardinality(Old(d, q)) + 1 < UINT32_SIZE
        BY <4>2, <4>3
      <4> QED BY <4>2, <4>3, <4>4, <4>5, <4>6
    <3>2. CASE ~(d = b /\ q = p)
      BY <2>0, <3>2, <1>2, <1>4 DEF InsertedAt
    <3> QED BY <3>1, <3>2
  <2>6. d \in new.queueBitmap <=> new.bitmap[d] # {}
    <3>1. p \in rq.bitmap[b] <=> Old(b, p) # {}
      BY <1>4
    <3> QED BY <2>0, <2>3, <3>1, <1>4 DEF InsertedAt
  <2> QED BY <2>2, <2>4, <2>5, <2>6
<1>6. Exact(new, R \cup {t}, base, pr)
  <2>1. \E q : q \in Prios
    BY SchedAssumption
  <2> QED BY <1>5, <2>1 DEF Exact, Now
<1> QED BY <1>1, <1>6

LEMMA DeleteExact ==
    ASSUME NEW rq \in RunQueues, NEW b \in BasePrios, NEW p \in Prios,
           NEW R \in SUBSET Tasks, NEW t \in R, Once(rq, R),
           NEW base, NEW pr, base[t] = b, pr[t] = p, Exact(rq, R, base, pr)
    PROVE  Exact(PriQueDelete(rq, t, b, p), R \ {t}, base, pr)
<1> DEFINE Old(d, q) == Place(R, base, pr, d, q)
           Now(d, q) == Place(R \ {t}, base, pr, d, q)
<1>0. t \in Tasks
  OBVIOUS
<1>1. PICK new : new = PriQueDelete(rq, t, b, p)
  OBVIOUS
<1>2. ASSUME NEW d, NEW q
      PROVE  Now(d, q) = Old(d, q) \ {t} /\ (~(d = b /\ q = p) => Now(d, q) = Old(d, q))
  BY DEF Place
<1>3. t \in Old(b, p)
  BY DEF Place
<1> HIDE DEF Old, Now
<1>4. ASSUME NEW d \in BasePrios, NEW q \in Prios
      PROVE  /\ ToSet(rq.priQueList[d][q]) = Old(d, q)
             /\ q \in rq.bitmap[d] <=> Old(d, q) # {}
             /\ rq.readyTasks[d][q] = Cardinality(Old(d, q))
             /\ d \in rq.queueBitmap <=> rq.bitmap[d] # {}
  BY DEF Exact, Old
<1>5. ASSUME NEW d \in BasePrios, NEW q \in Prios
      PROVE  /\ ToSet(new.priQueList[d][q]) = Now(d, q)
             /\ new.priQueList[d][q] = <<>> <=> Now(d, q) = {}
  <2>0. DeletedAt(new, rq, t, b, p, d, q)
    BY <1>0, <1>1, DeleteIs
  <2>1. PICK s \in Seq(Tasks) : s = rq.priQueList[d][q] /\ IsInjective(s)
    BY <2>0 DEF DeletedAt, Once
  <2>2. PICK r : r = LOS_ListDelete(s, t) /\ new.priQueList[d][q] = r
    BY <2>0, <2>1 DEF DeletedAt
  <2>3. r \in Seq(Tasks) /\ ToSet(r) = ToSet(s) \ {t}
    BY <2>1, <2>2, DeleteList
  <2>4. r = <<>> <=> ToSet(r) = {}
    BY <2>3, ToSetIn
  <2> QED BY <2>1, <2>2, <2>3, <2>4, <1>2, <1>4
<1>6. ASSUME NEW d \in BasePrios, NEW q \in Prios
      PROVE  /\ q \in new.bitmap[d] <=> Now(d, q) # {}
             /\ new.readyTasks[d][q] = Cardinality(Now(d, q))
             /\ d \in new.queueBitmap <=> new.bitmap[d] # {}
  <2>0. DeletedAt(new, rq, t, b, p, d, q)
    BY <1>0, <1>1, DeleteIs
  <2>1. new.priQueList[b][p] = <<>> <=> Now(b, p) = {}
    BY <1>5
  <2>2. q \in new.bitmap[d] <=> Now(d, q) # {}
    <3>1. CASE d = b /\ q = p
      <4>1. p \in rq.bitmap[b]
        BY <1>3, <1>4
      <4> QED BY <4>1, <3>1, <2>0, <2>1 DEF DeletedAt
    <3>2. CASE ~(d = b /\ q = p)
      <4>1. q \in new.bitmap[d] <=> q \in rq.bitmap[d]
        BY <3>2, <2>0 DEF DeletedAt
      <4> QED BY <4>1, <3>2, <1>2, <1>4
    <3> QED BY <3>1, <3>2
  <2>3. new.readyTasks[d][q] = Cardinality(Now(d, q))
    <3>1. CASE d = b /\ q = p
      <4>1. Now(d, q) = Old(d, q) \ {t} /\ t \in Old(d, q)
        BY <3>1, <1>2, <1>3
      <4>2. /\ IsFiniteSet(Old(d, q)) /\ Cardinality(Old(d, q)) \in Nat /\ UINT32_SIZE \in Nat
            /\ Cardinality(Old(d, q)) < UINT32_SIZE
        BY PlaceSize DEF Old
      <4>3. Cardinality(Now(d, q)) = Cardinality(Old(d, q)) - 1 /\ Cardinality(Now(d, q)) \in Nat
        <5>1. Cardinality(Now(d, q)) = Cardinality(Old(d, q)) - 1 /\ IsFiniteSet(Now(d, q))
          BY <4>1, <4>2, FS_RemoveElement
        <5> QED BY <5>1, FS_CardinalityType
      <4>4. new.readyTasks[d][q] = (Cardinality(Old(d, q)) + UINT32_SIZE - 1) % UINT32_SIZE
        BY <2>0, <3>1, <1>4 DEF DeletedAt
      <4>5. ASSUME NEW n \in Nat, NEW m \in Nat, n - 1 = m, n < UINT32_SIZE
            PROVE  (n + UINT32_SIZE - 1) % UINT32_SIZE = m
        <5>1. n + UINT32_SIZE - 1 = m + UINT32_SIZE /\ m < UINT32_SIZE /\ UINT32_SIZE > 0
          BY <4>2, <4>5
        <5>2. (m + UINT32_SIZE) % UINT32_SIZE = m
          BY <5>1, <4>2
        <5> QED BY <5>1, <5>2
      <4> QED BY <4>2, <4>3, <4>4, <4>5
    <3>2. CASE ~(d = b /\ q = p)
      BY <2>0, <3>2, <1>2, <1>4 DEF DeletedAt
    <3> QED BY <3>1, <3>2
  <2>4. d \in new.queueBitmap <=> new.bitmap[d] # {}
    <3>1. CASE d = b
      <4>1. b \in rq.queueBitmap
        BY <1>3, <1>4
      <4> QED BY <4>1, <3>1, <2>0 DEF DeletedAt
    <3>2. CASE d # b
      BY <3>2, <2>0, <1>4 DEF DeletedAt
    <3> QED BY <3>1, <3>2
  <2> QED BY <2>2, <2>3, <2>4
<1>7. Exact(new, R \ {t}, base, pr)
  <2>1. \E q : q \in Prios
    BY SchedAssumption
  <2> QED BY <1>5, <1>6, <2>1 DEF Exact, Now
<1> QED BY <1>1, <1>7

-----------------------------------------------------------------------------
(***************************************************************************)
(* The flags of a task say where it is: on a CPU, in the run queue, on a   *)
(* wait list, in a timeout queue.  A task that is suspended before it is   *)
(* started breaks this (starting it does not clear SUSPENDED), so the      *)
(* invariant is about systems that do not do so.                           *)
(***************************************************************************)
\* The flags that go together.
FlagsOK(f) ==
    /\ ~({"READY", "RUNNING"} \subseteq f)
    /\ f \cap {"READY", "RUNNING"} # {} => f \subseteq {"READY", "RUNNING", "TIMEOUT"}
    /\ "UNUSED" \in f => f \subseteq {"UNUSED", "TIMEOUT"}
    /\ "INIT" \in f => f = {"INIT"}
    /\ "DELAY" \in f => "PENDING" \notin f
    /\ "PEND_TIME" \in f => "PENDING" \in f
    /\ "FROZEN" \in f => "SUSPENDED" \in f

FlagsInv == \A t \in Tasks : FlagsOK(taskStatus[t])

\* RUNNING is set for the tasks that are on a CPU, each on one.
CurrInv ==
    /\ \A c \in Cpus : currTask[c] \in Tasks => "RUNNING" \in taskStatus[currTask[c]]
    /\ \A c, d \in Cpus : currTask[c] = currTask[d] /\ currTask[c] \in Tasks => c = d
    /\ \A t \in Tasks : "RUNNING" \in taskStatus[t] => \E c \in Cpus : currTask[c] = t

QueueInv == Once(g_schedHPF, ReadySet(taskStatus))

ExactInv == inherited = 0 => Exact(g_schedHPF, ReadySet(taskStatus), basePrio, priority)

PendInv == IsInjective(pendList) /\ \A t \in ToSet(pendList) : "PENDING" \in taskStatus[t]

\* A wait that has neither been granted nor expired in the freezer goes on or has timed out.
CallInv ==
    \A t \in Tasks :
        /\ call[t] = "WAIT" => taskStatus[t] \cap {"PENDING", "TIMEOUT"} # {}
        /\ "UNUSED" \in taskStatus[t] => call[t] = "NONE"

\* Somebody will end the timed wait of t.
HasTimeout(t) ==
    \/ responseTime[t] = "SET" /\ (t \in timeoutQueue \/ "FROZEN" \in taskStatus[t])
    \/ \E c \in Cpus : scanning[c] = t

TimeInv == ~fault => \A t \in Tasks : taskStatus[t] \cap TIMED # {} => HasTimeout(t)

SInv == FlagsInv /\ CurrInv /\ QueueInv /\ ExactInv /\ PendInv /\ CallInv /\ TimeInv

\* What OsSchedResched does to a task's flags.
LEMMA ReschedIs ==
    ASSUME IInv, NEW c \in Cpus, NEW rq \in RunQueues, NEW st \in [Tasks -> SUBSET Flags],
           Once(rq, ReadySet(st)), OsSchedResched(c, rq, st)
    PROVE  \E new \in Tasks \cup {Idle} :
              /\ g_schedHPF' = IF new = Idle THEN rq ELSE HPFDequeue(rq, st, priority', new)
              /\ currTask' = [currTask EXCEPT ![c] = new]
              /\ taskStatus' = SwitchedFlags(st, currTask[c], new)
              /\ new \in Tasks => "READY" \in st[new]
              /\ IF new # currTask[c] /\ currTask[c] # Idle /\ NeedsTimeout(st, currTask[c])
                 THEN OsSchedTimeoutQueueAdd(currTask[c]) ELSE UNCHANGED timeVars
<1>1. PICK new \in TopTaskGet(rq) :
              /\ g_schedHPF' = IF new = Idle THEN rq ELSE HPFDequeue(rq, st, priority', new)
              /\ currTask' = [currTask EXCEPT ![c] = new]
              /\ taskStatus' = SwitchedFlags(st, currTask[c], new)
              /\ IF new # currTask[c] /\ currTask[c] # Idle /\ NeedsTimeout(st, currTask[c])
                 THEN OsSchedTimeoutQueueAdd(currTask[c]) ELSE UNCHANGED timeVars
  BY DEF OsSchedResched
<1>2. new \in Tasks \cup {Idle}
  BY TopTaskIsTask
<1>3. ASSUME new \in Tasks PROVE "READY" \in st[new]
  <2>1. PICK s \in FoundLists(rq) : new = Head(rq.priQueList[s[1]][s[2]])
    BY <1>3, SchedAssumption DEF TopTaskGet
  <2>2. s[1] \in BasePrios /\ s[2] \in Prios /\ rq.priQueList[s[1]][s[2]] # <<>>
    BY DEF FoundLists
  <2>3. PICK l \in Seq(Tasks) : l = rq.priQueList[s[1]][s[2]]
    BY <2>2 DEF RunQueues
  <2>4. new \in ToSet(l)
    BY <2>1, <2>2, <2>3, TailList
  <2>5. ToSet(l) \subseteq ReadySet(st)
    BY <2>2, <2>3 DEF Once
  <2> QED BY <2>4, <2>5 DEF ReadySet
<1> QED BY <1>1, <1>2, <1>3

\* A step that ends in OsSchedResched on CPU c: st are the flags before the switch.
LEMMA ReschedKeeps ==
    ASSUME IInv, CurrInv, NEW c \in Cpus, NEW rq \in RunQueues, NEW st \in [Tasks -> SUBSET Flags],
           Once(rq, ReadySet(st)), OsSchedResched(c, rq, st),
           basePrio' = basePrio, priority' \in [Tasks -> Prios],
           \A t \in Tasks : FlagsOK(IF t = currTask[c] THEN st[t] \ {"RUNNING"} ELSE st[t]),
           \A t \in Tasks : "RUNNING" \in st[t] <=> "RUNNING" \in taskStatus[t]
    PROVE  /\ FlagsInv' /\ CurrInv' /\ QueueInv'
           /\ Exact(rq, ReadySet(st), basePrio, priority')
                => Exact(g_schedHPF', ReadySet(taskStatus'), basePrio, priority')
           /\ \A t \in Tasks : taskStatus'[t] \ {"READY", "RUNNING"} = st[t] \ {"READY", "RUNNING"}
           /\ currTask[c] \in Tasks /\ NeedsTimeout(st, currTask[c])
                => OsSchedTimeoutQueueAdd(currTask[c])
           /\ currTask[c] \notin Tasks \/ ~NeedsTimeout(st, currTask[c]) => UNCHANGED timeVars
<1>0. /\ taskStatus \in [Tasks -> SUBSET Flags] /\ currTask \in [Cpus -> Tasks \cup {Idle}]
      /\ basePrio \in [Tasks -> BasePrios]
      /\ Idle \notin Tasks
  BY SchedAssumption DEF IInv, RestTypeOK, PrioTypeOK
<1>1. PICK run \in Tasks \cup {Idle} : run = currTask[c]
  BY <1>0
<1>2. PICK new \in Tasks \cup {Idle} :
              /\ g_schedHPF' = IF new = Idle THEN rq ELSE HPFDequeue(rq, st, priority', new)
              /\ currTask' = [currTask EXCEPT ![c] = new]
              /\ taskStatus' = SwitchedFlags(st, run, new)
              /\ new \in Tasks => "READY" \in st[new]
              /\ IF new # run /\ run # Idle /\ NeedsTimeout(st, run)
                 THEN OsSchedTimeoutQueueAdd(run) ELSE UNCHANGED timeVars
  BY <1>1, ReschedIs
<1>3. \A t \in Tasks : taskStatus'[t] =
          IF t = new THEN (st[t] \ {"READY"}) \cup {"RUNNING"}
          ELSE IF t = run THEN st[t] \ {"RUNNING"} ELSE st[t]
  BY <1>2 DEF SwitchedFlags
<1>4. currTask'[c] = new /\ \A d \in Cpus : d # c => currTask'[d] = currTask[d]
  BY <1>0, <1>2
<1>5. \A t \in Tasks : FlagsOK(IF t = run THEN st[t] \ {"RUNNING"} ELSE st[t])
  BY <1>1
<1>6. ASSUME NEW t \in Tasks PROVE FlagsOK(taskStatus'[t])
  <2>1. CASE t = new
    <3>1. FlagsOK(st[t]) \/ FlagsOK(st[t] \ {"RUNNING"})
      BY <1>5
    <3>2. "READY" \in st[t]
      BY <2>1, <1>2
    <3>3. st[t] \subseteq {"READY", "RUNNING", "TIMEOUT"}
      BY <3>1, <3>2 DEF FlagsOK
    <3>4. taskStatus'[t] \subseteq {"RUNNING", "TIMEOUT"}
      BY <3>3, <2>1, <1>3
    <3> QED BY <3>4 DEF FlagsOK
  <2>2. CASE t # new
    BY <2>2, <1>3, <1>5
  <2> QED BY <2>1, <2>2
<1>7. FlagsInv'
  BY <1>6 DEF FlagsInv
<1>8. ASSUME new \in Tasks, new # run PROVE "RUNNING" \notin st[new]
  BY <1>2, <1>5, <1>8 DEF FlagsOK
<1>9. CurrInv'
  <2>1. \A d \in Cpus : currTask'[d] \in Tasks => "RUNNING" \in taskStatus'[currTask'[d]]
    <3>1. SUFFICES ASSUME NEW d \in Cpus, currTask'[d] \in Tasks
                   PROVE  "RUNNING" \in taskStatus'[currTask'[d]]
      OBVIOUS
    <3>2. CASE d = c
      BY <3>1, <3>2, <1>3, <1>4
    <3>3. CASE d # c
      <4>1. currTask'[d] = currTask[d] /\ "RUNNING" \in st[currTask[d]] /\ currTask[d] # run
        BY <3>1, <3>3, <1>1, <1>4 DEF CurrInv
      <4> QED BY <4>1, <3>1, <1>3
    <3> QED BY <3>2, <3>3
  <2>2. ASSUME NEW d \in Cpus, d # c PROVE currTask[d] = new /\ new \in Tasks => FALSE
    <3>1. SUFFICES ASSUME currTask[d] = new, new \in Tasks PROVE FALSE
      OBVIOUS
    <3>2. "RUNNING" \in st[new]
      BY <3>1 DEF CurrInv
    <3>3. new = run
      BY <3>1, <3>2, <1>8
    <3> QED BY <3>1, <3>3, <2>2, <1>1 DEF CurrInv
  <2>3. \A d, e \in Cpus : currTask'[d] = currTask'[e] /\ currTask'[d] \in Tasks => d = e
    BY <2>2, <1>4 DEF CurrInv
  <2>4. ASSUME NEW t \in Tasks, "RUNNING" \in taskStatus'[t] PROVE \E d \in Cpus : currTask'[d] = t
    <3>1. CASE t = new
      BY <3>1, <1>4
    <3>2. CASE t # new
      <4>1. t # run /\ "RUNNING" \in taskStatus[t]
        BY <3>2, <2>4, <1>3
      <4>2. PICK d \in Cpus : currTask[d] = t
        BY <4>1 DEF CurrInv
      <4> QED BY <4>1, <4>2, <1>1, <1>4
    <3> QED BY <3>1, <3>2
  <2> QED BY <2>1, <2>3, <2>4 DEF CurrInv
<1>10. ReadySet(taskStatus') = ReadySet(st) \ {new}
  <2>1. ASSUME NEW t \in Tasks
        PROVE  "READY" \in taskStatus'[t] <=> "READY" \in st[t] /\ t # new
    <3>1. CASE t = new
      <4>1. taskStatus'[t] = (st[t] \ {"READY"}) \cup {"RUNNING"}
        BY <3>1, <1>3
      <4>2. "READY" \notin (st[t] \ {"READY"}) \cup {"RUNNING"}
        OBVIOUS
      <4> QED BY <4>1, <4>2, <3>1
    <3>2. CASE t # new
      <4>1. taskStatus'[t] = st[t] \ {"RUNNING"} \/ taskStatus'[t] = st[t]
        BY <3>2, <1>3
      <4> QED BY <4>1, <3>2
    <3> QED BY <3>1, <3>2
  <2> QED BY <2>1 DEF ReadySet
<1>11. QueueInv'
  <2>1. CASE new = Idle
    <3>1. ReadySet(taskStatus') = ReadySet(st)
      BY <2>1, <1>0, <1>10 DEF ReadySet
    <3> QED BY <2>1, <3>1, <1>2 DEF QueueInv, Once
  <2>2. CASE new \in Tasks
    <3>1. g_schedHPF' = PriQueDelete(rq, new, basePrio[new], priority'[new])
      BY <2>2, <1>0, <1>2 DEF HPFDequeue
    <3>2. basePrio[new] \in BasePrios /\ priority'[new] \in Prios
      BY <2>2, <1>0
    <3>3. Once(PriQueDelete(rq, new, basePrio[new], priority'[new]), ReadySet(st) \ {new})
      BY <3>2, <2>2, DeleteOnce
    <3> QED BY <3>1, <3>3, <1>10 DEF QueueInv, Once
  <2> QED BY <2>1, <2>2
<1>12. ASSUME Exact(rq, ReadySet(st), basePrio, priority')
       PROVE  Exact(g_schedHPF', ReadySet(taskStatus'), basePrio, priority')
  <2>1. CASE new = Idle
    <3>1. ReadySet(taskStatus') = ReadySet(st)
      BY <2>1, <1>0, <1>10 DEF ReadySet
    <3> QED BY <2>1, <3>1, <1>2, <1>12
  <2>2. CASE new \in Tasks
    <3>1. g_schedHPF' = PriQueDelete(rq, new, basePrio[new], priority'[new])
      BY <2>2, <1>0, <1>2 DEF HPFDequeue
    <3>2. basePrio[new] \in BasePrios /\ priority'[new] \in Prios
      BY <2>2, <1>0
    <3>3. new \in ReadySet(st) /\ ReadySet(st) \in SUBSET Tasks
      BY <2>2, <1>2 DEF ReadySet
    <3>4. PICK pr : pr = priority'
      OBVIOUS
    <3>5. Exact(PriQueDelete(rq, new, basePrio[new], pr[new]), ReadySet(st) \ {new}, basePrio, pr)
      BY <3>2, <3>3, <3>4, <1>12, DeleteExact
    <3> QED BY <3>1, <3>4, <3>5, <1>10
  <2> QED BY <2>1, <2>2
<1>13. \A t \in Tasks : taskStatus'[t] \ {"READY", "RUNNING"} = st[t] \ {"READY", "RUNNING"}
  BY <1>3
<1>14. /\ run \in Tasks /\ NeedsTimeout(st, run) => OsSchedTimeoutQueueAdd(run)
       /\ run \notin Tasks \/ ~NeedsTimeout(st, run) => UNCHANGED timeVars
  <2>1. NeedsTimeout(st, run) => "READY" \notin st[run]
    BY DEF NeedsTimeout
  <2> QED BY <2>1, <1>0, <1>2
<1> QED BY <1>1, <1>7, <1>9, <1>11, <1>12, <1>13, <1>14

\* TimeInv is kept if it is kept for t, and nothing is taken from the others.
LEMMA TimeBut ==
    ASSUME TimeInv, ~fault, NEW t,
           \A u \in Tasks : u # t =>
               /\ taskStatus'[u] \cap TIMED = taskStatus[u] \cap TIMED
               /\ "FROZEN" \in taskStatus[u] => "FROZEN" \in taskStatus'[u]
               /\ responseTime'[u] = responseTime[u]
               /\ u \in timeoutQueue => u \in timeoutQueue'
               /\ \A c \in Cpus : scanning[c] = u => scanning'[c] = u,
           t \in Tasks /\ ~fault' /\ taskStatus'[t] \cap TIMED # {} => HasTimeout(t)'
    PROVE  TimeInv'
<1> SUFFICES ASSUME ~fault', NEW u \in Tasks, taskStatus'[u] \cap TIMED # {} PROVE HasTimeout(u)'
  BY DEF TimeInv
<1>1. CASE u = t
  BY <1>1
<1>2. CASE u # t
  <2>1. HasTimeout(u)
    BY <1>2 DEF TimeInv
  <2> QED BY <1>2, <2>1 DEF HasTimeout
<1> QED BY <1>1, <1>2

\* A mutex that changes the priority of a ready task is counted.
PrioKept == inherited' = 0 =>
    inherited = 0 /\ \A u \in ReadySet(taskStatus) : priority'[u] = priority[u]

LEMMA InPlaceKeeps ==
    ASSUME IInv, NEW t \in Tasks, NEW p \in Prios, CountInPlace(t, p),
           priority' = [priority EXCEPT ![t] = p]
    PROVE  PrioKept
<1>1. inherited \in Nat /\ priority \in [Tasks -> Prios]
  BY SchedAssumption DEF IInv, PrioTypeOK
<1>2. CASE "READY" \in taskStatus[t] /\ p # priority[t]
  <2>1. inherited' = inherited + 1
    BY <1>2 DEF CountInPlace
  <2>2. inherited' # 0
    BY <2>1, <1>1
  <2> QED BY <2>2 DEF PrioKept
<1>3. CASE ~("READY" \in taskStatus[t] /\ p # priority[t])
  <2>1. inherited' = inherited
    BY <1>3 DEF CountInPlace
  <2>2. \A u \in ReadySet(taskStatus) : priority'[u] = priority[u]
    BY <1>1, <1>3 DEF ReadySet
  <2> QED BY <2>1, <2>2 DEF PrioKept
<1> QED BY <1>2, <1>3

LEMMA UnlockKeeps ==
    ASSUME IInv, NEW t \in Tasks, NEW p \in Prios,
           OsMuxUnlockUnsafe(t, p) \/ OsTaskReleaseHoldLock(t, p)
    PROVE  PrioKept /\ basePrio' = basePrio
<1>1. CASE OsMuxUnlockUnsafe(t, p)
  BY <1>1, InPlaceKeeps DEF OsMuxUnlockUnsafe
<1>2. CASE UNCHANGED prioVars
  BY <1>2 DEF prioVars, PrioKept
<1> QED BY <1>1, <1>2 DEF OsTaskReleaseHoldLock

\* The exact run queue under the priorities after the step.
LEMMA ExactKept ==
    ASSUME ExactInv, PrioKept, inherited' = 0
    PROVE  Exact(g_schedHPF, ReadySet(taskStatus), basePrio, priority')
<1>1. PICK pr : pr = priority'
  OBVIOUS
<1>2. Exact(g_schedHPF, ReadySet(taskStatus), basePrio, priority)
      /\ \A u \in ReadySet(taskStatus) : pr[u] = priority[u]
  BY <1>1 DEF ExactInv, PrioKept
<1>3. Exact(g_schedHPF, ReadySet(taskStatus), basePrio, pr)
  BY <1>2, ExactMoved
<1> QED BY <1>1, <1>3

\* A step of CPU c that changes the flags of its task only, and switches.
Switches(c, rq, st) ==
    /\ rq \in RunQueues /\ st \in [Tasks -> SUBSET Flags]
    /\ \A u \in Tasks : u # currTask[c] => st[u] = taskStatus[u]
    /\ currTask[c] \in Tasks =>
          FlagsOK(st[currTask[c]] \ {"RUNNING"}) /\ "RUNNING" \in st[currTask[c]]
    /\ Once(rq, ReadySet(st))
    /\ OsSchedResched(c, rq, st)
    /\ inherited' = 0 => Exact(rq, ReadySet(st), basePrio, priority')

LEMMA SwitchKeeps ==
    ASSUME IInv, SInv, ~fault, NEW c \in Cpus, NEW rq, NEW st, Switches(c, rq, st),
           basePrio' = basePrio, priority' \in [Tasks -> Prios], scanning' = scanning
    PROVE  /\ FlagsInv' /\ CurrInv' /\ QueueInv' /\ ExactInv' /\ TimeInv'
           /\ \A t \in Tasks : taskStatus'[t] \ {"READY", "RUNNING"} = st[t] \ {"READY", "RUNNING"}
<1>0. /\ rq \in RunQueues /\ st \in [Tasks -> SUBSET Flags] /\ Once(rq, ReadySet(st))
      /\ OsSchedResched(c, rq, st) /\ FlagsInv /\ CurrInv /\ TimeInv
  BY DEF Switches, SInv
<1>1. PICK run : run = currTask[c]
  OBVIOUS
<1>2. /\ \A u \in Tasks : u # run => st[u] = taskStatus[u]
      /\ run \in Tasks => FlagsOK(st[run] \ {"RUNNING"}) /\ "RUNNING" \in st[run]
  BY <1>1 DEF Switches
<1>3. \A t \in Tasks : FlagsOK(IF t = run THEN st[t] \ {"RUNNING"} ELSE st[t])
  BY <1>0, <1>2 DEF FlagsInv
<1>4. \A t \in Tasks : "RUNNING" \in st[t] <=> "RUNNING" \in taskStatus[t]
  BY <1>0, <1>1, <1>2 DEF CurrInv
<1>5. /\ FlagsInv' /\ CurrInv' /\ QueueInv'
      /\ Exact(rq, ReadySet(st), basePrio, priority')
           => Exact(g_schedHPF', ReadySet(taskStatus'), basePrio, priority')
      /\ \A t \in Tasks : taskStatus'[t] \ {"READY", "RUNNING"} = st[t] \ {"READY", "RUNNING"}
      /\ run \in Tasks /\ NeedsTimeout(st, run) => OsSchedTimeoutQueueAdd(run)
      /\ run \notin Tasks \/ ~NeedsTimeout(st, run) => UNCHANGED timeVars
  BY <1>0, <1>1, <1>3, <1>4, ReschedKeeps
<1>6. ExactInv'
  BY <1>5 DEF ExactInv, Switches
<1>7. TimeInv'
  <2>1. \A u \in Tasks : u # run =>
               /\ taskStatus'[u] \cap TIMED = taskStatus[u] \cap TIMED
               /\ "FROZEN" \in taskStatus[u] => "FROZEN" \in taskStatus'[u]
    <3>1. ASSUME NEW u \in Tasks, u # run
          PROVE  taskStatus'[u] \ {"READY", "RUNNING"} = taskStatus[u] \ {"READY", "RUNNING"}
      BY <3>1, <1>2, <1>5
    <3>2. ASSUME NEW x, NEW y, x \ {"READY", "RUNNING"} = y \ {"READY", "RUNNING"}
          PROVE  x \cap TIMED = y \cap TIMED /\ ("FROZEN" \in y => "FROZEN" \in x)
      <4>1. \A e \in TIMED \cup {"FROZEN"} : e \in x <=> e \in y
        BY <3>2 DEF TIMED
      <4> QED BY <4>1
    <3> QED BY <3>1, <3>2
  <2>2. \A u \in Tasks : u # run =>
               /\ responseTime'[u] = responseTime[u]
               /\ u \in timeoutQueue => u \in timeoutQueue'
    BY <1>5 DEF OsSchedTimeoutQueueAdd, timeVars, IInv, TimeTypeOK
  <2>3. ASSUME run \in Tasks, taskStatus'[run] \cap TIMED # {} PROVE HasTimeout(run)'
    <3>1. st[run] \cap TIMED # {}
      <4>1. PICK e \in TIMED : e \in taskStatus'[run]
        BY <2>3
      <4>2. e \notin {"READY", "RUNNING"}
        BY DEF TIMED
      <4> QED BY <4>1, <4>2, <2>3, <1>5
    <3>2. "READY" \notin st[run]
      <4>1. PICK e \in TIMED : e \in st[run]
        BY <3>1
      <4>2. e \notin {"READY", "RUNNING", "TIMEOUT"}
        BY DEF TIMED
      <4> QED BY <4>1, <4>2, <2>3, <1>2 DEF FlagsOK
    <3>3. OsSchedTimeoutQueueAdd(run)
      BY <3>1, <3>2, <2>3, <1>5 DEF NeedsTimeout
    <3>4. responseTime'[run] = "SET" /\ run \in timeoutQueue'
      BY <3>3, <2>3 DEF OsSchedTimeoutQueueAdd, IInv, TimeTypeOK
    <3> QED BY <3>4 DEF HasTimeout
  <2> QED BY <2>1, <2>2, <2>3, <1>0, TimeBut
<1> QED BY <1>5, <1>6, <1>7

\* The task of a CPU: what its flags are, and that it is in no list.
LEMMA RunningFacts ==
    ASSUME IInv, SInv, NEW c \in Cpus, NEW t \in Tasks, currTask[c] = t
    PROVE  /\ "RUNNING" \in taskStatus[t]
           /\ taskStatus[t] \subseteq {"RUNNING", "TIMEOUT"}
           /\ t \notin ReadySet(taskStatus)
           /\ t \notin ToSet(pendList)
<1>1. "RUNNING" \in taskStatus[t] /\ FlagsOK(taskStatus[t])
  BY DEF SInv, FlagsInv, CurrInv
<1>2. taskStatus[t] \subseteq {"RUNNING", "TIMEOUT"}
  BY <1>1 DEF FlagsOK
<1>3. "PENDING" \notin taskStatus[t] /\ "READY" \notin taskStatus[t]
  BY <1>2
<1> QED BY <1>1, <1>2, <1>3 DEF SInv, PendInv, ReadySet

\* A switch that changes no wait list.
LEMMA SwitchOnly ==
    ASSUME IInv, SInv, ~fault, NEW c \in Cpus, NEW rq, NEW st, Switches(c, rq, st),
           basePrio' = basePrio, priority' \in [Tasks -> Prios],
           UNCHANGED <<pendList, scanning, call>>,
           currTask[c] \in Tasks => call[currTask[c]] = "NONE"
    PROVE  SInv'
<1>1. /\ FlagsInv' /\ CurrInv' /\ QueueInv' /\ ExactInv' /\ TimeInv'
      /\ \A t \in Tasks : taskStatus'[t] \ {"READY", "RUNNING"} = st[t] \ {"READY", "RUNNING"}
  BY SwitchKeeps
<1>2. ASSUME NEW u \in Tasks, u # currTask[c], NEW e, e \notin {"READY", "RUNNING"}
      PROVE  e \in taskStatus'[u] <=> e \in taskStatus[u]
  <2>1. st[u] = taskStatus[u]
    BY <1>2 DEF Switches
  <2> QED BY <2>1, <1>1, <1>2
<1>3. ToSet(pendList) \subseteq Tasks
  BY ToSetIn DEF IInv, RestTypeOK
<1>4. PendInv'
  <2>1. ASSUME NEW t \in ToSet(pendList) PROVE "PENDING" \in taskStatus'[t]
    <3>1. t \in Tasks /\ t # currTask[c] /\ "PENDING" \in taskStatus[t]
      BY <1>3, RunningFacts DEF SInv, PendInv
    <3> QED BY <3>1, <1>2
  <2> QED BY <2>1 DEF PendInv, SInv
<1>5. CallInv'
  <2>1. SUFFICES ASSUME NEW t \in Tasks
                 PROVE  /\ call[t] = "WAIT" => taskStatus'[t] \cap {"PENDING", "TIMEOUT"} # {}
                        /\ "UNUSED" \in taskStatus'[t] => call[t] = "NONE"
    BY DEF CallInv
  <2>2. CASE t = currTask[c]
    BY <2>2
  <2>3. CASE t # currTask[c]
    <3>1. \A e \in {"PENDING", "TIMEOUT", "UNUSED"} : e \in taskStatus'[t] <=> e \in taskStatus[t]
      BY <2>3, <1>2
    <3> QED BY <3>1 DEF SInv, CallInv
  <2> QED BY <2>2, <2>3
<1> QED BY <1>1, <1>4, <1>5 DEF SInv

\* The task of c gets the flags X, keeps its place outside the run queue, and is stopped.
LEMMA StopSwitches ==
    ASSUME IInv, SInv, NEW c \in Cpus, NEW t \in Tasks, currTask[c] = t, NEW X \in SUBSET Flags,
           \A f \in SUBSET {"TIMEOUT"} : FlagsOK(f \cup X), "RUNNING" \notin X, "READY" \notin X,
           PrioKept, OsSchedResched(c, g_schedHPF, With(taskStatus, t, X))
    PROVE  Switches(c, g_schedHPF, With(taskStatus, t, X))
<1>1. PICK st : st = With(taskStatus, t, X)
  OBVIOUS
<1>2. /\ taskStatus \in [Tasks -> SUBSET Flags] /\ g_schedHPF \in RunQueues
  BY DEF IInv, RestTypeOK, QueueOK
<1>3. st \in [Tasks -> SUBSET Flags] /\ st[t] = taskStatus[t] \cup X
      /\ \A u \in Tasks : u # t => st[u] = taskStatus[u]
  BY <1>1, <1>2, FlagTypes DEF With
<1>4. "RUNNING" \in taskStatus[t] /\ taskStatus[t] \subseteq {"RUNNING", "TIMEOUT"}
      /\ t \notin ReadySet(taskStatus)
  BY RunningFacts
<1>5. FlagsOK(st[t] \ {"RUNNING"}) /\ "RUNNING" \in st[t]
  <2>1. PICK f : f = taskStatus[t] \ {"RUNNING"}
    OBVIOUS
  <2>2. f \in SUBSET {"TIMEOUT"} /\ st[t] \ {"RUNNING"} = f \cup X
    BY <2>1, <1>3, <1>4
  <2> QED BY <2>2, <1>3, <1>4
<1>6. ReadySet(st) = ReadySet(taskStatus)
  <2>1. "READY" \notin st[t]
    BY <1>3, <1>4
  <2> QED BY <2>1, <1>3, <1>4 DEF ReadySet
<1>7. Once(g_schedHPF, ReadySet(st))
  BY <1>6 DEF SInv, QueueInv
<1>8. inherited' = 0 => Exact(g_schedHPF, ReadySet(st), basePrio, priority')
  BY <1>6, ExactKept DEF SInv
<1> QED BY <1>1, <1>2, <1>3, <1>5, <1>7, <1>8 DEF Switches

\* The task of c goes back to the run queue.
LEMMA YieldSwitches ==
    ASSUME IInv, SInv, NEW c \in Cpus, NEW t \in Tasks, currTask[c] = t, NEW atHead \in BOOLEAN,
           UNCHANGED prioVars,
           OsSchedResched(c, HPFEnqueue(g_schedHPF, t, atHead), MakeReady(taskStatus, t))
    PROVE  Switches(c, HPFEnqueue(g_schedHPF, t, atHead), MakeReady(taskStatus, t))
<1>1. PICK st : st = MakeReady(taskStatus, t)
  OBVIOUS
<1>2. /\ taskStatus \in [Tasks -> SUBSET Flags] /\ g_schedHPF \in RunQueues /\ TypeOK
      /\ basePrio[t] \in BasePrios /\ priority[t] \in Prios
  BY IInvIs DEF IInv, RestTypeOK, QueueOK, PrioTypeOK
<1>3. st \in [Tasks -> SUBSET Flags] /\ st[t] = (taskStatus[t] \ BLOCKED) \cup {"READY"}
      /\ \A u \in Tasks : u # t => st[u] = taskStatus[u]
  <2>1. {} \in SUBSET Flags
    OBVIOUS
  <2>2. st \in [Tasks -> SUBSET Flags]
    BY <1>1, <1>2, <2>1, FlagTypes
  <2> QED BY <1>1, <1>2, <2>2 DEF MakeReady
<1>4. "RUNNING" \in taskStatus[t] /\ taskStatus[t] \subseteq {"RUNNING", "TIMEOUT"}
      /\ t \notin ReadySet(taskStatus)
  BY RunningFacts
<1>5. FlagsOK(st[t] \ {"RUNNING"}) /\ "RUNNING" \in st[t]
  <2>1. st[t] \ {"RUNNING"} \subseteq {"READY", "TIMEOUT"}
    BY <1>3, <1>4
  <2>2. "RUNNING" \in st[t]
    BY <1>3, <1>4 DEF BLOCKED
  <2>3. ASSUME NEW f \in SUBSET {"READY", "TIMEOUT"} PROVE FlagsOK(f)
    BY DEF FlagsOK
  <2> QED BY <2>1, <2>2, <2>3
<1>6. ReadySet(st) = ReadySet(taskStatus) \cup {t}
  <2>1. "READY" \in st[t]
    BY <1>3
  <2> QED BY <2>1, <1>3 DEF ReadySet
<1>7. PICK rq : rq = PriQueInsert(g_schedHPF, t, basePrio[t], priority[t], atHead)
  OBVIOUS
<1>8. rq = HPFEnqueue(g_schedHPF, t, atHead) /\ rq \in RunQueues
  BY <1>2, <1>7, EnqueueKeepsQueue DEF HPFEnqueue
<1>9. Once(rq, ReadySet(st))
  BY <1>2, <1>4, <1>6, <1>7, InsertOnce DEF SInv, QueueInv
<1>10. ASSUME inherited' = 0 PROVE Exact(rq, ReadySet(st), basePrio, priority')
  <2>1. priority' = priority /\ Exact(g_schedHPF, ReadySet(taskStatus), basePrio, priority)
    BY <1>10 DEF prioVars, SInv, ExactInv
  <2>2. ReadySet(taskStatus) \in SUBSET Tasks
    BY DEF ReadySet
  <2>3. Exact(rq, ReadySet(taskStatus) \cup {t}, basePrio, priority)
    BY <2>1, <2>2, <1>2, <1>4, <1>7, InsertExact
  <2> QED BY <2>1, <2>3, <1>6
<1> QED BY <1>1, <1>3, <1>5, <1>8, <1>9, <1>10 DEF Switches

\* HPFWait: the task of c is linked and stopped.
LEMMA WaitKeeps ==
    ASSUME IInv, SInv, ~fault, NEW c \in Cpus, NEW t \in Tasks, currTask[c] = t,
           NEW timed \in BOOLEAN, PrioKept, basePrio' = basePrio, priority' \in [Tasks -> Prios],
           HPFWait(c, t, timed)
    PROVE  SInv'
<1>1. PICK X : X = {"PENDING"} \cup IF timed THEN {"PEND_TIME"} ELSE {}
  OBVIOUS
<1>2. /\ X \in SUBSET Flags /\ "PENDING" \in X /\ X \subseteq {"PENDING", "PEND_TIME"}
  BY <1>1 DEF Flags
<1>3. \A f \in SUBSET {"TIMEOUT"} : FlagsOK(f \cup X)
  BY <1>2 DEF FlagsOK
<1>4. PICK st : st = With(taskStatus, t, X)
  OBVIOUS
<1>5. /\ OsSchedResched(c, g_schedHPF, With(taskStatus, t, X)) /\ scanning' = scanning
      /\ pendList' = Append(pendList, t) /\ call' = [call EXCEPT ![t] = "WAIT"]
  BY <1>1 DEF HPFWait
<1>6. "RUNNING" \notin X /\ "READY" \notin X /\ "UNUSED" \notin X
  BY <1>2
<1>7. Switches(c, g_schedHPF, st)
  BY <1>2, <1>3, <1>4, <1>5, <1>6, StopSwitches
<1>8. /\ FlagsInv' /\ CurrInv' /\ QueueInv' /\ ExactInv' /\ TimeInv'
      /\ \A u \in Tasks : taskStatus'[u] \ {"READY", "RUNNING"} = st[u] \ {"READY", "RUNNING"}
  BY <1>5, <1>7, SwitchKeeps
<1>9. /\ taskStatus \in [Tasks -> SUBSET Flags] /\ pendList \in Seq(Tasks)
      /\ call \in [Tasks -> {"NONE", "WAIT", "GRANTED", "EXPIRED"}]
  BY DEF IInv, RestTypeOK
<1>10. st[t] = taskStatus[t] \cup X /\ \A u \in Tasks : u # t => st[u] = taskStatus[u]
  BY <1>4, <1>9 DEF With
<1>11. ASSUME NEW u \in Tasks, NEW e, e \notin {"READY", "RUNNING"}
       PROVE  e \in taskStatus'[u] <=> e \in taskStatus[u] \/ (u = t /\ e \in X)
  <2>1. e \in taskStatus'[u] <=> e \in st[u]
    BY <1>8, <1>11
  <2> QED BY <2>1, <1>10
<1>12. PendInv'
  <2>1. t \notin ToSet(pendList) /\ ToSet(pendList) \subseteq Tasks
    BY <1>9, RunningFacts, ToSetIn
  <2>2. ToSet(pendList') = ToSet(pendList) \cup {t} /\ IsInjective(pendList')
    BY <1>5, <1>9, <2>1, AppendList DEF SInv, PendInv
  <2>3. ASSUME NEW u \in ToSet(pendList) \cup {t} PROVE "PENDING" \in taskStatus'[u]
    <3>1. "PENDING" \in taskStatus[u] \/ u = t
      BY DEF SInv, PendInv
    <3> QED BY <3>1, <2>1, <1>2, <1>11
  <2> QED BY <2>2, <2>3 DEF PendInv
<1>13. CallInv'
  <2>1. SUFFICES ASSUME NEW u \in Tasks
                 PROVE  /\ call'[u] = "WAIT" => taskStatus'[u] \cap {"PENDING", "TIMEOUT"} # {}
                        /\ "UNUSED" \in taskStatus'[u] => call'[u] = "NONE"
    BY DEF CallInv
  <2>2. CASE u = t
    <3>1. "PENDING" \in taskStatus'[u]
      BY <2>2, <1>2, <1>11
    <3>2. "UNUSED" \notin taskStatus'[u]
      <4>1. "UNUSED" \notin taskStatus[u]
        <5>1. taskStatus[t] \subseteq {"RUNNING", "TIMEOUT"}
          BY RunningFacts
        <5> QED BY <5>1, <2>2
      <4> QED BY <4>1, <1>6, <1>11
    <3> QED BY <3>1, <3>2
  <2>3. CASE u # t
    <3>1. call'[u] = call[u]
      BY <2>3, <1>5, <1>9
    <3>2. \A e \in {"PENDING", "TIMEOUT", "UNUSED"} : e \in taskStatus'[u] <=> e \in taskStatus[u]
      BY <2>3, <1>11
    <3> QED BY <3>1, <3>2 DEF SInv, CallInv
  <2> QED BY <2>2, <2>3
<1> QED BY <1>8, <1>12, <1>13 DEF SInv

\* Operations of the task that is on CPU c.
LEMMA CpuStepSafe ==
    ASSUME IInv, SInv, NEW c \in Cpus, NEW t \in Tasks, NEW p \in Prios,
           NEW atHead \in BOOLEAN, NEW timed \in BOOLEAN,
           \/ LOS_Schedule(c, atHead) \/ LOS_TaskYield(c, t) \/ LOS_TaskDelay(c, t)
           \/ OsTaskWait(c, t, timed) \/ OsMuxPendOp(c, t, timed)
           \/ SuspendSelf(c, t) \/ OsRunningTaskToExit(c, t, p)
    PROVE  SInv'
<1>0. /\ ~fault /\ PrioTypeOK /\ g_schedHPF \in RunQueues
      /\ taskStatus \in [Tasks -> SUBSET Flags]
      /\ currTask[c] \in Tasks \cup {Idle} /\ Idle \notin Tasks
  BY SchedAssumption DEF LOS_Schedule, LOS_TaskYield, LOS_TaskDelay, OsTaskWait, OsMuxPendOp,
     SuspendSelf, OsRunningTaskToExit, Calls, Free, IInv, RestTypeOK, QueueOK
<1>1. ASSUME UNCHANGED prioVars
      PROVE  PrioKept /\ basePrio' = basePrio /\ priority' \in [Tasks -> Prios]
  BY <1>0, <1>1 DEF prioVars, PrioKept, PrioTypeOK
<1>2. ASSUME NEW X \in {{"DELAY"}, {"SUSPENDED"}, {"UNUSED"}}, Calls(c, t), PrioKept,
             basePrio' = basePrio, priority' \in [Tasks -> Prios],
             OsSchedResched(c, g_schedHPF, With(taskStatus, t, X)),
             UNCHANGED <<pendList, scanning, call>>
      PROVE  SInv'
  <2>1. currTask[c] = t /\ call[t] = "NONE"
    BY <1>2 DEF Calls
  <2>2. X \in SUBSET Flags /\ "RUNNING" \notin X /\ "READY" \notin X
    BY <1>2 DEF Flags
  <2>3. \A f \in SUBSET {"TIMEOUT"} : FlagsOK(f \cup X)
    BY <1>2 DEF FlagsOK
  <2>4. Switches(c, g_schedHPF, With(taskStatus, t, X))
    BY <1>2, <2>1, <2>2, <2>3, StopSwitches
  <2> QED BY <1>0, <1>2, <2>1, <2>4, SwitchOnly
<1>3. CASE LOS_Schedule(c, atHead)
  <2>1. UNCHANGED prioVars /\ UNCHANGED <<pendList, scanning, call>>
        /\ (currTask[c] # Idle => call[currTask[c]] = "NONE")
    BY <1>3 DEF LOS_Schedule
  <2>2. CASE currTask[c] = Idle
    <3>1. OsSchedResched(c, g_schedHPF, taskStatus)
      BY <1>3, <2>2 DEF LOS_Schedule
    <3>2. inherited' = 0 => Exact(g_schedHPF, ReadySet(taskStatus), basePrio, priority')
      BY <1>1, <2>1, ExactKept DEF SInv
    <3>3. Switches(c, g_schedHPF, taskStatus)
      BY <1>0, <2>2, <3>1, <3>2 DEF Switches, SInv, QueueInv
    <3> QED BY <1>0, <1>1, <2>1, <2>2, <3>3, SwitchOnly
  <2>3. CASE currTask[c] \in Tasks
    <3>1. PICK u \in Tasks : u = currTask[c]
      BY <2>3
    <3>2. OsSchedResched(c, HPFEnqueue(g_schedHPF, u, atHead), MakeReady(taskStatus, u))
      BY <1>0, <1>3, <2>3, <3>1 DEF LOS_Schedule
    <3>3. Switches(c, HPFEnqueue(g_schedHPF, u, atHead), MakeReady(taskStatus, u))
      BY <2>1, <3>1, <3>2, YieldSwitches
    <3> QED BY <1>0, <1>1, <2>1, <2>3, <3>3, SwitchOnly
  <2> QED BY <1>0, <2>2, <2>3
<1>4. CASE LOS_TaskYield(c, t)
  <2>1. /\ UNCHANGED prioVars /\ UNCHANGED <<pendList, scanning, call>>
        /\ currTask[c] = t /\ call[t] = "NONE"
        /\ OsSchedResched(c, HPFEnqueue(g_schedHPF, t, FALSE), MakeReady(taskStatus, t))
    BY <1>4 DEF LOS_TaskYield, Calls
  <2>2. Switches(c, HPFEnqueue(g_schedHPF, t, FALSE), MakeReady(taskStatus, t))
    BY <2>1, YieldSwitches
  <2> QED BY <1>0, <1>1, <2>1, <2>2, SwitchOnly
<1>5. CASE LOS_TaskDelay(c, t)
  BY <1>1, <1>2, <1>5 DEF LOS_TaskDelay
<1>6. CASE OsTaskWait(c, t, timed)
  BY <1>0, <1>1, <1>6, WaitKeeps DEF OsTaskWait, Calls
<1>7. CASE OsMuxPendOp(c, t, timed)
  <2>1. muxOwner \in Tasks /\ priority[t] \in Prios
    BY <1>0, <1>7 DEF OsMuxPendOp, PrioTypeOK
  <2>2. /\ CountInPlace(muxOwner, priority[t]) /\ basePrio' = basePrio
        /\ priority' = [priority EXCEPT ![muxOwner] = priority[t]]
        /\ HPFWait(c, t, timed) /\ currTask[c] = t
    BY <1>7 DEF OsMuxPendOp, Calls
  <2>3. PrioKept
    BY <2>1, <2>2, InPlaceKeeps
  <2>4. priority' \in [Tasks -> Prios]
    BY <1>0, <2>1, <2>2 DEF PrioTypeOK
  <2> QED BY <1>0, <2>2, <2>3, <2>4, WaitKeeps
<1>8. CASE SuspendSelf(c, t)
  BY <1>1, <1>2, <1>8 DEF SuspendSelf
<1>9. CASE OsRunningTaskToExit(c, t, p)
  <2>1. PrioKept /\ basePrio' = basePrio
    BY <1>9, UnlockKeeps DEF OsRunningTaskToExit
  <2>2. priority' \in [Tasks -> Prios]
    BY <1>0, <1>9, UnlockTypes DEF OsRunningTaskToExit, PrioTypeOK
  <2> QED BY <1>2, <1>9, <2>1, <2>2 DEF OsRunningTaskToExit
<1> QED BY <1>3, <1>4, <1>5, <1>6, <1>7, <1>8, <1>9

-----------------------------------------------------------------------------
(* Operations on a task that is not on a CPU                                *)

\* The flags of one such task change.
LEMMA ChangeOne ==
    ASSUME IInv, SInv, NEW t \in Tasks, NEW f, FlagsOK(f), "RUNNING" \notin f,
           "RUNNING" \notin taskStatus[t], taskStatus' = [taskStatus EXCEPT ![t] = f],
           UNCHANGED currTask
    PROVE  /\ FlagsInv' /\ CurrInv'
           /\ taskStatus'[t] = f /\ \A u \in Tasks : u # t => taskStatus'[u] = taskStatus[u]
           /\ ReadySet(taskStatus') = IF "READY" \in f THEN ReadySet(taskStatus) \cup {t}
                                                       ELSE ReadySet(taskStatus) \ {t}
<1>1. taskStatus'[t] = f /\ \A u \in Tasks : u # t => taskStatus'[u] = taskStatus[u]
  BY DEF IInv, RestTypeOK
<1>2. FlagsInv'
  BY <1>1 DEF SInv, FlagsInv
<1>3. CurrInv'
  BY <1>1 DEF SInv, CurrInv
<1>4. ReadySet(taskStatus') = IF "READY" \in f THEN ReadySet(taskStatus) \cup {t}
                                               ELSE ReadySet(taskStatus) \ {t}
  BY <1>1 DEF ReadySet
<1> QED BY <1>1, <1>2, <1>3, <1>4

\* It is queued, under the priorities it has after the step ...
LEMMA QueueAdd ==
    ASSUME IInv, SInv, NEW t \in Tasks, t \notin ReadySet(taskStatus), NEW atHead \in BOOLEAN,
           NEW b \in BasePrios, NEW p \in Prios, basePrio'[t] = b, priority'[t] = p,
           \A u \in Tasks : u # t => basePrio'[u] = basePrio[u] /\ priority'[u] = priority[u],
           inherited' = inherited,
           g_schedHPF' = PriQueInsert(g_schedHPF, t, b, p, atHead),
           ReadySet(taskStatus') = ReadySet(taskStatus) \cup {t}
    PROVE  QueueInv' /\ ExactInv'
<1>1. PICK R \in SUBSET Tasks : R = ReadySet(taskStatus)
  BY DEF ReadySet
<1>2. g_schedHPF \in RunQueues
  BY DEF IInv, QueueOK
<1>3. Once(PriQueInsert(g_schedHPF, t, b, p, atHead), R \cup {t})
  BY <1>1, <1>2, InsertOnce DEF SInv, QueueInv
<1>4. QueueInv'
  BY <1>1, <1>3 DEF QueueInv, Once
<1>5. ASSUME inherited' = 0 PROVE Exact(g_schedHPF', ReadySet(taskStatus'), basePrio', priority')
  <2>1. PICK base, pr : base = basePrio' /\ pr = priority'
    OBVIOUS
  <2>2. Exact(g_schedHPF, R, basePrio, priority)
    BY <1>1, <1>5 DEF SInv, ExactInv
  <2>3. \A u \in R : base[u] = basePrio[u] /\ pr[u] = priority[u]
    BY <1>1, <2>1
  <2>4. Exact(g_schedHPF, R, base, pr)
    BY <2>2, <2>3, ExactMoved
  <2>5. Exact(PriQueInsert(g_schedHPF, t, b, p, atHead), R \cup {t}, base, pr)
    BY <1>1, <1>2, <2>1, <2>4, InsertExact
  <2> QED BY <1>1, <2>1, <2>5
<1> QED BY <1>4, <1>5 DEF ExactInv

\* ... or leaves the run queue if it is there ...
LEMMA QueueRemove ==
    ASSUME IInv, SInv, NEW t \in Tasks, PrioKept, basePrio' = basePrio, priority' \in [Tasks -> Prios],
           g_schedHPF' = HPFDequeue(g_schedHPF, taskStatus, priority', t),
           ReadySet(taskStatus') = ReadySet(taskStatus) \ {t}
    PROVE  QueueInv' /\ ExactInv'
<1>1. PICK R \in SUBSET Tasks : R = ReadySet(taskStatus)
  BY DEF ReadySet
<1>2. PICK pr \in [Tasks -> Prios] : pr = priority'
  OBVIOUS
<1>3. g_schedHPF \in RunQueues /\ basePrio[t] \in BasePrios /\ pr[t] \in Prios /\ Once(g_schedHPF, R)
  BY <1>1 DEF IInv, QueueOK, PrioTypeOK, SInv, QueueInv
<1>4. inherited' = 0 => Exact(g_schedHPF, R, basePrio, pr)
  BY <1>1, <1>2, ExactKept DEF SInv
<1>5. CASE t \in R
  <2>1. g_schedHPF' = PriQueDelete(g_schedHPF, t, basePrio[t], pr[t])
    BY <1>1, <1>2, <1>5 DEF HPFDequeue, ReadySet
  <2>2. Once(PriQueDelete(g_schedHPF, t, basePrio[t], pr[t]), R \ {t})
    BY <1>3, DeleteOnce
  <2>3. inherited' = 0 => Exact(PriQueDelete(g_schedHPF, t, basePrio[t], pr[t]), R \ {t}, basePrio, pr)
    BY <1>3, <1>4, <1>5, DeleteExact
  <2>4. QueueInv'
    BY <1>1, <2>1, <2>2 DEF QueueInv, Once
  <2>5. ExactInv'
    BY <1>1, <1>2, <2>1, <2>3 DEF ExactInv
  <2> QED BY <2>4, <2>5
<1>6. CASE t \notin R
  <2>1. g_schedHPF' = g_schedHPF
    BY <1>1, <1>6 DEF HPFDequeue, ReadySet
  <2>2. ReadySet(taskStatus') = R
    BY <1>1, <1>6
  <2>3. QueueInv'
    BY <1>3, <2>1, <2>2 DEF QueueInv, Once
  <2>4. ExactInv'
    BY <1>2, <1>4, <2>1, <2>2 DEF ExactInv
  <2> QED BY <2>3, <2>4
<1> QED BY <1>5, <1>6

\* ... or the run queue stays as it is.
LEMMA QueueSame ==
    ASSUME IInv, SInv, PrioKept, UNCHANGED g_schedHPF,
           \A u \in ReadySet(taskStatus) : basePrio'[u] = basePrio[u],
           ReadySet(taskStatus') = ReadySet(taskStatus)
    PROVE  QueueInv' /\ ExactInv'
<1>1. QueueInv'
  BY DEF SInv, QueueInv, Once
<1>2. ASSUME inherited' = 0 PROVE Exact(g_schedHPF, ReadySet(taskStatus), basePrio', priority')
  <2>1. PICK base, pr : base = basePrio' /\ pr = priority'
    OBVIOUS
  <2>2. Exact(g_schedHPF, ReadySet(taskStatus), basePrio, pr)
    BY <1>2, <2>1, ExactKept DEF SInv
  <2>3. \A u \in ReadySet(taskStatus) : base[u] = basePrio[u] /\ pr[u] = pr[u]
    BY <2>1
  <2>4. Exact(g_schedHPF, ReadySet(taskStatus), base, pr)
    BY <2>2, <2>3, ExactMoved
  <2> QED BY <2>1, <2>4
<1> QED BY <1>1, <1>2 DEF ExactInv

\* The wait list and the calls, when only t changes.
LEMMA PendCallBut ==
    ASSUME IInv, SInv, NEW t \in Tasks,
           \A u \in Tasks : u # t => taskStatus'[u] = taskStatus[u] /\ call'[u] = call[u],
           pendList' = pendList \/ pendList' = LOS_ListDelete(pendList, t),
           pendList' = pendList => t \notin ToSet(pendList) \/ "PENDING" \in taskStatus'[t],
           call'[t] = "WAIT" => taskStatus'[t] \cap {"PENDING", "TIMEOUT"} # {},
           "UNUSED" \in taskStatus'[t] => call'[t] = "NONE"
    PROVE  PendInv' /\ CallInv'
<1>1. pendList \in Seq(Tasks) /\ IsInjective(pendList) /\ ToSet(pendList) \subseteq Tasks
  BY ToSetIn DEF IInv, RestTypeOK, SInv, PendInv
<1>2. PICK s : s = LOS_ListDelete(pendList, t)
  OBVIOUS
<1>3. IsInjective(s) /\ ToSet(s) = ToSet(pendList) \ {t}
  BY <1>1, <1>2, DeleteList
<1>4. /\ IsInjective(pendList') /\ ToSet(pendList') \subseteq ToSet(pendList)
      /\ t \in ToSet(pendList') => "PENDING" \in taskStatus'[t]
  BY <1>1, <1>2, <1>3
<1>5. ASSUME NEW u \in ToSet(pendList') PROVE "PENDING" \in taskStatus'[u]
  <2>1. u \in Tasks /\ "PENDING" \in taskStatus[u]
    BY <1>1, <1>4 DEF SInv, PendInv
  <2> QED BY <2>1, <1>4
<1>6. PendInv'
  BY <1>4, <1>5 DEF PendInv
<1>7. CallInv'
  BY DEF SInv, CallInv
<1> QED BY <1>6, <1>7

\* Nothing but the flags and timeout of t changes, and it is in no timed wait afterwards.
LEMMA TimeEnds ==
    ASSUME IInv, SInv, ~fault, NEW t \in Tasks,
           \A u \in Tasks : u # t =>
               /\ taskStatus'[u] = taskStatus[u]
               /\ responseTime'[u] = responseTime[u]
               /\ u \in timeoutQueue => u \in timeoutQueue'
               /\ \A c \in Cpus : scanning[c] = u => scanning'[c] = u,
           taskStatus'[t] \cap TIMED = {}
    PROVE  TimeInv'
BY TimeBut DEF SInv

LEMMA TimeDeleteOthers ==
    ASSUME IInv, NEW t \in Tasks, OsSchedTimeoutQueueDelete(t) \/ UNCHANGED timeVars
    PROVE  \A u \in Tasks : u # t => /\ responseTime'[u] = responseTime[u]
                                     /\ u \in timeoutQueue => u \in timeoutQueue'
BY DEF OsSchedTimeoutQueueDelete, timeVars, IInv, TimeTypeOK

LEMMA CreateSafe ==
    ASSUME IInv, SInv, NEW t \in Tasks, NEW b \in BasePrios, NEW p \in Prios,
           LOS_TaskCreateOnly(t, b, p) \/ LOS_TaskCreate(t, b, p)
    PROVE  SInv'
<1>0. /\ ~fault /\ "UNUSED" \in taskStatus[t] /\ FlagsOK(taskStatus[t])
      /\ basePrio \in [Tasks -> BasePrios] /\ priority \in [Tasks -> Prios]
      /\ responseTime \in [Tasks -> {"SET", "INVALID"}]
      /\ call[t] = "NONE"
  BY DEF LOS_TaskCreateOnly, LOS_TaskCreate, SomeCpuFree, Free, IsFree, SInv, FlagsInv, CallInv,
         IInv, PrioTypeOK, TimeTypeOK
<1>1. taskStatus[t] \subseteq {"UNUSED", "TIMEOUT"}
  BY <1>0 DEF FlagsOK
<1>2. "RUNNING" \notin taskStatus[t] /\ t \notin ReadySet(taskStatus) /\ t \notin ToSet(pendList)
  <2>1. "RUNNING" \notin taskStatus[t] /\ "READY" \notin taskStatus[t] /\ "PENDING" \notin taskStatus[t]
    BY <1>1
  <2> QED BY <2>1 DEF ReadySet, SInv, PendInv
<1>3. /\ UNCHANGED <<inherited, currTask, pendList, timeoutQueue, scanning, call>>
      /\ basePrio' = [basePrio EXCEPT ![t] = b] /\ priority' = [priority EXCEPT ![t] = p]
      /\ responseTime' = [responseTime EXCEPT ![t] = "INVALID"]
  BY DEF LOS_TaskCreateOnly, LOS_TaskCreate
<1>4. PICK f : /\ taskStatus' = [taskStatus EXCEPT ![t] = f]
               /\ \/ f = {"INIT"} /\ UNCHANGED g_schedHPF
                  \/ f = {"READY"} /\ g_schedHPF' = PriQueInsert(g_schedHPF, t, b, p, FALSE)
  BY DEF LOS_TaskCreateOnly, LOS_TaskCreate
<1>5. FlagsOK(f) /\ "RUNNING" \notin f /\ "UNUSED" \notin f /\ f \cap TIMED = {}
  BY <1>4 DEF FlagsOK, TIMED
<1>6. /\ FlagsInv' /\ CurrInv'
      /\ taskStatus'[t] = f /\ \A u \in Tasks : u # t => taskStatus'[u] = taskStatus[u]
      /\ ReadySet(taskStatus') = IF "READY" \in f THEN ReadySet(taskStatus) \cup {t}
                                                  ELSE ReadySet(taskStatus) \ {t}
  BY <1>2, <1>3, <1>4, <1>5, ChangeOne
<1>7. QueueInv' /\ ExactInv'
  <2>1. /\ basePrio'[t] = b /\ priority'[t] = p
        /\ \A u \in Tasks : u # t => basePrio'[u] = basePrio[u] /\ priority'[u] = priority[u]
    BY <1>0, <1>3
  <2>2. CASE f = {"READY"} /\ g_schedHPF' = PriQueInsert(g_schedHPF, t, b, p, FALSE)
    <3>1. ReadySet(taskStatus') = ReadySet(taskStatus) \cup {t}
      BY <1>6, <2>2
    <3> QED BY <1>2, <1>3, <2>1, <2>2, <3>1, QueueAdd
  <2>3. CASE f = {"INIT"} /\ UNCHANGED g_schedHPF
    <3>1. ReadySet(taskStatus') = ReadySet(taskStatus)
      BY <1>2, <1>6, <2>3
    <3>2. \A u \in ReadySet(taskStatus) : basePrio'[u] = basePrio[u] /\ priority'[u] = priority[u]
      BY <1>2, <2>1 DEF ReadySet
    <3>3. PrioKept
      BY <1>3, <3>2 DEF PrioKept
    <3> QED BY <2>3, <3>1, <3>2, <3>3, QueueSame
  <2> QED BY <1>4, <2>2, <2>3
<1>8. PendInv' /\ CallInv'
  BY <1>0, <1>2, <1>3, <1>6, PendCallBut
<1>9. TimeInv'
  BY <1>0, <1>3, <1>5, <1>6, TimeEnds
<1> QED BY <1>6, <1>7, <1>8, <1>9 DEF SInv

LEMMA WakeSafe ==
    ASSUME IInv, SInv, NEW t \in Tasks, NEW atHead \in BOOLEAN, HPFWake(t, atHead)
    PROVE  SInv'
<1>0. /\ ~fault /\ t \in ToSet(pendList) /\ taskStatus \in [Tasks -> SUBSET Flags]
      /\ basePrio[t] \in BasePrios /\ priority[t] \in Prios
      /\ call \in [Tasks -> {"NONE", "WAIT", "GRANTED", "EXPIRED"}]
  BY DEF HPFWake, SomeCpuFree, Free, IInv, RestTypeOK, PrioTypeOK
<1>1. FlagsOK(taskStatus[t]) /\ "PENDING" \in taskStatus[t]
  BY <1>0 DEF SInv, FlagsInv, PendInv
<1>2. \A e \in {"RUNNING", "READY", "UNUSED", "INIT", "DELAY"} : e \notin taskStatus[t]
  BY <1>1 DEF FlagsOK
<1>3. PICK g : g = taskStatus[t] \ {"PENDING", "PEND_TIME"}
  OBVIOUS
<1>4. PICK f : /\ taskStatus' = [taskStatus EXCEPT ![t] = f]
               /\ \/ "SUSPENDED" \in g /\ f = g /\ UNCHANGED g_schedHPF
                  \/ /\ "SUSPENDED" \notin g /\ f = (g \ BLOCKED) \cup {"READY"}
                     /\ g_schedHPF' = HPFEnqueue(g_schedHPF, t, atHead)
  <2>1. PICK st : st = Without(taskStatus, t, {"PENDING", "PEND_TIME"})
    OBVIOUS
  <2>2. st = [taskStatus EXCEPT ![t] = g] /\ st[t] = g
    BY <2>1, <1>0, <1>3 DEF Without
  <2>3. MakeReady(st, t) = [taskStatus EXCEPT ![t] = (g \ BLOCKED) \cup {"READY"}]
    BY <2>2, <1>0 DEF MakeReady
  <2>4. \/ "SUSPENDED" \in st[t] /\ taskStatus' = st /\ UNCHANGED g_schedHPF
        \/ /\ "SUSPENDED" \notin st[t] /\ taskStatus' = MakeReady(st, t)
           /\ g_schedHPF' = HPFEnqueue(g_schedHPF, t, atHead)
    BY <2>1 DEF HPFWake
  <2> QED BY <2>2, <2>3, <2>4
<1>5. /\ FlagsOK(f) /\ "RUNNING" \notin f /\ "UNUSED" \notin f /\ f \cap TIMED = {}
      /\ "READY" \in f <=> "SUSPENDED" \notin g
  <2>1. g \subseteq {"SUSPENDED", "FROZEN", "TIMEOUT"} /\ ("FROZEN" \in g => "SUSPENDED" \in g)
    BY <1>0, <1>1, <1>2, <1>3 DEF Flags, FlagsOK
  <2>2. CASE "SUSPENDED" \in g /\ f = g
    BY <2>1, <2>2 DEF FlagsOK, TIMED
  <2>3. CASE "SUSPENDED" \notin g /\ f = (g \ BLOCKED) \cup {"READY"}
    <3>1. f \subseteq {"READY", "TIMEOUT"} /\ "READY" \in f
      BY <2>1, <2>3
    <3> QED BY <2>3, <3>1 DEF FlagsOK, TIMED
  <2> QED BY <1>4, <2>2, <2>3
<1>6. UNCHANGED <<prioVars, currTask, scanning>> /\ pendList' = LOS_ListDelete(pendList, t)
      /\ call' = [call EXCEPT ![t] = "GRANTED"]
      /\ (OsSchedTimeoutQueueDelete(t) \/ UNCHANGED timeVars)
  BY DEF HPFWake
<1>7. /\ FlagsInv' /\ CurrInv'
      /\ taskStatus'[t] = f /\ \A u \in Tasks : u # t => taskStatus'[u] = taskStatus[u]
      /\ ReadySet(taskStatus') = IF "READY" \in f THEN ReadySet(taskStatus) \cup {t}
                                                  ELSE ReadySet(taskStatus) \ {t}
  BY <1>2, <1>4, <1>5, <1>6, ChangeOne
<1>8. t \notin ReadySet(taskStatus)
  BY <1>2 DEF ReadySet
<1>9. UNCHANGED <<basePrio, priority, inherited>> /\ PrioKept
  BY <1>6 DEF prioVars, PrioKept
<1>10. QueueInv' /\ ExactInv'
  <2>1. CASE "SUSPENDED" \in g
    <3>1. ReadySet(taskStatus') = ReadySet(taskStatus) /\ UNCHANGED g_schedHPF
      BY <1>4, <1>5, <1>7, <1>8, <2>1
    <3> QED BY <1>9, <3>1, QueueSame
  <2>2. CASE "SUSPENDED" \notin g
    <3>1. ReadySet(taskStatus') = ReadySet(taskStatus) \cup {t}
          /\ g_schedHPF' = PriQueInsert(g_schedHPF, t, basePrio[t], priority[t], atHead)
      BY <1>4, <1>5, <1>7, <2>2 DEF HPFEnqueue
    <3> QED BY <1>0, <1>8, <1>9, <3>1, QueueAdd
  <2> QED BY <2>1, <2>2
<1>11. PendInv' /\ CallInv'
  <2>1. call'[t] = "GRANTED" /\ \A u \in Tasks : u # t => call'[u] = call[u]
    BY <1>0, <1>6
  <2>2. pendList' = pendList => t \notin ToSet(pendList)
    <3>1. pendList \in Seq(Tasks) /\ IsInjective(pendList)
      BY DEF IInv, RestTypeOK, SInv, PendInv
    <3>2. t \notin ToSet(LOS_ListDelete(pendList, t))
      BY <3>1, DeleteList
    <3> QED BY <3>2, <1>6
  <2> QED BY <1>5, <1>6, <1>7, <2>1, <2>2, PendCallBut
<1>12. TimeInv'
  BY <1>0, <1>5, <1>6, <1>7, TimeDeleteOthers, TimeEnds
<1> QED BY <1>7, <1>10, <1>11, <1>12 DEF SInv

LEMMA SuspendSafe ==
    ASSUME IInv, SInv, ~SuspendsInit, NEW t \in Tasks, NEW pm, LOS_TaskSuspend(t, pm)
    PROVE  SInv'
<1>1. PICK f0 : f0 = taskStatus[t]
  OBVIOUS
<1>2. PICK x : x = IF pm /\ f0 \cap TIMED # {} THEN {"SUSPENDED", "FROZEN"} ELSE {"SUSPENDED"}
  OBVIOUS
<1>3. /\ ~fault /\ taskStatus \in [Tasks -> SUBSET Flags] /\ priority \in [Tasks -> Prios]
      /\ f0 \cap {"UNUSED", "SUSPENDED", "RUNNING"} = {} /\ "INIT" \notin f0
      /\ FlagsOK(f0) /\ f0 \subseteq Flags
  BY <1>1 DEF LOS_TaskSuspend, SomeCpuFree, Free, IInv, RestTypeOK, PrioTypeOK, SInv, FlagsInv
<1>4. PICK f : f = (f0 \ {"READY"}) \cup x
  OBVIOUS
<1>5. /\ FlagsOK(f) /\ "RUNNING" \notin f /\ "READY" \notin f /\ "UNUSED" \notin f
      /\ "FROZEN" \notin f0
  <2>1. f0 \subseteq {"READY", "TIMEOUT"} \/ f0 \subseteq {"PENDING", "DELAY", "PEND_TIME", "TIMEOUT"}
    BY <1>3 DEF FlagsOK, Flags
  <2>2. x \in {{"SUSPENDED"}, {"SUSPENDED", "FROZEN"}}
    BY <1>2
  <2> QED BY <1>3, <1>4, <2>1, <2>2 DEF FlagsOK
<1>6. taskStatus' = [taskStatus EXCEPT ![t] = f]
  <2>1. taskStatus' = With(Without(taskStatus, t, {"READY"}), t, x)
    BY <1>1, <1>2 DEF LOS_TaskSuspend
  <2> QED BY <2>1, <1>1, <1>3, <1>4 DEF With, Without
<1>7. UNCHANGED <<prioVars, currTask, pendList, scanning, call>> /\ SchedTaskFreeze(t, pm)
      /\ g_schedHPF' = HPFDequeue(g_schedHPF, taskStatus, priority, t)
  BY DEF LOS_TaskSuspend
<1>8. /\ FlagsInv' /\ CurrInv'
      /\ taskStatus'[t] = f /\ \A u \in Tasks : u # t => taskStatus'[u] = taskStatus[u]
      /\ ReadySet(taskStatus') = ReadySet(taskStatus) \ {t}
  BY <1>1, <1>3, <1>5, <1>6, <1>7, ChangeOne
<1>9. QueueInv' /\ ExactInv'
  <2>1. UNCHANGED <<basePrio, priority, inherited>> /\ PrioKept
    BY <1>7 DEF prioVars, PrioKept
  <2> QED BY <1>3, <1>7, <1>8, <2>1, QueueRemove
<1>10. PendInv' /\ CallInv'
  <2>1. \A e \in {"PENDING", "TIMEOUT"} : e \in f <=> e \in f0
    BY <1>2, <1>4
  <2>2. t \notin ToSet(pendList) \/ "PENDING" \in taskStatus'[t]
    BY <2>1, <1>1, <1>8 DEF SInv, PendInv
  <2>3. call[t] = "WAIT" => taskStatus'[t] \cap {"PENDING", "TIMEOUT"} # {}
    BY <2>1, <1>1, <1>8 DEF SInv, CallInv
  <2> QED BY <1>5, <1>7, <1>8, <2>2, <2>3, PendCallBut
<1>11. TimeInv'
  <2>1. f \cap TIMED = f0 \cap TIMED
    BY <1>2, <1>4 DEF TIMED
  <2>2. responseTime' = responseTime /\ \A u \in Tasks : u # t /\ u \in timeoutQueue => u \in timeoutQueue'
    BY <1>7 DEF SchedTaskFreeze, timeVars
  <2>3. ASSUME ~fault', f \cap TIMED # {} PROVE HasTimeout(t)'
    <3>1. HasTimeout(t)
      BY <1>1, <1>3, <2>1, <2>3 DEF SInv, TimeInv
    <3>2. CASE pm
      <4>1. "FROZEN" \in f
        BY <1>2, <1>4, <2>1, <2>3, <3>2
      <4> QED BY <3>1, <4>1, <1>7, <1>8, <2>2 DEF HasTimeout
    <3>3. CASE ~pm
      <4>1. timeoutQueue' = timeoutQueue
        BY <1>7, <3>3 DEF SchedTaskFreeze, timeVars
      <4> QED BY <3>1, <4>1, <1>1, <1>5, <1>7, <2>2 DEF HasTimeout
    <3> QED BY <3>2, <3>3
  <2> QED BY <1>3, <1>7, <1>8, <2>2, <2>3, TimeBut DEF SInv
<1> QED BY <1>8, <1>9, <1>10, <1>11 DEF SInv

LEMMA ResumeSafe ==
    ASSUME IInv, SInv, NEW t \in Tasks, NEW expired \in BOOLEAN, NEW atHead \in BOOLEAN,
           LOS_TaskResume(t, expired, atHead)
    PROVE  SInv'
<1>1. PICK f0 : f0 = taskStatus[t]
  OBVIOUS
<1>2. PICK ends \in BOOLEAN : ends <=> "FROZEN" \in f0 /\ expired
  OBVIOUS
<1>3. PICK g : g = f0 \ ({"SUSPENDED", "FROZEN"} \cup IF ends THEN BLOCKED ELSE {})
  OBVIOUS
<1>4. /\ ~fault /\ taskStatus \in [Tasks -> SUBSET Flags]
      /\ basePrio[t] \in BasePrios /\ priority[t] \in Prios
      /\ call \in [Tasks -> {"NONE", "WAIT", "GRANTED", "EXPIRED"}]
      /\ "SUSPENDED" \in f0 /\ "UNUSED" \notin f0 /\ FlagsOK(f0) /\ f0 \subseteq Flags
  BY <1>1 DEF LOS_TaskResume, SomeCpuFree, Free, IInv, RestTypeOK, PrioTypeOK, SInv, FlagsInv
<1>5. f0 \subseteq {"SUSPENDED", "FROZEN", "PENDING", "DELAY", "PEND_TIME", "TIMEOUT"}
  BY <1>4 DEF FlagsOK, Flags
<1>6. PICK f : /\ taskStatus' = [taskStatus EXCEPT ![t] = f]
               /\ \/ g \cap {"PENDING", "DELAY"} # {} /\ f = g /\ UNCHANGED g_schedHPF
                  \/ /\ g \cap {"PENDING", "DELAY"} = {} /\ f = (g \ BLOCKED) \cup {"READY"}
                     /\ g_schedHPF' = HPFEnqueue(g_schedHPF, t, atHead)
  <2>1. PICK st : st = Without(taskStatus, t,
                               {"SUSPENDED", "FROZEN"} \cup IF ends THEN BLOCKED ELSE {})
    OBVIOUS
  <2>2. st = [taskStatus EXCEPT ![t] = g] /\ st[t] = g
    BY <2>1, <1>1, <1>3, <1>4 DEF Without
  <2>3. MakeReady(st, t) = [taskStatus EXCEPT ![t] = (g \ BLOCKED) \cup {"READY"}]
    BY <2>2, <1>4 DEF MakeReady
  <2>4. OsTaskIsBlocked(st, t) <=> g \cap {"PENDING", "DELAY"} # {}
    <3>1. "SUSPENDED" \notin g
      BY <1>3
    <3> QED BY <2>2, <3>1 DEF OsTaskIsBlocked
  <2>5. \/ OsTaskIsBlocked(st, t) /\ taskStatus' = st /\ UNCHANGED g_schedHPF
        \/ /\ ~OsTaskIsBlocked(st, t) /\ taskStatus' = MakeReady(st, t)
           /\ g_schedHPF' = HPFEnqueue(g_schedHPF, t, atHead)
    BY <2>1, <1>1, <1>2 DEF LOS_TaskResume
  <2> QED BY <2>2, <2>3, <2>4, <2>5
<1>7. /\ FlagsOK(f) /\ "RUNNING" \notin f /\ "UNUSED" \notin f
      /\ "READY" \in f <=> g \cap {"PENDING", "DELAY"} = {}
      /\ "READY" \in f => f \cap TIMED = {}
      /\ ends => "READY" \in f
      /\ ~ends => f \cap {"PENDING", "TIMEOUT"} = f0 \cap {"PENDING", "TIMEOUT"}
                  /\ f \cap TIMED = f0 \cap TIMED
  <2>1. g \subseteq {"PENDING", "DELAY", "PEND_TIME", "TIMEOUT"} /\ (ends => g \subseteq {"TIMEOUT"})
    BY <1>3, <1>5 DEF BLOCKED
  <2>2. ~ends => g = f0 \ {"SUSPENDED", "FROZEN"}
    BY <1>3
  <2>3. "DELAY" \in g => "PENDING" \notin g
    BY <1>3, <1>4 DEF FlagsOK
  <2>4. "PEND_TIME" \in g => "PENDING" \in g
    <3>1. "PEND_TIME" \in f0 => "PENDING" \in f0
      BY <1>4 DEF FlagsOK
    <3> QED BY <2>1, <2>2, <3>1
  <2>5. CASE g \cap {"PENDING", "DELAY"} # {} /\ f = g
    <3>1. ~ends
      BY <2>1, <2>5
    <3>2. FlagsOK(f)
      BY <2>1, <2>3, <2>4, <2>5 DEF FlagsOK
    <3>3. "READY" \notin f /\ "RUNNING" \notin f /\ "UNUSED" \notin f
      BY <2>1, <2>5
    <3>4. f \cap {"PENDING", "TIMEOUT"} = f0 \cap {"PENDING", "TIMEOUT"} /\ f \cap TIMED = f0 \cap TIMED
      BY <2>2, <2>5, <3>1 DEF TIMED
    <3> QED BY <2>5, <3>1, <3>2, <3>3, <3>4
  <2>6. CASE g \cap {"PENDING", "DELAY"} = {} /\ f = (g \ BLOCKED) \cup {"READY"}
    <3>1. g \subseteq {"TIMEOUT"}
      BY <2>1, <2>4, <2>6
    <3>2. f \subseteq {"READY", "TIMEOUT"} /\ "READY" \in f
      BY <2>6, <3>1
    <3>3. "TIMEOUT" \in f <=> "TIMEOUT" \in g
      BY <2>6 DEF BLOCKED
    <3>4. FlagsOK(f) /\ f \cap TIMED = {}
      BY <3>2 DEF FlagsOK, TIMED
    <3>5. ~ends => f \cap {"PENDING", "TIMEOUT"} = f0 \cap {"PENDING", "TIMEOUT"}
                   /\ f0 \cap TIMED = {}
      BY <2>2, <3>1, <3>2, <3>3 DEF TIMED
    <3> QED BY <2>6, <3>2, <3>4, <3>5
  <2> QED BY <1>6, <2>5, <2>6
<1>8. /\ UNCHANGED <<prioVars, currTask, scanning>> /\ SchedTaskUnfreeze(t, expired)
      /\ call' = [call EXCEPT ![t] = IF ends /\ @ = "WAIT" THEN "EXPIRED" ELSE @]
  BY <1>1, <1>2 DEF LOS_TaskResume
<1>9. /\ FlagsInv' /\ CurrInv'
      /\ taskStatus'[t] = f /\ \A u \in Tasks : u # t => taskStatus'[u] = taskStatus[u]
      /\ ReadySet(taskStatus') = IF "READY" \in f THEN ReadySet(taskStatus) \cup {t}
                                                  ELSE ReadySet(taskStatus) \ {t}
  <2>1. "RUNNING" \notin f0
    BY <1>5
  <2> QED BY <1>1, <1>6, <1>7, <1>8, <2>1, ChangeOne
<1>10. t \notin ReadySet(taskStatus)
  BY <1>1, <1>5 DEF ReadySet
<1>11. UNCHANGED <<basePrio, priority, inherited>> /\ PrioKept
  BY <1>8 DEF prioVars, PrioKept
<1>12. QueueInv' /\ ExactInv'
  <2>1. CASE "READY" \notin f
    <3>1. ReadySet(taskStatus') = ReadySet(taskStatus) /\ UNCHANGED g_schedHPF
      BY <1>6, <1>7, <1>9, <1>10, <2>1
    <3> QED BY <1>11, <3>1, QueueSame
  <2>2. CASE "READY" \in f
    <3>1. ReadySet(taskStatus') = ReadySet(taskStatus) \cup {t}
          /\ g_schedHPF' = PriQueInsert(g_schedHPF, t, basePrio[t], priority[t], atHead)
      BY <1>6, <1>7, <1>9, <2>2 DEF HPFEnqueue
    <3> QED BY <1>4, <1>10, <1>11, <3>1, QueueAdd
  <2> QED BY <2>1, <2>2
<1>13. PendInv' /\ CallInv'
  <2>1. /\ ends /\ call[t] = "WAIT" => call'[t] # "WAIT"
        /\ ~ends => call'[t] = call[t]
        /\ \A u \in Tasks : u # t => call'[u] = call[u]
    BY <1>4, <1>8
  <2>2. ASSUME call'[t] = "WAIT" PROVE f \cap {"PENDING", "TIMEOUT"} # {}
    <3>1. ~ends
      BY <1>4, <1>8, <2>2
    <3>2. f0 \cap {"PENDING", "TIMEOUT"} # {}
      BY <1>1, <2>1, <2>2, <3>1 DEF SInv, CallInv
    <3> QED BY <1>7, <3>1, <3>2
  <2>3. pendList' = LOS_ListDelete(pendList, t) \/ (~ends /\ pendList' = pendList)
    BY <1>1, <1>2, <1>8 DEF SchedTaskUnfreeze
  <2>4. ASSUME pendList' = pendList, t \in ToSet(pendList) PROVE "PENDING" \in f
    <3>1. pendList \in Seq(Tasks) /\ IsInjective(pendList) /\ "PENDING" \in f0
      BY <1>1, <2>4 DEF IInv, RestTypeOK, SInv, PendInv
    <3>2. t \notin ToSet(LOS_ListDelete(pendList, t))
      BY <3>1, DeleteList
    <3>3. ~ends
      BY <2>3, <2>4, <3>2
    <3> QED BY <1>7, <3>1, <3>3
  <2> QED BY <1>7, <1>9, <2>1, <2>2, <2>3, <2>4, PendCallBut
<1>14. TimeInv'
  <2>1. \A u \in Tasks : u # t => responseTime'[u] = responseTime[u]
                                  /\ (u \in timeoutQueue => u \in timeoutQueue')
    BY <1>8 DEF SchedTaskUnfreeze, timeVars, IInv, TimeTypeOK
  <2>2. ASSUME ~fault', f \cap TIMED # {} PROVE HasTimeout(t)'
    <3>1. ~ends /\ f0 \cap TIMED # {}
      BY <1>7, <2>2
    <3>2. HasTimeout(t)
      BY <1>1, <1>4, <3>1 DEF SInv, TimeInv
    <3>3. responseTime' = responseTime /\ (t \in timeoutQueue \/ "FROZEN" \in f0 => t \in timeoutQueue')
      BY <1>1, <1>2, <1>8, <3>1 DEF SchedTaskUnfreeze, timeVars
    <3> QED BY <1>1, <1>8, <3>2, <3>3 DEF HasTimeout
  <2> QED BY <1>4, <1>8, <1>9, <2>1, <2>2, TimeBut DEF SInv
<1> QED BY <1>9, <1>12, <1>13, <1>14 DEF SInv

LEMMA TimeoutWakeSafe ==
    ASSUME IInv, SInv, NEW t \in Tasks, NEW c \in Cpus, NEW atHead \in BOOLEAN,
           SchedTimeoutTaskWake(c, t, atHead)
    PROVE  SInv'
<1>1. PICK f0 : f0 = taskStatus[t]
  OBVIOUS
<1>2. /\ ~fault /\ taskStatus \in [Tasks -> SUBSET Flags]
      /\ basePrio[t] \in BasePrios /\ priority[t] \in Prios
      /\ scanning \in [Cpus -> Tasks \cup {NULL}] /\ scanning[c] = t
      /\ scanning' = [scanning EXCEPT ![c] = NULL]
      /\ FlagsOK(f0) /\ f0 \subseteq Flags
      /\ UNCHANGED <<prioVars, currTask, timeVars, call>>
      /\ pendList' = IF "PEND_TIME" \in f0 THEN LOS_ListDelete(pendList, t) ELSE pendList
  BY <1>1 DEF SchedTimeoutTaskWake, IInv, RestTypeOK, PrioTypeOK, SInv, FlagsInv
<1>3. UNCHANGED <<basePrio, priority, inherited, responseTime, timeoutQueue>> /\ PrioKept
  BY <1>2 DEF prioVars, timeVars, PrioKept
<1>4. \A u \in Tasks : u # t => \A d \in Cpus : scanning[d] = u => scanning'[d] = u
  BY <1>2
<1>5. CASE f0 \cap TIMED = {}
  <2>1. UNCHANGED <<taskStatus, g_schedHPF>>
    BY <1>1, <1>5 DEF SchedTimeoutTaskWake
  <2>2. UNCHANGED <<pendList, currTask, call>>
    BY <1>2, <1>5 DEF TIMED
  <2>3. FlagsInv' /\ CurrInv' /\ PendInv' /\ CallInv'
    BY <2>1, <2>2 DEF SInv, FlagsInv, CurrInv, PendInv, CallInv, ToSet, IsInjective
  <2>4. QueueInv' /\ ExactInv'
    BY <1>3, <2>1, QueueSame DEF ReadySet
  <2>5. TimeInv'
    BY <1>1, <1>2, <1>3, <1>4, <1>5, <2>1, TimeEnds
  <2> QED BY <2>3, <2>4, <2>5 DEF SInv
<1>6. CASE f0 \cap TIMED # {}
  <2>1. PICK g : g = (f0 \cup IF "PEND_TIME" \in f0 THEN {"TIMEOUT"} ELSE {})
                     \ {"PENDING", "PEND_TIME", "DELAY"}
    OBVIOUS
  <2>2. f0 \subseteq {"SUSPENDED", "FROZEN", "PENDING", "DELAY", "PEND_TIME", "TIMEOUT"}
    <3>1. "DELAY" \in f0 \/ "PEND_TIME" \in f0
      BY <1>6 DEF TIMED
    <3> QED BY <3>1, <1>2 DEF FlagsOK, Flags
  <2>3. PICK f : /\ taskStatus' = [taskStatus EXCEPT ![t] = f]
                 /\ \/ "SUSPENDED" \in f0 /\ f = g /\ UNCHANGED g_schedHPF
                    \/ /\ "SUSPENDED" \notin f0 /\ f = (g \ BLOCKED) \cup {"READY"}
                       /\ g_schedHPF' = HPFEnqueue(g_schedHPF, t, atHead)
    <3>1. PICK st : st = TimedOutFlags(taskStatus, t)
      OBVIOUS
    <3>2. st = [taskStatus EXCEPT ![t] = g] /\ st[t] = g
      BY <3>1, <1>1, <1>2, <2>1 DEF TimedOutFlags, With, Without
    <3>3. MakeReady(st, t) = [taskStatus EXCEPT ![t] = (g \ BLOCKED) \cup {"READY"}]
      BY <3>2, <1>2 DEF MakeReady
    <3>4. \/ "SUSPENDED" \in f0 /\ taskStatus' = st /\ UNCHANGED g_schedHPF
          \/ /\ "SUSPENDED" \notin f0 /\ taskStatus' = MakeReady(st, t)
             /\ g_schedHPF' = HPFEnqueue(g_schedHPF, t, atHead)
      BY <3>1, <1>1, <1>6 DEF SchedTimeoutTaskWake
    <3> QED BY <3>2, <3>3, <3>4
  <2>4. /\ FlagsOK(f) /\ "RUNNING" \notin f /\ "UNUSED" \notin f /\ f \cap TIMED = {}
        /\ "READY" \in f <=> "SUSPENDED" \notin f0
        /\ "TIMEOUT" \in f <=> "TIMEOUT" \in f0 \/ "PEND_TIME" \in f0
    <3>1. /\ g \subseteq {"SUSPENDED", "FROZEN", "TIMEOUT"} /\ ("FROZEN" \in g => "SUSPENDED" \in g)
          /\ "SUSPENDED" \in g <=> "SUSPENDED" \in f0
          /\ "TIMEOUT" \in g <=> "TIMEOUT" \in f0 \/ "PEND_TIME" \in f0
      BY <1>2, <2>1, <2>2 DEF FlagsOK
    <3>2. CASE "SUSPENDED" \in f0 /\ f = g
      BY <3>1, <3>2 DEF FlagsOK, TIMED
    <3>3. CASE "SUSPENDED" \notin f0 /\ f = (g \ BLOCKED) \cup {"READY"}
      <4>1. f \subseteq {"READY", "TIMEOUT"} /\ "READY" \in f
        BY <3>1, <3>3
      <4>2. "TIMEOUT" \in f <=> "TIMEOUT" \in g
        BY <3>3 DEF BLOCKED
      <4> QED BY <3>1, <3>3, <4>1, <4>2 DEF FlagsOK, TIMED
    <3> QED BY <2>3, <3>2, <3>3
  <2>5. /\ FlagsInv' /\ CurrInv'
        /\ taskStatus'[t] = f /\ \A u \in Tasks : u # t => taskStatus'[u] = taskStatus[u]
        /\ ReadySet(taskStatus') = IF "READY" \in f THEN ReadySet(taskStatus) \cup {t}
                                                    ELSE ReadySet(taskStatus) \ {t}
    <3>1. "RUNNING" \notin f0 /\ UNCHANGED currTask
      BY <1>2, <2>2
    <3> QED BY <1>1, <2>3, <2>4, <3>1, ChangeOne
  <2>6. t \notin ReadySet(taskStatus)
    BY <1>1, <2>2 DEF ReadySet
  <2>7. QueueInv' /\ ExactInv'
    <3>1. CASE "SUSPENDED" \in f0
      <4>1. ReadySet(taskStatus') = ReadySet(taskStatus) /\ UNCHANGED g_schedHPF
        BY <2>3, <2>4, <2>5, <2>6, <3>1
      <4> QED BY <1>3, <4>1, QueueSame
    <3>2. CASE "SUSPENDED" \notin f0
      <4>1. ReadySet(taskStatus') = ReadySet(taskStatus) \cup {t}
            /\ g_schedHPF' = PriQueInsert(g_schedHPF, t, basePrio[t], priority[t], atHead)
        BY <2>3, <2>4, <2>5, <3>2 DEF HPFEnqueue
      <4> QED BY <1>2, <1>3, <2>6, <4>1, QueueAdd
    <3> QED BY <3>1, <3>2
  <2>8. PendInv' /\ CallInv'
    <3>1. "PENDING" \in f0 => "PEND_TIME" \in f0
      BY <1>2, <1>6 DEF FlagsOK, TIMED
    <3>2. call'[t] = "WAIT" => f \cap {"PENDING", "TIMEOUT"} # {}
      BY <1>1, <1>2, <2>4, <3>1 DEF SInv, CallInv
    <3>3. pendList' = pendList => t \notin ToSet(pendList)
      <4>1. pendList \in Seq(Tasks) /\ IsInjective(pendList)
            /\ (t \in ToSet(pendList) => "PENDING" \in f0)
        BY <1>1 DEF IInv, RestTypeOK, SInv, PendInv
      <4>2. t \notin ToSet(LOS_ListDelete(pendList, t))
        BY <4>1, DeleteList
      <4> QED BY <1>2, <3>1, <4>1, <4>2
    <3> QED BY <1>2, <2>4, <2>5, <3>2, <3>3, PendCallBut
  <2>9. TimeInv'
    BY <1>2, <1>3, <1>4, <2>4, <2>5, TimeEnds
  <2> QED BY <2>5, <2>7, <2>8, <2>9 DEF SInv
<1> QED BY <1>5, <1>6

LEMMA PriSetSafe ==
    ASSUME IInv, SInv, NEW t \in Tasks, NEW p \in Prios, NEW atHead \in BOOLEAN,
           LOS_TaskPriSet(t, p, atHead)
    PROVE  SInv'
<1>1. PICK f0 : f0 = taskStatus[t]
  OBVIOUS
<1>2. /\ ~fault /\ taskStatus \in [Tasks -> SUBSET Flags]
      /\ basePrio[t] \in BasePrios /\ priority \in [Tasks -> Prios]
      /\ FlagsOK(f0) /\ f0 \subseteq Flags /\ g_schedHPF \in RunQueues /\ Findable(g_schedHPF)
  BY <1>1 DEF LOS_TaskPriSet, SomeCpuFree, Free, IInv, RestTypeOK, QueueOK, PrioTypeOK, SInv, FlagsInv
<1>3. /\ UNCHANGED <<basePrio, inherited, currTask, pendList, timeoutQueue, responseTime, fault,
                     scanning, call>>
      /\ priority' = [priority EXCEPT ![t] = p]
  BY DEF LOS_TaskPriSet, timeVars
<1>4. priority'[t] = p /\ \A u \in Tasks : u # t => priority'[u] = priority[u]
  BY <1>2, <1>3
<1>5. ASSUME UNCHANGED taskStatus
      PROVE  FlagsInv' /\ CurrInv' /\ PendInv' /\ CallInv' /\ TimeInv'
  BY <1>3, <1>5
     DEF SInv, FlagsInv, CurrInv, PendInv, CallInv, TimeInv, HasTimeout, ToSet, IsInjective
<1>6. CASE "READY" \in f0
  <2>1. UNCHANGED taskStatus
    <3>1. (f0 \ BLOCKED) \cup {"READY"} = f0
      BY <1>2, <1>6 DEF FlagsOK, BLOCKED
    <3>2. taskStatus' = MakeReady(taskStatus, t)
      BY <1>1, <1>6 DEF LOS_TaskPriSet
    <3> QED BY <1>1, <1>2, <3>1, <3>2 DEF MakeReady
  <2>2. PICK R \in SUBSET Tasks : R = ReadySet(taskStatus)
    BY DEF ReadySet
  <2>3. PICK rq : rq = PriQueDelete(g_schedHPF, t, basePrio[t], priority[t])
    OBVIOUS
  <2>4. g_schedHPF' = PriQueInsert(rq, t, basePrio[t], p, atHead) /\ t \in R
    BY <1>1, <1>6, <2>2, <2>3 DEF LOS_TaskPriSet, HPFDequeue, ReadySet
  <2>5. rq \in RunQueues
    BY <1>2, <2>3, DeleteKeepsQueue
  <2>6. Once(rq, R \ {t}) /\ priority[t] \in Prios
    BY <1>2, <2>2, <2>3, DeleteOnce DEF SInv, QueueInv
  <2>7. QueueInv'
    <3>1. Once(PriQueInsert(rq, t, basePrio[t], p, atHead), (R \ {t}) \cup {t})
      BY <1>2, <2>5, <2>6, InsertOnce
    <3>2. (R \ {t}) \cup {t} = R
      BY <2>4
    <3> QED BY <2>1, <2>2, <2>4, <3>1, <3>2 DEF QueueInv, Once
  <2>8. ASSUME inherited' = 0 PROVE Exact(g_schedHPF', R, basePrio, priority')
    <3>1. Exact(g_schedHPF, R, basePrio, priority) /\ Once(g_schedHPF, R)
      BY <1>3, <2>2, <2>8 DEF SInv, ExactInv, QueueInv
    <3>2. Exact(rq, R \ {t}, basePrio, priority)
      BY <1>2, <2>3, <2>4, <2>6, <3>1, DeleteExact
    <3>3. PICK pr : pr = priority'
      OBVIOUS
    <3>4. pr[t] = p /\ \A u \in R \ {t} : basePrio[u] = basePrio[u] /\ pr[u] = priority[u]
      BY <1>4, <3>3
    <3>5. Exact(rq, R \ {t}, basePrio, pr)
      BY <3>2, <3>4, ExactMoved
    <3>6. Exact(PriQueInsert(rq, t, basePrio[t], p, atHead), (R \ {t}) \cup {t}, basePrio, pr)
      BY <1>2, <2>5, <3>4, <3>5, InsertExact
    <3>7. (R \ {t}) \cup {t} = R
      BY <2>4
    <3> QED BY <2>4, <3>3, <3>6, <3>7
  <2>9. ExactInv'
    <3>1. ReadySet(taskStatus') = R
      BY <2>1, <2>2
    <3>2. basePrio' = basePrio
      BY <1>3
    <3> QED BY <3>1, <3>2, <2>8 DEF ExactInv
  <2> QED BY <1>5, <2>1, <2>7, <2>9 DEF SInv
<1>7. CASE "INIT" \in f0
  <2>1. f0 = {"INIT"}
    BY <1>2, <1>7 DEF FlagsOK
  <2>0. \A e \in {"RUNNING", "READY", "PENDING", "TIMEOUT"} : e \notin taskStatus[t]
    BY <1>1, <2>1
  <2>2. taskStatus' = [taskStatus EXCEPT ![t] = {"READY"}]
        /\ g_schedHPF' = PriQueInsert(g_schedHPF, t, basePrio[t], p, atHead)
    <3>1. (f0 \ BLOCKED) \cup {"READY"} = {"READY"}
      BY <2>1 DEF BLOCKED
    <3>2. /\ taskStatus' = MakeReady(taskStatus, t)
          /\ g_schedHPF' = PriQueInsert(HPFDequeue(g_schedHPF, taskStatus, priority, t),
                                        t, basePrio[t], p, atHead)
      BY <1>1, <1>7 DEF LOS_TaskPriSet
    <3>3. HPFDequeue(g_schedHPF, taskStatus, priority, t) = g_schedHPF
      BY <1>1, <2>1 DEF HPFDequeue
    <3> QED BY <1>1, <1>2, <3>1, <3>2, <3>3 DEF MakeReady
  <2>3. FlagsOK({"READY"}) /\ {"READY"} \cap TIMED = {}
    BY DEF FlagsOK, TIMED
  <2>4. /\ FlagsInv' /\ CurrInv'
        /\ taskStatus'[t] = {"READY"} /\ \A u \in Tasks : u # t => taskStatus'[u] = taskStatus[u]
        /\ ReadySet(taskStatus') = ReadySet(taskStatus) \cup {t}
    <3>1. PICK f : f = {"READY"}
      OBVIOUS
    <3>2. /\ FlagsInv' /\ CurrInv'
          /\ taskStatus'[t] = f /\ \A u \in Tasks : u # t => taskStatus'[u] = taskStatus[u]
          /\ ReadySet(taskStatus') = IF "READY" \in f THEN ReadySet(taskStatus) \cup {t}
                                                      ELSE ReadySet(taskStatus) \ {t}
      <4>1. FlagsOK(f) /\ "RUNNING" \notin f
        BY <2>3, <3>1
      <4> QED BY <1>3, <2>0, <2>2, <3>1, <4>1, ChangeOne
    <3> QED BY <3>1, <3>2
  <2>5. QueueInv' /\ ExactInv'
    <3>1. t \notin ReadySet(taskStatus)
      BY <2>0 DEF ReadySet
    <3> QED BY <1>2, <1>3, <1>4, <2>2, <2>4, <3>1, QueueAdd
  <2>6. PendInv' /\ CallInv'
    <3>1. t \notin ToSet(pendList) /\ call[t] # "WAIT"
      BY <2>0 DEF SInv, PendInv, CallInv
    <3> QED BY <1>3, <2>4, <3>1, PendCallBut
  <2>7. TimeInv'
    BY <1>2, <1>3, <2>3, <2>4, TimeEnds
  <2> QED BY <2>4, <2>5, <2>6, <2>7 DEF SInv
<1>8. CASE "READY" \notin f0 /\ "INIT" \notin f0
  <2>1. UNCHANGED <<g_schedHPF, taskStatus>>
    BY <1>1, <1>8 DEF LOS_TaskPriSet
  <2>2. t \notin ReadySet(taskStatus)
    BY <1>1, <1>8 DEF ReadySet
  <2>3. PrioKept
    BY <1>3, <1>4, <2>2 DEF PrioKept, ReadySet
  <2>4. QueueInv' /\ ExactInv'
    BY <1>3, <2>1, <2>3, QueueSame
  <2> QED BY <1>5, <2>1, <2>4 DEF SInv
<1> QED BY <1>6, <1>7, <1>8

LEMMA DeleteSafe ==
    ASSUME IInv, SInv, NEW t \in Tasks, NEW p \in Prios, LOS_TaskDelete(t, p)
    PROVE  SInv'
<1>1. /\ ~fault /\ taskStatus \in [Tasks -> SUBSET Flags] /\ PrioTypeOK
      /\ "RUNNING" \notin taskStatus[t]
      /\ call \in [Tasks -> {"NONE", "WAIT", "GRANTED", "EXPIRED"}]
  BY DEF LOS_TaskDelete, SomeCpuFree, Free, IInv, RestTypeOK
<1>2. /\ OsTaskReleaseHoldLock(t, p) /\ UNCHANGED <<currTask, scanning>>
      /\ g_schedHPF' = HPFDequeue(g_schedHPF, taskStatus, priority', t)
      /\ pendList' = IF "PENDING" \in taskStatus[t] THEN LOS_ListDelete(pendList, t) ELSE pendList
      /\ OsSchedTimeoutQueueDelete(t) \/ UNCHANGED timeVars
      /\ taskStatus' = [taskStatus EXCEPT ![t] = {"UNUSED"}]
      /\ call' = [call EXCEPT ![t] = "NONE"]
  BY DEF LOS_TaskDelete
<1>3. PICK f : f = {"UNUSED"}
  OBVIOUS
<1>4. FlagsOK(f) /\ "RUNNING" \notin f /\ "READY" \notin f /\ f \cap TIMED = {}
  BY <1>3 DEF FlagsOK, TIMED
<1>5. /\ FlagsInv' /\ CurrInv'
      /\ taskStatus'[t] = f /\ \A u \in Tasks : u # t => taskStatus'[u] = taskStatus[u]
      /\ ReadySet(taskStatus') = ReadySet(taskStatus) \ {t}
  BY <1>1, <1>2, <1>3, <1>4, ChangeOne
<1>6. QueueInv' /\ ExactInv'
  <2>1. PrioKept /\ basePrio' = basePrio
    BY <1>2, UnlockKeeps
  <2>2. priority' \in [Tasks -> Prios]
    BY <1>1, <1>2, UnlockTypes DEF PrioTypeOK
  <2> QED BY <1>2, <1>5, <2>1, <2>2, QueueRemove
<1>7. PendInv' /\ CallInv'
  <2>1. call'[t] = "NONE" /\ \A u \in Tasks : u # t => call'[u] = call[u]
    BY <1>1, <1>2
  <2>2. pendList' = pendList => t \notin ToSet(pendList)
    <3>1. pendList \in Seq(Tasks) /\ IsInjective(pendList)
          /\ (t \in ToSet(pendList) => "PENDING" \in taskStatus[t])
      BY DEF IInv, RestTypeOK, SInv, PendInv
    <3>2. t \notin ToSet(LOS_ListDelete(pendList, t))
      BY <3>1, DeleteList
    <3> QED BY <1>2, <3>1, <3>2
  <2> QED BY <1>2, <1>5, <2>1, <2>2, PendCallBut
<1>8. TimeInv'
  BY <1>1, <1>2, <1>4, <1>5, TimeDeleteOthers, TimeEnds
<1> QED BY <1>5, <1>6, <1>7, <1>8 DEF SInv

\* The other steps leave the run queue alone.
LEMMA OtherSafe ==
    ASSUME IInv, SInv, NEW c \in Cpus, NEW t \in Tasks, NEW p \in Prios,
           \/ HPFWaitReturn(c, t) \/ SchedTimeoutQueueScan(c, t)
           \/ LOS_MuxLock(c, t) \/ LOS_MuxUnlock(c, t, p) \/ HPFPriorityRestore(p)
    PROVE  SInv'
<1>1. /\ ~fault /\ taskStatus \in [Tasks -> SUBSET Flags] /\ PrioTypeOK
      /\ call \in [Tasks -> {"NONE", "WAIT", "GRANTED", "EXPIRED"}]
      /\ scanning \in [Cpus -> Tasks \cup {NULL}] /\ NULL \notin Tasks
      /\ UNCHANGED <<g_schedHPF, currTask, pendList>> /\ basePrio' = basePrio
  BY SchedAssumption
     DEF HPFWaitReturn, SchedTimeoutQueueScan, LOS_MuxLock, LOS_MuxUnlock, HPFPriorityRestore,
         OsMuxUnlockUnsafe, prioVars, SomeCpuFree, Free, Calls, IInv, RestTypeOK
<1>2. CASE HPFWaitReturn(c, t)
  <2>1. /\ UNCHANGED <<prioVars, timeVars, scanning>> /\ currTask[c] = t
        /\ taskStatus' = Without(taskStatus, t, {"TIMEOUT"})
        /\ call' = [call EXCEPT ![t] = "NONE"]
    BY <1>2 DEF HPFWaitReturn
  <2>2. /\ "RUNNING" \in taskStatus[t] /\ taskStatus[t] \subseteq {"RUNNING", "TIMEOUT"}
        /\ t \notin ReadySet(taskStatus) /\ t \notin ToSet(pendList)
    BY <2>1, RunningFacts
  <2>3. taskStatus'[t] = {"RUNNING"} /\ \A u \in Tasks : u # t => taskStatus'[u] = taskStatus[u]
    BY <1>1, <2>1, <2>2 DEF Without
  <2>4. PICK f : f = {"RUNNING"}
    OBVIOUS
  <2>5. FlagsOK(f) /\ "READY" \notin f /\ "UNUSED" \notin f /\ f \cap TIMED = {}
    BY <2>4 DEF FlagsOK, TIMED
  <2>6. FlagsInv' /\ CurrInv'
    <3>1. FlagsInv'
      BY <2>3, <2>4, <2>5 DEF SInv, FlagsInv
    <3>2. \A u \in Tasks : "RUNNING" \in taskStatus'[u] <=> "RUNNING" \in taskStatus[u]
      BY <2>2, <2>3
    <3> QED BY <1>1, <3>1, <3>2 DEF SInv, CurrInv
  <2>7. QueueInv' /\ ExactInv'
    <3>1. ReadySet(taskStatus') = ReadySet(taskStatus)
      BY <2>2, <2>3, <2>4, <2>5 DEF ReadySet
    <3>2. PrioKept
      BY <2>1 DEF prioVars, PrioKept
    <3> QED BY <1>1, <3>1, <3>2, QueueSame
  <2>8. PendInv' /\ CallInv'
    <3>1. call'[t] = "NONE" /\ \A u \in Tasks : u # t => call'[u] = call[u]
      BY <1>1, <2>1
    <3> QED BY <1>1, <2>2, <2>3, <3>1, PendCallBut
  <2>9. TimeInv'
    BY <1>1, <2>1, <2>3, <2>4, <2>5, TimeEnds DEF timeVars
  <2> QED BY <2>6, <2>7, <2>8, <2>9 DEF SInv
<1>3. CASE UNCHANGED <<taskStatus, call>> /\ PrioKept /\ TimeInv'
  <2>1. FlagsInv' /\ CurrInv' /\ PendInv' /\ CallInv'
    BY <1>1, <1>3 DEF SInv, FlagsInv, CurrInv, PendInv, CallInv, ToSet, IsInjective
  <2>2. QueueInv' /\ ExactInv'
    BY <1>1, <1>3, QueueSame DEF ReadySet
  <2> QED BY <1>3, <2>1, <2>2 DEF SInv
<1>4. CASE SchedTimeoutQueueScan(c, t)
  <2>1. UNCHANGED <<taskStatus, call>> /\ PrioKept
    BY <1>4 DEF SchedTimeoutQueueScan, prioVars, PrioKept
  <2>2. /\ scanning' = [scanning EXCEPT ![c] = t] /\ scanning[c] = NULL
        /\ timeoutQueue' = timeoutQueue \ {t}
        /\ responseTime' = [responseTime EXCEPT ![t] = "INVALID"]
        /\ responseTime \in [Tasks -> {"SET", "INVALID"}]
    BY <1>4 DEF SchedTimeoutQueueScan, Free, IInv, TimeTypeOK
  <2>3. HasTimeout(t)'
    BY <1>1, <2>2 DEF HasTimeout
  <2>4. \A u \in Tasks : u # t => /\ responseTime'[u] = responseTime[u]
                                  /\ u \in timeoutQueue => u \in timeoutQueue'
                                  /\ \A d \in Cpus : scanning[d] = u => scanning'[d] = u
    BY <1>1, <2>2
  <2>5. TimeInv'
    BY <1>1, <2>1, <2>3, <2>4, TimeBut DEF SInv
  <2> QED BY <1>3, <2>1, <2>5
<1>5. ASSUME UNCHANGED <<taskStatus, timeVars, scanning, call>> PROVE TimeInv'
  BY <1>5 DEF SInv, TimeInv, HasTimeout, timeVars
<1>6. CASE LOS_MuxLock(c, t)
  BY <1>3, <1>5, <1>6 DEF LOS_MuxLock, PrioKept
<1>7. CASE LOS_MuxUnlock(c, t, p)
  <2>1. PrioKept
    BY <1>7, UnlockKeeps DEF LOS_MuxUnlock
  <2> QED BY <1>3, <1>5, <1>7, <2>1 DEF LOS_MuxUnlock
<1>8. CASE HPFPriorityRestore(p)
  <2>1. CountInPlace(muxOwner, p) /\ priority' = [priority EXCEPT ![muxOwner] = p]
        /\ muxOwner \in Tasks \cup {NULL}
    BY <1>1, <1>8 DEF HPFPriorityRestore, PrioTypeOK
  <2>2. CASE muxOwner \in Tasks
    <3>1. PrioKept
      BY <2>1, <2>2, InPlaceKeeps
    <3> QED BY <1>3, <1>5, <1>8, <3>1 DEF HPFPriorityRestore
  <2>3. CASE muxOwner = NULL
    <3>1. \A u \in Tasks : priority'[u] = priority[u]
      BY <1>1, <2>1, <2>3 DEF PrioTypeOK
    <3>2. inherited \in Nat
      BY <1>1, SchedAssumption DEF PrioTypeOK
    <3>3. inherited' = inherited \/ inherited' = inherited + 1
      BY <2>1 DEF CountInPlace
    <3>4. inherited' = 0 => inherited = 0
      BY <3>2, <3>3
    <3>5. PrioKept
      BY <3>1, <3>4 DEF PrioKept, ReadySet
    <3> QED BY <1>3, <1>5, <1>8, <3>5 DEF HPFPriorityRestore
  <2> QED BY <2>1, <2>2, <2>3
<1> QED BY <1>2, <1>4, <1>6, <1>7, <1>8

-----------------------------------------------------------------------------
(* The invariant and what follows from it                                   *)

LEMMA InitSInv == ASSUME Init PROVE SInv
<1>1. /\ taskStatus = [t \in Tasks |-> {"UNUSED"}] /\ currTask = [c \in Cpus |-> Idle]
      /\ pendList = <<>> /\ call = [t \in Tasks |-> "NONE"] /\ Idle \notin Tasks
  BY SchedAssumption DEF Init
<1>2. PICK f : f = {"UNUSED"}
  OBVIOUS
<1>3. FlagsOK(f) /\ "READY" \notin f /\ "RUNNING" \notin f /\ f \cap TIMED = {}
  BY <1>2 DEF FlagsOK, TIMED
<1>4. FlagsInv /\ CurrInv
  BY <1>1, <1>2, <1>3 DEF FlagsInv, CurrInv
<1>5. ReadySet(taskStatus) = {}
  BY <1>1, <1>2, <1>3 DEF ReadySet
<1>6. PICK s : s = <<>>
  OBVIOUS
<1>7. s \in Seq(Tasks) /\ ToSet(s) = {} /\ IsInjective(s)
  <2>1. s \in Seq(Tasks) /\ Len(s) = 0
    BY <1>6
  <2>2. ToSet(s) = {}
    BY <1>6, <2>1, ToSetIn
  <2>3. IsInjective(s)
    BY <2>1 DEF IsInjective
  <2> QED BY <2>1, <2>2, <2>3
<1>8. PendInv /\ CallInv
  BY <1>1, <1>6, <1>7 DEF PendInv, CallInv
<1>9. TimeInv
  BY <1>1, <1>2, <1>3 DEF TimeInv
<1>10. /\ \A b \in BasePrios, p \in Prios :
             /\ g_schedHPF.priQueList[b][p] = s /\ g_schedHPF.readyTasks[b][p] = 0
       /\ \A b \in BasePrios : g_schedHPF.bitmap[b] = {}
       /\ g_schedHPF.queueBitmap = {}
  BY <1>6 DEF Init
<1>11. QueueInv
  BY <1>7, <1>10 DEF QueueInv, Once
<1>12. Exact(g_schedHPF, {}, basePrio, priority)
  <2>1. \A b, p : Place({}, basePrio, priority, b, p) = {}
    BY DEF Place
  <2>2. Cardinality({}) = 0
    BY FS_EmptySet
  <2> QED BY <1>7, <1>10, <2>1, <2>2 DEF Exact
<1> QED BY <1>4, <1>5, <1>8, <1>9, <1>11, <1>12 DEF SInv, ExactInv

LEMMA NextSInv == IInv /\ SInv /\ ~SuspendsInit /\ [Next]_vars => SInv'
<1> SUFFICES ASSUME IInv, SInv, ~SuspendsInit, [Next]_vars PROVE SInv'
  OBVIOUS
<1>1. CASE UNCHANGED vars
  <2>1. UNCHANGED <<taskStatus, currTask, pendList, timeoutQueue, responseTime, fault, scanning,
                    call, basePrio, priority, inherited, g_schedHPF>>
    BY <1>1 DEF vars, prioVars, timeVars
  <2>2. FlagsInv' /\ CurrInv' /\ PendInv' /\ CallInv' /\ TimeInv'
    BY <2>1
       DEF SInv, FlagsInv, CurrInv, PendInv, CallInv, TimeInv, HasTimeout, ToSet, IsInjective
  <2>3. QueueInv' /\ ExactInv'
    BY <2>1, QueueSame DEF ReadySet, PrioKept
  <2> QED BY <2>2, <2>3 DEF SInv
<1>2. CASE Next
  <2>0. (\E c \in Cpus : TRUE) /\ (\E t \in Tasks : TRUE) /\ (\E p \in Prios : TRUE)
        /\ TRUE \in BOOLEAN
    BY SchedAssumption
  <2>1. CASE \E p \in Prios : HPFPriorityRestore(p)
    BY <2>0, <2>1, OtherSafe
  <2>2. ASSUME NEW t \in Tasks, NEW b \in BasePrios, NEW p \in Prios,
               LOS_TaskCreateOnly(t, b, p) \/ LOS_TaskCreate(t, b, p)
        PROVE  SInv'
    BY <2>2, CreateSafe
  <2>3. ASSUME NEW t \in Tasks, NEW pm \in PmModes, LOS_TaskSuspend(t, pm) PROVE SInv'
    BY <2>3, SuspendSafe
  <2>4. ASSUME NEW t \in Tasks, NEW p \in Prios, LOS_TaskDelete(t, p) PROVE SInv'
    BY <2>4, DeleteSafe
  <2>5. ASSUME NEW t \in Tasks, NEW atHead \in BOOLEAN,
               \/ HPFWake(t, atHead)
               \/ \E expired \in BOOLEAN : LOS_TaskResume(t, expired, atHead)
               \/ \E p \in Prios : LOS_TaskPriSet(t, p, atHead)
        PROVE  SInv'
    BY <2>5, WakeSafe, ResumeSafe, PriSetSafe
  <2>6. ASSUME NEW c \in Cpus, NEW atHead \in BOOLEAN, LOS_Schedule(c, atHead) PROVE SInv'
    BY <2>0, <2>6, CpuStepSafe
  <2>7. ASSUME NEW c \in Cpus, NEW t \in Tasks,
               \/ LOS_TaskYield(c, t) \/ LOS_TaskDelay(c, t) \/ SuspendSelf(c, t)
               \/ \E timed \in BOOLEAN : OsTaskWait(c, t, timed) \/ OsMuxPendOp(c, t, timed)
               \/ \E p \in Prios : OsRunningTaskToExit(c, t, p)
        PROVE  SInv'
    BY <2>0, <2>7, CpuStepSafe
  <2>8. ASSUME NEW c \in Cpus, NEW t \in Tasks,
               \/ LOS_MuxLock(c, t) \/ HPFWaitReturn(c, t) \/ SchedTimeoutQueueScan(c, t)
               \/ \E p \in Prios : LOS_MuxUnlock(c, t, p)
        PROVE  SInv'
    BY <2>0, <2>8, OtherSafe
  <2>9. ASSUME NEW c \in Cpus, NEW t \in Tasks, NEW atHead \in BOOLEAN,
               SchedTimeoutTaskWake(c, t, atHead)
        PROVE  SInv'
    BY <2>9, TimeoutWakeSafe
  <2>10. Ends \subseteq BOOLEAN
    BY DEF Ends
  <2> QED
    BY <1>2, <2>1, <2>2, <2>3, <2>4, <2>5, <2>6, <2>7, <2>8, <2>9, <2>10 DEF Next
<1> QED BY <1>1, <1>2

LEMMA ExactQueue == IInv /\ SInv => RunQueueExact
<1> SUFFICES ASSUME IInv, SInv, inherited = 0, NEW b \in BasePrios
             PROVE  /\ \A p \in Prios :
                          /\ \A t \in ToSet(g_schedHPF.priQueList[b][p]) :
                                basePrio[t] = b /\ priority[t] = p
                          /\ p \in g_schedHPF.bitmap[b] <=> g_schedHPF.priQueList[b][p] # <<>>
                          /\ g_schedHPF.readyTasks[b][p] = Len(g_schedHPF.priQueList[b][p])
                    /\ b \in g_schedHPF.queueBitmap <=> g_schedHPF.bitmap[b] # {}
  BY DEF RunQueueExact
<1>1. Exact(g_schedHPF, ReadySet(taskStatus), basePrio, priority)
  BY DEF SInv, ExactInv
<1>2. ASSUME NEW p \in Prios
      PROVE  /\ \A t \in ToSet(g_schedHPF.priQueList[b][p]) : basePrio[t] = b /\ priority[t] = p
             /\ p \in g_schedHPF.bitmap[b] <=> g_schedHPF.priQueList[b][p] # <<>>
             /\ g_schedHPF.readyTasks[b][p] = Len(g_schedHPF.priQueList[b][p])
  <2>1. PICK s : s = g_schedHPF.priQueList[b][p]
    OBVIOUS
  <2>2. s \in Seq(Tasks) /\ IsInjective(s)
    BY <2>1 DEF IInv, QueueOK, RunQueues, SInv, QueueInv, Once
  <2>3. Cardinality(ToSet(s)) = Len(s) /\ (s = <<>> <=> ToSet(s) = {})
    BY <2>2, ListSize, ToSetIn
  <2>4. /\ ToSet(s) = Place(ReadySet(taskStatus), basePrio, priority, b, p)
        /\ p \in g_schedHPF.bitmap[b] <=> Place(ReadySet(taskStatus), basePrio, priority, b, p) # {}
        /\ g_schedHPF.readyTasks[b][p]
             = Cardinality(Place(ReadySet(taskStatus), basePrio, priority, b, p))
    BY <1>1, <2>1 DEF Exact
  <2>5. \A t \in ToSet(s) : basePrio[t] = b /\ priority[t] = p
    BY <2>4 DEF Place
  <2> QED BY <2>1, <2>3, <2>4, <2>5
<1> QED BY <1>1, <1>2 DEF Exact

\* The first list that TopTaskGet comes across.
LEMMA FirstList ==
    ASSUME NEW F \in SUBSET (BasePrios \X Prios), F # {}
    PROVE  \E s \in F : \A r \in F : s[1] < r[1] \/ (s[1] = r[1] /\ s[2] <= r[2])
<1>0. BasePrios \subseteq Nat /\ Prios \subseteq Nat
  BY SchedAssumption
<1>1. PICK B \in SUBSET Nat : B = {s[1] : s \in F}
  BY <1>0
<1>9. B # {}
  BY <1>1
<1>2. PICK b \in B : \A y \in B : b <= y
  BY <1>9, NatMin
<1>3. PICK P \in SUBSET Nat : P = {s[2] : s \in {r \in F : r[1] = b}}
  BY <1>0
<1>4. P # {}
  BY <1>1, <1>2, <1>3
<1>5. PICK p \in P : \A y \in P : p <= y
  BY <1>4, NatMin
<1>6. PICK s \in F : s[1] = b /\ s[2] = p
  BY <1>3, <1>5
<1>7. ASSUME NEW r \in F PROVE s[1] < r[1] \/ (s[1] = r[1] /\ s[2] <= r[2])
  <2>1. r[1] \in B /\ b <= r[1] /\ r[1] \in Nat /\ b \in Nat
    BY <1>1, <1>2
  <2>2. CASE r[1] = b
    <3>1. r[2] \in P
      BY <1>3, <2>2
    <3> QED BY <1>5, <1>6, <2>2, <3>1
  <2>3. CASE r[1] # b
    BY <1>6, <2>1, <2>3
  <2> QED BY <2>2, <2>3
<1> QED BY <1>7

LEMMA HighestOnTop == IInv /\ SInv => TopIsHighest
<1> SUFFICES ASSUME IInv, SInv, inherited = 0, NEW t \in QueuedTasks
             PROVE  \E top \in TopTaskGet(g_schedHPF) \cap Tasks :
                       \/ basePrio[top] < basePrio[t]
                       \/ basePrio[top] = basePrio[t] /\ priority[top] <= priority[t]
  BY DEF TopIsHighest
<1>1. PICK rq : rq = g_schedHPF
  OBVIOUS
<1>2. PICK b \in BasePrios, p \in Prios : t \in ToSet(rq.priQueList[b][p])
  BY <1>1 DEF QueuedTasks
<1>3. /\ \A d \in BasePrios, q \in Prios : \A u \in ToSet(rq.priQueList[d][q]) :
            basePrio[u] = d /\ priority[u] = q
      /\ \A d \in BasePrios, q \in Prios : rq.priQueList[d][q] \in Seq(Tasks)
      /\ Findable(rq)
  BY <1>1, ExactQueue DEF RunQueueExact, IInv, QueueOK, RunQueues
<1>4. PICK F : F = FoundLists(rq)
  OBVIOUS
<1>5. F \in SUBSET (BasePrios \X Prios)
  BY <1>4 DEF FoundLists
<1>6. <<b, p>> \in F
  <2>1. rq.priQueList[b][p] # <<>>
    BY <1>2, <1>3, ToSetIn
  <2>2. p \in rq.bitmap[b] /\ b \in rq.queueBitmap
    BY <1>3, <2>1 DEF Findable
  <2> QED BY <1>4, <2>1, <2>2 DEF FoundLists
<1>7. PICK s \in F : \A r \in F : s[1] < r[1] \/ (s[1] = r[1] /\ s[2] <= r[2])
  BY <1>5, <1>6, FirstList
<1>8. PICK d \in BasePrios, q \in Prios : s = <<d, q>>
  BY <1>5, <1>7
<1>9. PICK list : list = rq.priQueList[d][q]
  OBVIOUS
<1>10. list \in Seq(Tasks) /\ list # <<>>
  BY <1>3, <1>4, <1>7, <1>8, <1>9 DEF FoundLists
<1>11. Head(list) \in Tasks /\ Head(list) \in ToSet(list)
  BY <1>10, TailList
<1>12. Head(list) \in TopTaskGet(rq)
  BY <1>4, <1>6, <1>7, <1>8, <1>9 DEF TopTaskGet
<1>13. basePrio[Head(list)] = d /\ priority[Head(list)] = q /\ basePrio[t] = b /\ priority[t] = p
  BY <1>2, <1>3, <1>9, <1>11
<1>14. d < b \/ (d = b /\ q <= p)
  BY <1>6, <1>7, <1>8
<1> QED BY <1>1, <1>11, <1>12, <1>13, <1>14

\* No step breaks the two invariants, in a system that suspends no task before it is started.
LEMMA Safe == Spec /\ ~SuspendsInit => [](IInv /\ SInv)
<1>1. Init => IInv /\ SInv
  BY InitInv, InitSInv, SchedAssumption
<1>2. IInv /\ SInv /\ ~SuspendsInit /\ [Next]_vars => (IInv /\ SInv)'
  BY NextKeepsInv, NextSInv
<1>3. SuspendsInit \in BOOLEAN
  BY SchedAssumption
<1>4. CASE SuspendsInit
  BY <1>4, PTL
<1>5. CASE ~SuspendsInit
  <2>1. IInv /\ SInv /\ [Next]_vars => (IInv /\ SInv)'
    BY <1>2, <1>5
  <2> QED BY <1>1, <2>1, PTL DEF Spec
<1> QED BY <1>3, <1>4, <1>5

\* No task sleeps for ever in a bounded wait or a delay: through every switch, freeze,
\* resume and scan, its timeout node is linked, frozen or in the hands of a scan.
THEOREM TimedWaitEnds == Spec /\ ~SuspendsInit => []TimedWaitHasTimeout
<1>1. SInv => TimedWaitHasTimeout
  BY DEF SInv, TimeInv, HasTimeout, TimedWaitHasTimeout
<1> QED BY <1>1, Safe, PTL

\* HPFWait never returns LOS_OK for a wait that the timeout scan has ended.
THEOREM OkOnlyIfWoken == Spec /\ ~SuspendsInit => []OkMeansWoken
<1>1. SInv => OkMeansWoken
  <2> SUFFICES ASSUME SInv, NEW t \in Tasks, "RUNNING" \in taskStatus[t], call[t] = "WAIT"
               PROVE  "TIMEOUT" \in taskStatus[t]
    BY DEF OkMeansWoken
  <2>1. FlagsOK(taskStatus[t]) /\ taskStatus[t] \cap {"PENDING", "TIMEOUT"} # {}
    BY DEF SInv, FlagsInv, CallInv
  <2>2. "PENDING" \notin taskStatus[t]
    BY <2>1 DEF FlagsOK
  <2> QED BY <2>1, <2>2
<1> QED BY <1>1, Safe, PTL

\* As long as no mutex has changed the priority of a ready task, PriQueInsert and PriQueDelete
\* keep lists, bitmaps and counts in step, under every operation that queues or moves a task.
THEOREM RunQueueIsExact == Spec /\ ~SuspendsInit => []RunQueueExact
BY ExactQueue, Safe, PTL

\* As long as no mutex has changed the priority of a ready task, HPFRunqueueTopTaskGet
\* returns a ready task of the highest priority.
THEOREM HighestRunsFirst == Spec /\ ~SuspendsInit => []TopIsHighest
BY HighestOnTop, Safe, PTL

=============================================================================

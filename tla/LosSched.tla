------------------------------- MODULE LosSched -------------------------------
(***************************************************************************)
(* The highest-priority-first scheduler (kernel/base/sched/los_priority.c, *)
(* los_sched.c, base/include/los_sched_pri.h) under the task operations of *)
(* kernel/base/core/los_task.c.                                            *)
(*                                                                         *)
(* All CPUs share one run queue: a two-level table of ready lists, indexed *)
(* by the priority of the process and that of the task, with a bitmap for  *)
(* each level.  An operation holds g_taskSpin and is one step, except the  *)
(* timeout scan, which takes a node from the timeout queue under another   *)
(* lock before it asks for g_taskSpin.                                     *)
(*                                                                         *)
(* How much of its time slice a task has left is not modelled: the choice  *)
(* between the head and the tail of a ready list is left open (atHead).    *)
(* LOS_Schedule, with which several operations end after they have dropped *)
(* the lock, is an action of its own: an interrupt may do the same at any  *)
(* time.  So is the self-suspension or exit that SIGNAL_SUSPEND or         *)
(* SIGNAL_KILL asks of a task that runs on another CPU.                    *)
(***************************************************************************)
EXTENDS LosList

CONSTANTS Tasks, Cpus, BasePrios, Prios,
          PmModes,     \* what OsIsPmMode may say; {TRUE} without LOSCFG_KERNEL_PM
          SuspendsInit,\* is a task ever suspended before it is started?
          MaxInherited,\* bound on the priority changes of mutexes that hit a ready task
          UINT32_SIZE, \* readyTasks is counted modulo this number; 2^32 in the code
          Idle,        \* the idle task of a CPU
          NULL

ASSUME SchedAssumption ==
    /\ Tasks # {} /\ Cpus # {}
    /\ BasePrios \subseteq Nat /\ BasePrios # {}
    /\ Prios \subseteq Nat /\ Prios # {}
    /\ PmModes \subseteq BOOLEAN /\ SuspendsInit \in BOOLEAN
    /\ MaxInherited \in Nat /\ UINT32_SIZE \in Nat \ {0}
    /\ IsFiniteSet(Tasks) /\ Cardinality(Tasks) < UINT32_SIZE   \* g_taskMaxNum is a UINT32
    /\ Idle \notin Tasks /\ NULL \notin Tasks

\* OS_TASK_STATUS_*
Flags == {"INIT", "READY", "RUNNING", "SUSPENDED", "PENDING", "DELAY", "PEND_TIME",
          "TIMEOUT", "FROZEN", "UNUSED"}
BLOCKED == {"INIT", "PENDING", "DELAY", "PEND_TIME"}
TIMED == {"PEND_TIME", "DELAY"}

VARIABLES taskStatus,      \* the set of flags of a task
          basePrio,        \* sp.basePrio, the priority of its process
          priority,        \* sp.priority
          g_schedHPF,      \* the run queue: bitmaps, ready lists and their lengths
          currTask,        \* OsCurrTaskGet on each CPU
          pendList,        \* tasks that wait for a kernel object
          timeoutQueue,    \* tasks whose node is linked in a timeout queue
          responseTime,    \* SET or OS_SORT_LINK_INVALID_TIME
          scanning,        \* scanning[c]: task whose node the scan of CPU c has taken
          call,            \* WAIT: in HPFWait; GRANTED, EXPIRED: HPFWake, SchedTaskUnfreeze
                           \* has ended the wait; NONE
          muxOwner,        \* owner of a mutex, NULL if it is free
          priBitmap,       \* sp.priBitmap of the owner: the priorities to go back to
          inherited,       \* how often a mutex changed the priority of a ready task
          fault            \* a list node was unlinked or linked twice: the system is down

timeVars == <<timeoutQueue, responseTime, fault>>
prioVars == <<basePrio, priority, muxOwner, priBitmap, inherited>>
vars == <<taskStatus, prioVars, g_schedHPF, currTask, pendList, timeVars, scanning, call>>

RunQueues == [queueBitmap : SUBSET BasePrios,
              bitmap : [BasePrios -> SUBSET Prios],
              priQueList : [BasePrios -> [Prios -> Seq(Tasks)]],
              readyTasks : [BasePrios -> [Prios -> 0 .. UINT32_SIZE - 1]]]

TypeOK ==
    /\ taskStatus \in [Tasks -> SUBSET Flags]
    /\ basePrio \in [Tasks -> BasePrios]
    /\ priority \in [Tasks -> Prios]
    /\ muxOwner \in Tasks \cup {NULL}
    /\ priBitmap \subseteq Prios
    /\ inherited \in 0 .. MaxInherited
    /\ g_schedHPF \in RunQueues
    /\ currTask \in [Cpus -> Tasks \cup {Idle}]
    /\ pendList \in Seq(Tasks)
    /\ timeoutQueue \subseteq Tasks
    /\ responseTime \in [Tasks -> {"SET", "INVALID"}]
    /\ scanning \in [Cpus -> Tasks \cup {NULL}]
    /\ call \in [Tasks -> {"NONE", "WAIT", "GRANTED", "EXPIRED"}]
    /\ fault \in BOOLEAN

\* A CPU that is not inside the timeout scan can run kernel code.
Free(c) == scanning[c] = NULL /\ ~fault
SomeCpuFree == \E c \in Cpus : Free(c)

\* The task of CPU c calls the kernel; a task in HPFWait leaves it first.
Calls(c, t) == Free(c) /\ currTask[c] = t /\ t \in Tasks /\ call[t] = "NONE"

-----------------------------------------------------------------------------
(* The run queue                                                            *)

\* PriQueHeadInsert, PriQueTailInsert
PriQueInsert(rq, t, b, p, atHead) ==
    [queueBitmap |-> IF rq.bitmap[b] = {} THEN rq.queueBitmap \cup {b} ELSE rq.queueBitmap,
     bitmap      |-> IF rq.priQueList[b][p] = <<>>
                     THEN [rq.bitmap EXCEPT ![b] = @ \cup {p}] ELSE rq.bitmap,
     priQueList  |-> [rq.priQueList EXCEPT ![b][p] = IF atHead THEN <<t>> \o @ ELSE Append(@, t)],
     readyTasks  |-> [rq.readyTasks EXCEPT ![b][p] = (@ + 1) % UINT32_SIZE]]

\* Mutant: the bit is cleared although other tasks are left in the list.
PriQueDeleteClears(rq, t, b, p) ==
    LET lists == [k \in BasePrios |-> [q \in Prios |-> LOS_ListDelete(rq.priQueList[k][q], t)]]
        bits == rq.bitmap[b] \ {p}
    IN
    [queueBitmap |-> IF bits = {} THEN rq.queueBitmap \ {b} ELSE rq.queueBitmap,
     bitmap      |-> [rq.bitmap EXCEPT ![b] = bits],
     priQueList  |-> lists,
     readyTasks  |-> [rq.readyTasks EXCEPT ![b][p] = (@ + UINT32_SIZE - 1) % UINT32_SIZE]]

\* PriQueDelete: the node is unlinked from the list it is in, the bits and the count
\* are those of the priority the task has now.
PriQueDelete(rq, t, b, p) ==
    LET lists == [k \in BasePrios |-> [q \in Prios |-> LOS_ListDelete(rq.priQueList[k][q], t)]]
        bits == IF lists[b][p] = <<>> THEN rq.bitmap[b] \ {p} ELSE rq.bitmap[b]
    IN
    [queueBitmap |-> IF bits = {} THEN rq.queueBitmap \ {b} ELSE rq.queueBitmap,
     bitmap      |-> [rq.bitmap EXCEPT ![b] = bits],
     priQueList  |-> lists,
     readyTasks  |-> [rq.readyTasks EXCEPT ![b][p] = (@ + UINT32_SIZE - 1) % UINT32_SIZE]]

\* HPFEnqueue and HPFDequeue on the run queue; callers set and clear READY.
HPFEnqueue(rq, t, atHead) == PriQueInsert(rq, t, basePrio[t], priority[t], atHead)

\* pr: the priorities at the time of the call.
HPFDequeue(rq, st, pr, t) ==
    IF "READY" \in st[t] THEN PriQueDelete(rq, t, basePrio[t], pr[t]) ELSE rq

MakeReady(st, t) == [st EXCEPT ![t] = (@ \ BLOCKED) \cup {"READY"}]
Without(st, t, flags) == [st EXCEPT ![t] = @ \ flags]
With(st, t, flags) == [st EXCEPT ![t] = @ \cup flags]

\* The ready lists that HPFRunqueueTopTaskGet comes across.
FoundLists(rq) ==
    {s \in BasePrios \X Prios : /\ s[1] \in rq.queueBitmap /\ s[2] \in rq.bitmap[s[1]]
                                /\ rq.priQueList[s[1]][s[2]] # <<>>}

\* TopTaskGet: the first task of the first such list, or the idle task (a set of one
\* element).
TopTaskGet(rq) ==
    LET first == {s \in FoundLists(rq) : \A r \in FoundLists(rq) :
                      s[1] < r[1] \/ (s[1] = r[1] /\ s[2] <= r[2])}
    IN  IF FoundLists(rq) = {} THEN {Idle} ELSE {Head(rq.priQueList[s[1]][s[2]]) : s \in first}

-----------------------------------------------------------------------------
(* Timeout queues                                                           *)

\* OsSchedTimeoutQueueAdd; a node that is linked already corrupts the list.
OsSchedTimeoutQueueAdd(t) ==
    /\ fault' = (t \in timeoutQueue)
    /\ timeoutQueue' = timeoutQueue \cup {t}
    /\ responseTime' = [responseTime EXCEPT ![t] = "SET"]

\* OsSchedTimeoutQueueDelete: whether the node is linked is told by its responseTime.
OsSchedTimeoutQueueDelete(t) ==
    IF responseTime[t] = "SET"
    THEN /\ fault' = (t \notin timeoutQueue)
         /\ timeoutQueue' = timeoutQueue \ {t}
         /\ responseTime' = [responseTime EXCEPT ![t] = "INVALID"]
    ELSE UNCHANGED timeVars

\* The flags after SchedTaskSwitch from task run to task new.
SwitchedFlags(st, run, new) ==
    [t \in Tasks |->
        IF t = new THEN (st[t] \ {"READY"}) \cup {"RUNNING"}
        ELSE IF t = run THEN st[t] \ {"RUNNING"} ELSE st[t]]

\* Mutant: a delayed task is given no timeout.
NeedsTimeoutPend(st, run) == "READY" \notin st[run] /\ "PEND_TIME" \in st[run]

\* Does SchedTaskSwitch put the task that it stops in a timeout queue?
NeedsTimeout(st, run) == "READY" \notin st[run] /\ st[run] \cap TIMED # {}

\* OsSchedResched and SchedTaskSwitch on CPU c, from run queue rq and flags st, after
\* priority' has been determined.
OsSchedResched(c, rq, st) ==
    \E new \in TopTaskGet(rq) :
        LET run == currTask[c] IN
        /\ g_schedHPF' = IF new = Idle THEN rq ELSE HPFDequeue(rq, st, priority', new)
        /\ currTask' = [currTask EXCEPT ![c] = new]
        /\ taskStatus' = SwitchedFlags(st, run, new)
        /\ IF new # run /\ run # Idle /\ NeedsTimeout(st, run)
           THEN OsSchedTimeoutQueueAdd(run)
           ELSE UNCHANGED timeVars

-----------------------------------------------------------------------------
(* Operations                                                               *)

Init ==
    /\ taskStatus = [t \in Tasks |-> {"UNUSED"}]
    /\ basePrio \in [Tasks -> {Min(BasePrios)}]
    /\ priority \in [Tasks -> {Min(Prios)}]
    /\ muxOwner = NULL
    /\ priBitmap = {}
    /\ inherited = 0
    /\ g_schedHPF = [queueBitmap |-> {},
                     bitmap |-> [b \in BasePrios |-> {}],
                     priQueList |-> [b \in BasePrios |-> [p \in Prios |-> <<>>]],
                     readyTasks |-> [b \in BasePrios |-> [p \in Prios |-> 0]]]
    /\ currTask = [c \in Cpus |-> Idle]
    /\ pendList = <<>>
    /\ timeoutQueue = {}
    /\ responseTime = [t \in Tasks |-> "INVALID"]
    /\ scanning = [c \in Cpus |-> NULL]
    /\ call = [t \in Tasks |-> "NONE"]
    /\ fault = FALSE

\* A control block is reused once its task is off every CPU.
IsFree(t) == "UNUSED" \in taskStatus[t] /\ "RUNNING" \notin taskStatus[t]

\* LOS_TaskCreateOnly: LOS_TaskPriSet (or pthread_create through HPFSchedParamModify)
\* starts the task.
LOS_TaskCreateOnly(t, b, p) ==
    /\ SomeCpuFree
    /\ IsFree(t)
    /\ basePrio' = [basePrio EXCEPT ![t] = b]
    /\ priority' = [priority EXCEPT ![t] = p]
    /\ taskStatus' = [taskStatus EXCEPT ![t] = {"INIT"}]
    /\ responseTime' = [responseTime EXCEPT ![t] = "INVALID"]
    /\ UNCHANGED <<muxOwner, priBitmap, inherited, g_schedHPF, currTask, pendList, timeoutQueue,
                   fault, scanning, call>>

\* LOS_TaskCreate: nobody knows the id of the task before the call returns, so the two
\* halves are one step.
LOS_TaskCreate(t, b, p) ==
    /\ SomeCpuFree
    /\ IsFree(t)
    /\ basePrio' = [basePrio EXCEPT ![t] = b]
    /\ priority' = [priority EXCEPT ![t] = p]
    /\ g_schedHPF' = PriQueInsert(g_schedHPF, t, b, p, FALSE)
    /\ taskStatus' = [taskStatus EXCEPT ![t] = {"READY"}]
    /\ responseTime' = [responseTime EXCEPT ![t] = "INVALID"]
    /\ UNCHANGED <<muxOwner, priBitmap, inherited, currTask, pendList, timeoutQueue, fault,
                   scanning, call>>

\* LOS_Schedule, and OsSchedIrqEndCheckNeedSched at the end of an interrupt.
LOS_Schedule(c, atHead) ==
    LET run == currTask[c] IN
    /\ Free(c)
    /\ run # Idle => call[run] = "NONE"    \* HPFWait runs with interrupts disabled
    /\ UNCHANGED prioVars
    /\ IF run = Idle THEN OsSchedResched(c, g_schedHPF, taskStatus)
       ELSE OsSchedResched(c, HPFEnqueue(g_schedHPF, run, atHead), MakeReady(taskStatus, run))
    /\ UNCHANGED <<pendList, scanning, call>>

LOS_TaskYield(c, t) ==
    /\ Calls(c, t)
    /\ UNCHANGED prioVars
    /\ OsSchedResched(c, HPFEnqueue(g_schedHPF, t, FALSE), MakeReady(taskStatus, t))
    /\ UNCHANGED <<pendList, scanning, call>>

\* LOS_TaskDelay and HPFDelay
LOS_TaskDelay(c, t) ==
    /\ Calls(c, t)
    /\ UNCHANGED prioVars
    /\ OsSchedResched(c, g_schedHPF, With(taskStatus, t, {"DELAY"}))
    /\ UNCHANGED <<pendList, scanning, call>>

\* HPFWait, called by every blocking operation.
HPFWait(c, t, timed) ==
    /\ pendList' = Append(pendList, t)
    /\ call' = [call EXCEPT ![t] = "WAIT"]
    /\ OsSchedResched(c, g_schedHPF,
                      With(taskStatus, t, {"PENDING"} \cup IF timed THEN {"PEND_TIME"} ELSE {}))
    /\ UNCHANGED scanning

\* A blocking operation that leaves priorities alone.
OsTaskWait(c, t, timed) ==
    /\ Calls(c, t)
    /\ UNCHANGED prioVars
    /\ HPFWait(c, t, timed)

\* The end of HPFWait: LOS_ERRNO_TSK_TIMEOUT with the flag TIMEOUT, LOS_OK without it.
HPFWaitReturn(c, t) ==
    /\ Free(c) /\ currTask[c] = t /\ t \in Tasks
    /\ call[t] # "NONE"
    /\ taskStatus' = Without(taskStatus, t, {"TIMEOUT"})
    /\ call' = [call EXCEPT ![t] = "NONE"]
    /\ UNCHANGED <<prioVars, g_schedHPF, currTask, pendList, timeVars, scanning>>

\* HPFWake of a waiting task, from a task or an interrupt.
HPFWake(t, atHead) ==
    /\ SomeCpuFree
    /\ t \in ToSet(pendList)
    /\ pendList' = LOS_ListDelete(pendList, t)
    /\ IF "PEND_TIME" \in taskStatus[t] THEN OsSchedTimeoutQueueDelete(t) ELSE UNCHANGED timeVars
    /\ call' = [call EXCEPT ![t] = "GRANTED"]
    /\ LET st == Without(taskStatus, t, {"PENDING", "PEND_TIME"})
       IN  IF "SUSPENDED" \in st[t]
           THEN taskStatus' = st /\ UNCHANGED g_schedHPF
           ELSE /\ taskStatus' = MakeReady(st, t)
                /\ g_schedHPF' = HPFEnqueue(g_schedHPF, t, atHead)
    /\ UNCHANGED <<prioVars, currTask, scanning>>

\* SchedTaskFreeze: unlink the node of a timed wait, keep its responseTime.
SchedTaskFreeze(t, pm) ==
    IF pm /\ taskStatus[t] \cap TIMED # {}
    THEN /\ timeoutQueue' = timeoutQueue \ {t}
         /\ fault' = (responseTime[t] = "SET" /\ t \notin timeoutQueue)
         /\ UNCHANGED responseTime
    ELSE UNCHANGED timeVars

\* LOS_TaskSuspend and HPFSuspend of a task that is not running.
LOS_TaskSuspend(t, pm) ==
    /\ SomeCpuFree
    /\ taskStatus[t] \cap {"UNUSED", "SUSPENDED", "RUNNING"} = {}
    /\ "INIT" \in taskStatus[t] => SuspendsInit
    /\ g_schedHPF' = HPFDequeue(g_schedHPF, taskStatus, priority, t)
    /\ SchedTaskFreeze(t, pm)
    /\ taskStatus' = With(Without(taskStatus, t, {"READY"}), t,
                          IF pm /\ taskStatus[t] \cap TIMED # {}
                          THEN {"SUSPENDED", "FROZEN"} ELSE {"SUSPENDED"})
    /\ UNCHANGED <<prioVars, currTask, pendList, scanning, call>>

\* LOS_TaskSuspend of the running task, by itself or through SIGNAL_SUSPEND.
SuspendSelf(c, t) ==
    /\ Calls(c, t)
    /\ "SUSPENDED" \notin taskStatus[t]
    /\ UNCHANGED prioVars
    /\ OsSchedResched(c, g_schedHPF, With(taskStatus, t, {"SUSPENDED"}))
    /\ UNCHANGED <<pendList, scanning, call>>

\* SchedTaskUnfreeze links the node again if its time has not come (an INVALID time never
\* comes), and otherwise ends the wait, without the flag TIMEOUT.
SchedTaskUnfreeze(t, expired) ==
    \/ /\ "FROZEN" \notin taskStatus[t]
       /\ UNCHANGED <<timeVars, pendList>>
    \/ /\ "FROZEN" \in taskStatus[t] /\ ~expired
       /\ fault' = (t \in timeoutQueue)
       /\ timeoutQueue' = timeoutQueue \cup {t}
       /\ UNCHANGED <<responseTime, pendList>>
    \/ /\ "FROZEN" \in taskStatus[t] /\ expired /\ responseTime[t] = "SET"
       /\ responseTime' = [responseTime EXCEPT ![t] = "INVALID"]
       /\ pendList' = LOS_ListDelete(pendList, t)
       /\ UNCHANGED <<timeoutQueue, fault>>

OsTaskIsBlocked(st, t) == st[t] \cap {"SUSPENDED", "PENDING", "DELAY"} # {}

\* LOS_TaskResume and HPFResume
LOS_TaskResume(t, expired, atHead) ==
    LET ends == "FROZEN" \in taskStatus[t] /\ expired
        st == Without(taskStatus, t, {"SUSPENDED", "FROZEN"} \cup IF ends THEN BLOCKED ELSE {})
    IN
    /\ SomeCpuFree
    /\ "SUSPENDED" \in taskStatus[t] /\ "UNUSED" \notin taskStatus[t]
    /\ expired => "FROZEN" \in taskStatus[t]
    /\ SchedTaskUnfreeze(t, expired)
    /\ IF OsTaskIsBlocked(st, t)
       THEN taskStatus' = st /\ UNCHANGED g_schedHPF
       ELSE /\ taskStatus' = MakeReady(st, t)
            /\ g_schedHPF' = HPFEnqueue(g_schedHPF, t, atHead)
    /\ call' = [call EXCEPT ![t] = IF ends /\ @ = "WAIT" THEN "EXPIRED" ELSE @]
    /\ UNCHANGED <<prioVars, currTask, scanning>>

\* SchedTimeoutQueueScan takes the node of an expired wait under the lock of the timeout
\* queue only ...
SchedTimeoutQueueScan(c, t) ==
    /\ Free(c)
    /\ t \in timeoutQueue /\ responseTime[t] = "SET"
    /\ timeoutQueue' = timeoutQueue \ {t}
    /\ responseTime' = [responseTime EXCEPT ![t] = "INVALID"]
    /\ scanning' = [scanning EXCEPT ![c] = t]
    /\ UNCHANGED <<taskStatus, prioVars, g_schedHPF, currTask, pendList, fault, call>>

\* Mutant: a suspended task is not told that its wait has timed out.
TimedOutFlagsRunnable(st, t) ==
    Without(With(st, t, IF "PEND_TIME" \in st[t] /\ "SUSPENDED" \notin st[t]
                        THEN {"TIMEOUT"} ELSE {}),
            t, {"PENDING", "PEND_TIME", "DELAY"})

\* The flags that SchedTimeoutTaskWake leaves of a timed wait.
TimedOutFlags(st, t) ==
    Without(With(st, t, IF "PEND_TIME" \in st[t] THEN {"TIMEOUT"} ELSE {}),
            t, {"PENDING", "PEND_TIME", "DELAY"})

\* ... and SchedTimeoutTaskWake looks at the task once it has g_taskSpin.
SchedTimeoutTaskWake(c, t, atHead) ==
    LET timedOut == TimedOutFlags(taskStatus, t) IN
    /\ ~fault
    /\ scanning[c] = t /\ t \in Tasks
    /\ scanning' = [scanning EXCEPT ![c] = NULL]
    /\ pendList' = IF "PEND_TIME" \in taskStatus[t] THEN LOS_ListDelete(pendList, t) ELSE pendList
    /\ IF taskStatus[t] \cap TIMED = {} THEN UNCHANGED <<taskStatus, g_schedHPF>>
       ELSE IF "SUSPENDED" \in taskStatus[t] THEN taskStatus' = timedOut /\ UNCHANGED g_schedHPF
       ELSE /\ taskStatus' = MakeReady(timedOut, t)
            /\ g_schedHPF' = HPFEnqueue(g_schedHPF, t, atHead)
    /\ UNCHANGED <<prioVars, currTask, timeVars, call>>

\* Mutant: a ready task stays in the list of its old priority.
LOS_TaskPriSetInPlace(t, p, atHead) ==
    /\ SomeCpuFree
    /\ "UNUSED" \notin taskStatus[t]
    /\ priority' = [priority EXCEPT ![t] = p]
    /\ UNCHANGED <<taskStatus, basePrio, muxOwner, priBitmap, inherited, g_schedHPF, currTask,
                   pendList, timeVars, scanning, call>>

\* Mutant: the priority is stored before the task leaves its ready list.
LOS_TaskPriSetEarly(t, p, atHead) ==
    /\ SomeCpuFree
    /\ "UNUSED" \notin taskStatus[t]
    /\ priority' = [priority EXCEPT ![t] = p]
    /\ IF "READY" \in taskStatus[t]
       THEN g_schedHPF' = PriQueInsert(PriQueDelete(g_schedHPF, t, basePrio[t], p),
                                       t, basePrio[t], p, atHead)
       ELSE UNCHANGED g_schedHPF
    /\ UNCHANGED <<taskStatus, basePrio, muxOwner, priBitmap, inherited, currTask, pendList,
                   timeVars, scanning, call>>

\* LOS_TaskPriSet and HPFSchedParamModify: a task that is only initialised is started.
LOS_TaskPriSet(t, p, atHead) ==
    /\ SomeCpuFree
    /\ "UNUSED" \notin taskStatus[t]
    /\ priority' = [priority EXCEPT ![t] = p]
    /\ IF taskStatus[t] \cap {"READY", "INIT"} # {}
       THEN /\ g_schedHPF' = PriQueInsert(HPFDequeue(g_schedHPF, taskStatus, priority, t),
                                          t, basePrio[t], p, atHead)
            /\ taskStatus' = MakeReady(taskStatus, t)
       ELSE UNCHANGED <<g_schedHPF, taskStatus>>
    /\ UNCHANGED <<basePrio, muxOwner, priBitmap, inherited, currTask, pendList, timeVars,
                   scanning, call>>

-----------------------------------------------------------------------------
(* One mutex, as far as it changes priorities: neither HPFPriorityInheritance  *)
(* nor HPFPriorityRestore moves a ready task to another list.  Which of the    *)
(* saved priorities a task goes back to is left open.                          *)

CountInPlace(t, p) ==
    LET hit == "READY" \in taskStatus[t] /\ p # priority[t] IN
    /\ hit => inherited < MaxInherited
    /\ inherited' = IF hit THEN inherited + 1 ELSE inherited

LOS_MuxLock(c, t) ==
    /\ Calls(c, t)
    /\ muxOwner = NULL
    /\ muxOwner' = t
    /\ UNCHANGED <<taskStatus, basePrio, priority, priBitmap, inherited, g_schedHPF, currTask,
                   pendList, timeVars, scanning, call>>

\* OsMuxPendOp of a mutex whose owner has a lower priority than t.
OsMuxPendOp(c, t, timed) ==
    /\ Calls(c, t)
    /\ muxOwner \notin {NULL, t}
    /\ priority[t] < priority[muxOwner]
    /\ priority' = [priority EXCEPT ![muxOwner] = priority[t]]
    /\ priBitmap' = priBitmap \cup {priority[muxOwner]}
    /\ CountInPlace(muxOwner, priority[t])
    /\ HPFWait(c, t, timed)
    /\ UNCHANGED <<basePrio, muxOwner>>

\* HPFPriorityRestore of the owner, for a waiting task that has timed out or is deleted.
HPFPriorityRestore(p) ==
    /\ SomeCpuFree
    /\ \E t \in Tasks : call[t] = "WAIT" /\ taskStatus[t] \cap {"PENDING", "TIMEOUT"} # {}
    /\ p \in priBitmap
    /\ priority' = [priority EXCEPT ![muxOwner] = p]
    /\ priBitmap' = priBitmap \ {p}
    /\ CountInPlace(muxOwner, p)
    /\ UNCHANGED <<taskStatus, basePrio, muxOwner, g_schedHPF, currTask, pendList, timeVars,
                   scanning, call>>

\* OsMuxUnlockUnsafe with HPFPriorityRestore, for a mutex that t owns.
OsMuxUnlockUnsafe(t, p) ==
    /\ p \in IF priBitmap = {} THEN {priority[t]} ELSE priBitmap
    /\ priority' = [priority EXCEPT ![t] = p]
    /\ muxOwner' = NULL
    /\ priBitmap' = {}
    /\ CountInPlace(t, p)
    /\ UNCHANGED basePrio

LOS_MuxUnlock(c, t, p) ==
    /\ Calls(c, t)
    /\ muxOwner = t
    /\ OsMuxUnlockUnsafe(t, p)
    /\ UNCHANGED <<taskStatus, g_schedHPF, currTask, pendList, timeVars, scanning, call>>

\* OsTaskReleaseHoldLock
OsTaskReleaseHoldLock(t, p) ==
    IF muxOwner = t THEN OsMuxUnlockUnsafe(t, p) ELSE p = priority[t] /\ UNCHANGED prioVars

-----------------------------------------------------------------------------
\* LOS_TaskDelete, OsInactiveTaskDelete and HPFExit of a task that is not running.  Flags
\* that are left beside UNUSED go when the control block is recycled; until then every
\* operation stops at UNUSED.
LOS_TaskDelete(t, p) ==
    /\ SomeCpuFree
    /\ taskStatus[t] \cap {"UNUSED", "RUNNING"} = {}
    /\ OsTaskReleaseHoldLock(t, p)
    /\ g_schedHPF' = HPFDequeue(g_schedHPF, taskStatus, priority', t)
    /\ pendList' = IF "PENDING" \in taskStatus[t] THEN LOS_ListDelete(pendList, t) ELSE pendList
    /\ IF taskStatus[t] \cap TIMED # {} THEN OsSchedTimeoutQueueDelete(t) ELSE UNCHANGED timeVars
    /\ taskStatus' = [taskStatus EXCEPT ![t] = {"UNUSED"}]
    /\ call' = [call EXCEPT ![t] = "NONE"]
    /\ UNCHANGED <<currTask, scanning>>

\* OsRunningTaskToExit, called by the task or through SIGNAL_KILL.
OsRunningTaskToExit(c, t, p) ==
    /\ Calls(c, t)
    /\ OsTaskReleaseHoldLock(t, p)
    /\ OsSchedResched(c, g_schedHPF, With(taskStatus, t, {"UNUSED"}))
    /\ UNCHANGED <<pendList, scanning, call>>

\* An empty run queue has no two ends to insert a task at.
Ends == IF g_schedHPF.queueBitmap = {} THEN {FALSE} ELSE BOOLEAN

Next ==
    \/ \E p \in Prios : HPFPriorityRestore(p)
    \/ \E t \in Tasks :
          \/ \E b \in BasePrios, p \in Prios :
                LOS_TaskCreateOnly(t, b, p) \/ LOS_TaskCreate(t, b, p)
          \/ \E pm \in PmModes : LOS_TaskSuspend(t, pm)
          \/ \E p \in Prios : LOS_TaskDelete(t, p)
          \/ \E atHead \in Ends :
                \/ HPFWake(t, atHead)
                \/ \E expired \in BOOLEAN : LOS_TaskResume(t, expired, atHead)
                \/ \E p \in Prios : LOS_TaskPriSet(t, p, atHead)
    \/ \E c \in Cpus :
          \/ \E atHead \in Ends : LOS_Schedule(c, atHead)
          \/ \E t \in Tasks :
                \/ LOS_TaskYield(c, t)
                \/ LOS_TaskDelay(c, t)
                \/ \E timed \in BOOLEAN : OsTaskWait(c, t, timed) \/ OsMuxPendOp(c, t, timed)
                \/ LOS_MuxLock(c, t)
                \/ \E p \in Prios : LOS_MuxUnlock(c, t, p) \/ OsRunningTaskToExit(c, t, p)
                \/ HPFWaitReturn(c, t)
                \/ SuspendSelf(c, t)
                \/ SchedTimeoutQueueScan(c, t)
                \/ \E atHead \in Ends : SchedTimeoutTaskWake(c, t, atHead)

Spec == Init /\ [][Next]_vars

-----------------------------------------------------------------------------
(* Properties                                                               *)

QueuedTasks == UNION {ToSet(g_schedHPF.priQueList[b][p]) : b \in BasePrios, p \in Prios}

\* Every ready list that is not empty can be found through both bitmaps, so a ready task
\* is never lost to TopTaskGet.
Findable(rq) ==
    \A b \in BasePrios :
        /\ \A p \in Prios : rq.priQueList[b][p] # <<>> => p \in rq.bitmap[b]
        /\ rq.bitmap[b] # {} => b \in rq.queueBitmap
ReadyIsFindable == Findable(g_schedHPF)

\* No task sleeps for ever in a bounded wait or a delay: its node is in a timeout queue,
\* or in the hands of a scan, or is frozen until the task is resumed.
TimedWaitHasTimeout ==
    \A t \in Tasks : taskStatus[t] \cap TIMED # {} /\ ~fault =>
        \/ t \in timeoutQueue /\ responseTime[t] = "SET"
        \/ "FROZEN" \in taskStatus[t]
        \/ \E c \in Cpus : scanning[c] = t

\* As long as no mutex has changed the priority of a ready task, a ready task is in the
\* list of its own priority, the bitmaps say exactly which lists are not empty, and
\* readyTasks counts them.
RunQueueExact ==
    inherited = 0 => \A b \in BasePrios :
    /\ \A p \in Prios :
          /\ \A t \in ToSet(g_schedHPF.priQueList[b][p]) : basePrio[t] = b /\ priority[t] = p
          /\ p \in g_schedHPF.bitmap[b] <=> g_schedHPF.priQueList[b][p] # <<>>
          /\ g_schedHPF.readyTasks[b][p] = Len(g_schedHPF.priQueList[b][p])
    /\ b \in g_schedHPF.queueBitmap <=> g_schedHPF.bitmap[b] # {}

\* HPFRunqueueTopTaskGet returns the ready task of the highest priority, as long as no
\* mutex has changed the priority of a ready task.
TopIsHighest ==
    inherited = 0 => \A t \in QueuedTasks : \E top \in TopTaskGet(g_schedHPF) \cap Tasks :
        \/ basePrio[top] < basePrio[t]
        \/ basePrio[top] = basePrio[t] /\ priority[top] <= priority[t]

\* HPFWait returns LOS_OK only to a task that HPFWake has woken or whose time came while
\* it was frozen: a wait that the timeout scan has ended is reported as a timeout.
OkMeansWoken ==
    \A t \in Tasks : "RUNNING" \in taskStatus[t] /\ call[t] = "WAIT" => "TIMEOUT" \in taskStatus[t]

=============================================================================

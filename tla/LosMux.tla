-------------------------------- MODULE LosMux --------------------------------
(***************************************************************************)
(* Mutexes with priority inheritance and priority ceiling                  *)
(* (kernel/base/ipc/los_mux.c, kernel/base/sched/los_priority.c), the      *)
(* timed-out lock and the deletion of a task that holds or waits for one   *)
(* (kernel/base/core/los_task.c).                                          *)
(*                                                                         *)
(* A smaller number is a higher priority.  An unlock hands the mutex to    *)
(* the first waiter, which owns it from then on although it has not        *)
(* returned from LOS_MuxLock yet.                                          *)
(***************************************************************************)
EXTENDS LosTaskPend, LosSchedParam, FiniteSets

CONSTANTS Muxes,
          MuxAttrs,          \* the attributes LOS_MuxInit is called with
          InitPrio,          \* priority of a task when it holds no mutex
          BasePrio,          \* priority of its process
          TaskPolicies,      \* the policies the tasks may have been created with
          MuxCountMax,       \* largest muxCount of a recursive mutex; 0xFFFF in the code
          WaitModes,         \* the timeouts passed to LOS_MuxLock
          NULL

MuxTypes == {"NORMAL", "RECURSIVE", "ERRORCHECK"}
MuxProtocols == {"PRIO_NONE", "PRIO_INHERIT", "PRIO_PROTECT"}

\* The attributes of a zeroed mutex.
ZeroAttr == [type |-> "NORMAL", protocol |-> "PRIO_NONE", prioceiling |-> 0]

\* OsCheckMutexAttr accepts the attributes, so LOS_MuxInit succeeds.
ASSUME MuxAssumption ==
    /\ NULL \notin Muxes \cup Tasks
    /\ InitPrio \in [Tasks -> Nat] /\ BasePrio \in [Tasks -> Nat]
    /\ TaskPolicies \subseteq [Tasks -> HPFPolicies]
    /\ MuxAttrs \subseteq [type : MuxTypes, protocol : MuxProtocols, prioceiling : Nat]
    /\ MuxAttrs # {}
    /\ MuxCountMax \in Nat \ {0}
    /\ WaitModes \subseteq Timeouts

VARIABLES magic, attr, muxCount, owner, muxList,    \* LosMux
          policy, priority, priBitmap, taskMux, lockList,   \* LosTaskCB
          pendMux,    \* pendMux[t]: the local `mutex` of the OsMuxPendOp that t is in
          deleting,   \* the task OsInactiveTaskDelete works on, under SCHEDULER_LOCK
          fault,      \* a NULL owner has been dereferenced: the system is down
          disciplined \* history: the tasks are of one class, and none of them has held
                      \* two mutexes, timed out or been deleted

muxVars  == <<magic, attr, muxCount, owner, muxList>>
prioVars == <<priority, priBitmap>>
vars == <<taskStatus, muxVars, policy, prioVars, taskMux, lockList, pendMux, deleting,
          fault, disciplined>>

TypeOK ==
    /\ taskStatus \in [Tasks -> TaskStatus]
    /\ magic \in [Muxes -> BOOLEAN]
    /\ attr \in [Muxes -> MuxAttrs \cup {ZeroAttr}]
    /\ muxCount \in [Muxes -> 0..MuxCountMax]
    /\ owner \in [Muxes -> Tasks \cup {NULL}]
    /\ muxList \in [Muxes -> Seq(Tasks)]
    /\ policy \in [Tasks -> HPFPolicies]
    /\ priority \in [Tasks -> Nat]
    /\ priBitmap \in [Tasks -> SUBSET Nat]
    /\ taskMux \in [Tasks -> Muxes \cup {NULL}]
    /\ lockList \in [Tasks -> Seq(Muxes)]
    /\ pendMux \in [Tasks -> Muxes \cup {NULL}]
    /\ deleting \in Tasks \cup {NULL}
    /\ fault \in BOOLEAN
    /\ disciplined \in BOOLEAN

\* The scheduler lock is free and t can make a call.
Running(t) == taskStatus[t] = "RUN" /\ deleting = NULL /\ ~fault

-----------------------------------------------------------------------------
(* Priorities (los_sched.c, los_priority.c, los_bitmap.c)                   *)

OsSchedParamCompare(a, b) == SchedParamCompare(policy, BasePrio, priority, a, b)

\* Mutant: waiters are linked in the order they arrive.
FindPosFifo(t, l) == Len(l) + 1

\* Where t is linked: OsMuxPendOp asks after OsMuxBitmapSet, so at the new priorities.
OsSchedLockPendFindPos(t, l) == LockPendFindPos(policy, BasePrio, priority', t, l)

\* Mutant: only the last of several priorities is remembered.
HPFPriorityInheritanceOverwrites(o, prio) ==
    IF priority[o] <= prio
    THEN UNCHANGED prioVars
    ELSE /\ priBitmap' = [priBitmap EXCEPT ![o] = {priority[o]}]
         /\ priority' = [priority EXCEPT ![o] = prio]

\* HPFPriorityInheritance: raise o to prio and remember the priority it had.
HPFPriorityInheritance(o, prio) ==
    IF priority[o] <= prio
    THEN UNCHANGED prioVars
    ELSE /\ priBitmap' = [priBitmap EXCEPT ![o] = @ \cup {priority[o]}]
         /\ priority' = [priority EXCEPT ![o] = prio]

LOS_HighBitGet(bits) == IF bits = {} THEN 32 ELSE Max(bits)
LOS_LowBitGet(bits) == Min(bits)

\* The bitmap bits that HPFPriorityRestore keeps when the tasks of list wait for the
\* mutex that is released.
BitsKept(o, list) ==
    priBitmap[o] \ {priority[w] : w \in {u \in ToSet(list) :
                                            priority[u] # LOS_HighBitGet(priBitmap[o])}}

\* HPFPriorityRestore: o no longer has to run at the priority prio of a waiter.
HPFPriorityRestore(o, list, prio) ==
    \/ /\ priority[o] < prio
       /\ priBitmap' = IF LOS_HighBitGet(priBitmap[o]) # prio
                       THEN [priBitmap EXCEPT ![o] = @ \ {prio}] ELSE priBitmap
       /\ UNCHANGED priority
    \/ /\ priority[o] >= prio
       /\ priBitmap[o] = {}
       /\ UNCHANGED prioVars
    \/ /\ priority[o] >= prio
       /\ priBitmap[o] # {}
       /\ LET kept == BitsKept(o, list)
              low == LOS_LowBitGet(kept)
          IN  /\ priBitmap' = [priBitmap EXCEPT ![o] = kept \ {low}]
              /\ priority' = [priority EXCEPT ![o] = low]

\* Mutant: a lower priority is inherited from, a higher one is not.
OsMuxBitmapSetSwapped(m, t) ==
    IF attr[m].protocol = "PRIO_INHERIT" /\ OsSchedParamCompare(owner[m], t) < 0
    THEN HPFPriorityInheritance(owner[m], priority[t])
    ELSE UNCHANGED prioVars

\* OsMuxBitmapSet: the owner of m inherits the priority of t.
OsMuxBitmapSet(m, t) ==
    IF attr[m].protocol = "PRIO_INHERIT" /\ OsSchedParamCompare(owner[m], t) > 0
    THEN HPFPriorityInheritance(owner[m], priority[t])
    ELSE UNCHANGED prioVars

\* OsMuxBitmapRestore: it reads mutex->owner without a NULL check.
OsMuxBitmapRestore(m, list, t) ==
    IF attr[m].protocol # "PRIO_INHERIT" THEN UNCHANGED <<prioVars, fault>>
    ELSE IF owner[m] = NULL THEN fault' = TRUE /\ UNCHANGED prioVars
    ELSE HPFPriorityRestore(owner[m], list, priority[t]) /\ UNCHANGED fault

-----------------------------------------------------------------------------
(* Mutex operations                                                         *)

\* The tasks' priorities are comparable: one policy, and processes of one priority.
OneClass == \A t, u \in Tasks : policy[t] = policy[u] /\ BasePrio[t] = BasePrio[u]

Init ==
    /\ taskStatus = [t \in Tasks |-> "RUN"]
    /\ magic = [m \in Muxes |-> FALSE]
    /\ attr = [m \in Muxes |-> ZeroAttr]
    /\ muxCount = [m \in Muxes |-> 0]
    /\ owner = [m \in Muxes |-> NULL]
    /\ muxList = [m \in Muxes |-> <<>>]
    /\ policy \in TaskPolicies
    /\ priority = InitPrio
    /\ priBitmap = [t \in Tasks |-> {}]
    /\ taskMux = [t \in Tasks |-> NULL]
    /\ lockList = [t \in Tasks |-> <<>>]
    /\ pendMux = [t \in Tasks |-> NULL]
    /\ deleting = NULL
    /\ fault = FALSE
    /\ disciplined = OneClass

\* Called for storage that is not a live mutex (a caller's duty).
LOS_MuxInit(t, m, a) ==
    /\ Running(t)
    /\ ~magic[m]
    /\ attr' = [attr EXCEPT ![m] = a]
    /\ muxCount' = [muxCount EXCEPT ![m] = 0]
    /\ owner' = [owner EXCEPT ![m] = NULL]
    /\ muxList' = [muxList EXCEPT ![m] = <<>>]
    /\ magic' = [magic EXCEPT ![m] = TRUE]
    /\ UNCHANGED <<taskStatus, prioVars, taskMux, lockList, pendMux, deleting, fault>>

\* LOS_MuxDestroy: only muxCount is tested, then the block is zeroed.
LOS_MuxDestroy(t, m) ==
    /\ Running(t)
    /\ magic[m]
    /\ muxCount[m] = 0
    /\ magic' = [magic EXCEPT ![m] = FALSE]
    /\ attr' = [attr EXCEPT ![m] = ZeroAttr]
    /\ owner' = [owner EXCEPT ![m] = NULL]
    /\ muxList' = [muxList EXCEPT ![m] = <<>>]
    /\ UNCHANGED <<taskStatus, muxCount, prioVars, taskMux, lockList, pendMux, deleting, fault>>

\* OsMuxPendOp, mutex free: become the owner; a ceiling takes effect at once.
TakeFree(t, m) ==
    /\ muxCount[m] = 0
    /\ muxCount' = [muxCount EXCEPT ![m] = 1]
    /\ owner' = [owner EXCEPT ![m] = t]
    /\ lockList' = [lockList EXCEPT ![t] = Append(@, m)]
    /\ IF attr[m].protocol = "PRIO_PROTECT"
       THEN HPFPriorityInheritance(t, attr[m].prioceiling)
       ELSE UNCHANGED prioVars
    /\ UNCHANGED <<taskStatus, muxList, taskMux, pendMux>>

\* OsMuxPendOp, the owner locks a recursive mutex again; the count saturates.
TakeAgain(t, m) ==
    /\ muxCount[m] > 0
    /\ owner[m] = t
    /\ attr[m].type = "RECURSIVE"
    /\ muxCount[m] < MuxCountMax
    /\ muxCount' = [muxCount EXCEPT ![m] = @ + 1]
    /\ UNCHANGED <<taskStatus, owner, muxList, prioVars, taskMux, lockList, pendMux>>

\* OsMuxPendOp, mutex held: raise the owner, link by priority, wait.
Block(t, m, timeout) ==
    /\ muxCount[m] > 0
    /\ ~(owner[m] = t /\ attr[m].type = "RECURSIVE")
    /\ timeout # "NO_WAIT"
    /\ OsMuxBitmapSet(m, t)
    /\ taskMux' = [taskMux EXCEPT ![t] = m]
    /\ muxList' = [muxList EXCEPT ![m] = InsertAt(@, OsSchedLockPendFindPos(t, @), t)]
    /\ taskStatus' = HPFWait(t, timeout)
    /\ pendMux' = [pendMux EXCEPT ![t] = m]
    /\ UNCHANGED <<muxCount, owner, lockList>>

\* LOS_MuxLock up to ops->wait().
LOS_MuxLock(t, m, timeout) ==
    /\ Running(t)
    /\ magic[m]
    /\ ~(attr[m].type = "ERRORCHECK" /\ owner[m] = t)
    /\ TakeFree(t, m) \/ TakeAgain(t, m) \/ Block(t, m, timeout)
    /\ UNCHANGED <<magic, attr, deleting, fault>>

LOS_MuxTrylock(t, m) ==
    /\ Running(t)
    /\ magic[m]
    /\ owner[m] = NULL \/ (owner[m] = t /\ attr[m].type = "RECURSIVE")
    /\ TakeFree(t, m) \/ TakeAgain(t, m)
    /\ UNCHANGED <<magic, attr, deleting, fault>>

\* The tail of OsMuxPendOp when the task was woken: it owns the mutex.
MuxLockReturn(t) ==
    /\ taskStatus[t] = "WOKEN" /\ deleting = NULL /\ ~fault
    /\ taskStatus' = HPFWaitReturn(t)
    /\ pendMux' = [pendMux EXCEPT ![t] = NULL]
    /\ UNCHANGED <<muxVars, prioVars, taskMux, lockList, deleting, fault>>

\* The tail of OsMuxPendOp after a timeout: whoever owns the mutex NOW is restored.
MuxLockTimedOut(t) ==
    /\ taskStatus[t] = "TIMEOUT" /\ deleting = NULL /\ ~fault
    /\ OsMuxBitmapRestore(pendMux[t], <<>>, t)
    /\ taskMux' = [taskMux EXCEPT ![t] = NULL]
    /\ taskStatus' = HPFWaitReturn(t)
    /\ pendMux' = [pendMux EXCEPT ![t] = NULL]
    /\ UNCHANGED <<muxVars, lockList, deleting>>

\* The tick finds that a bounded wait is over.
MuxTimeout(t) ==
    /\ deleting = NULL /\ ~fault
    /\ SchedTimeoutTaskWake(t)
    /\ muxList' = [m \in Muxes |-> LOS_ListDelete(muxList[m], t)]
    /\ taskMux' = [taskMux EXCEPT ![t] = NULL]
    /\ UNCHANGED <<magic, attr, muxCount, owner, prioVars, lockList, pendMux, deleting, fault>>

\* Mutant: the mutex stays on the hold list.
ReleaseStillHeld(t, m) ==
    /\ muxList[m] = <<>>
    /\ owner' = [owner EXCEPT ![m] = NULL]
    /\ muxCount' = [muxCount EXCEPT ![m] = @ - 1]
    /\ IF attr[m].protocol = "PRIO_PROTECT"
       THEN HPFPriorityRestore(t, <<>>, priority[t])
       ELSE UNCHANGED prioVars
    /\ UNCHANGED <<taskStatus, muxList, taskMux, lockList, fault>>

\* Mutant: a ceiling is not undone.
ReleaseAtCeiling(t, m) ==
    /\ muxList[m] = <<>>
    /\ lockList' = [lockList EXCEPT ![t] = LOS_ListDelete(@, m)]
    /\ owner' = [owner EXCEPT ![m] = NULL]
    /\ muxCount' = [muxCount EXCEPT ![m] = @ - 1]
    /\ UNCHANGED <<taskStatus, muxList, prioVars, taskMux, fault>>

\* OsMuxPostOp with nobody waiting: no priority is restored.
Release(t, m) ==
    /\ muxList[m] = <<>>
    /\ lockList' = [lockList EXCEPT ![t] = LOS_ListDelete(@, m)]
    /\ owner' = [owner EXCEPT ![m] = NULL]
    /\ muxCount' = [muxCount EXCEPT ![m] = @ - 1]
    /\ IF attr[m].protocol = "PRIO_PROTECT"
       THEN HPFPriorityRestore(t, <<>>, priority[t])
       ELSE UNCHANGED prioVars
    /\ UNCHANGED <<taskStatus, muxList, taskMux, fault>>

\* OsMuxPostOp with waiters: restore the owner and hand over to the first waiter.
HandOver(t, m) ==
    LET w == Head(muxList[m]) IN
    /\ muxList[m] # <<>>
    /\ IF attr[m].protocol = "PRIO_PROTECT"
       THEN HPFPriorityRestore(t, <<>>, priority[t]) /\ UNCHANGED fault
       ELSE OsMuxBitmapRestore(m, muxList[m], w)
    /\ muxCount' = [muxCount EXCEPT ![m] = 1]
    /\ owner' = [owner EXCEPT ![m] = w]
    /\ LET unlinked == [lockList EXCEPT ![t] = LOS_ListDelete(@, m)]
       IN  lockList' = [unlinked EXCEPT ![w] = Append(@, m)]
    /\ muxList' = [muxList EXCEPT ![m] = Tail(@)]
    /\ taskStatus' = HPFWake(w)
    /\ taskMux' = [taskMux EXCEPT ![w] = NULL]

\* OsMuxUnlockUnsafe
OsMuxUnlockUnsafe(t, m) ==
    /\ magic[m]
    /\ owner[m] = t
    /\ muxCount[m] # 0
    /\ \/ /\ muxCount[m] > 1 /\ attr[m].type = "RECURSIVE"
          /\ muxCount' = [muxCount EXCEPT ![m] = @ - 1]
          /\ UNCHANGED <<taskStatus, owner, muxList, prioVars, taskMux, lockList, fault>>
       \/ /\ ~(muxCount[m] > 1 /\ attr[m].type = "RECURSIVE")
          /\ Release(t, m) \/ HandOver(t, m)

LOS_MuxUnlock(t, m) ==
    /\ Running(t)
    /\ OsMuxUnlockUnsafe(t, m)
    /\ UNCHANGED <<magic, attr, pendMux, deleting>>

-----------------------------------------------------------------------------
(* Deletion of a task.  It keeps the scheduler lock throughout, so nothing  *)
(* interleaves while deleting # NULL.                                       *)

\* LOS_TaskDelete reaches OsInactiveTaskDelete for a task in any state.
LOS_TaskDelete(t) ==
    /\ deleting = NULL /\ ~fault
    /\ taskStatus[t] # "UNUSED"
    /\ deleting' = t
    /\ UNCHANGED <<taskStatus, muxVars, prioVars, taskMux, lockList, pendMux, fault>>

\* One iteration of OsTaskReleaseHoldLock.
OsTaskReleaseHoldLock(t) ==
    /\ deleting = t /\ ~fault
    /\ lockList[t] # <<>>
    /\ OsMuxUnlockUnsafe(t, Head(lockList[t]))
    /\ UNCHANGED <<magic, attr, pendMux, deleting>>

\* Mutant: the mutexes the task holds are not released first.
OsInactiveTaskDeleteHolder(t) ==
    LET m == taskMux[t] IN
    /\ deleting = t /\ ~fault
    /\ muxList' = [n \in Muxes |-> LOS_ListDelete(muxList[n], t)]
    /\ IF m # NULL /\ IsPending(t) /\ magic[m]
       THEN OsMuxBitmapRestore(m, <<>>, t)
       ELSE UNCHANGED <<prioVars, fault>>
    /\ taskStatus' = [taskStatus EXCEPT ![t] = "UNUSED"]
    /\ deleting' = NULL
    /\ pendMux' = [pendMux EXCEPT ![t] = NULL]
    /\ UNCHANGED <<magic, attr, muxCount, owner, taskMux, lockList>>

\* The rest of OsInactiveTaskDelete: HPFExit unlinks the task, then the owner of the
\* mutex it was waiting for is restored.  (The code tests the status it saved on entry;
\* a task that one of its own unlocks has woken since then has no taskMux.)  taskMux goes
\* with the recycled control block.
OsInactiveTaskDelete(t) ==
    LET m == taskMux[t] IN
    /\ deleting = t /\ ~fault
    /\ lockList[t] = <<>>
    /\ muxList' = [n \in Muxes |-> LOS_ListDelete(muxList[n], t)]
    /\ IF m # NULL /\ IsPending(t) /\ magic[m]
       THEN OsMuxBitmapRestore(m, <<>>, t)
       ELSE UNCHANGED <<prioVars, fault>>
    /\ taskStatus' = [taskStatus EXCEPT ![t] = "UNUSED"]
    /\ deleting' = NULL
    /\ pendMux' = [pendMux EXCEPT ![t] = NULL]
    /\ taskMux' = [taskMux EXCEPT ![t] = NULL]
    /\ UNCHANGED <<magic, attr, muxCount, owner, lockList>>

\* t asks for a second mutex: no longer the simple use the comments are about.
SecondMutex(t, m) == owner[m] # t /\ lockList[t] # <<>>

Step(t) ==
    \/ /\ \/ \E m \in Muxes, a \in MuxAttrs : LOS_MuxInit(t, m, a)
          \/ \E m \in Muxes : LOS_MuxDestroy(t, m)
          \/ \E m \in Muxes : LOS_MuxUnlock(t, m)
          \/ MuxLockReturn(t)
          \/ MuxLockTimedOut(t)
          \/ OsTaskReleaseHoldLock(t)
          \/ OsInactiveTaskDelete(t)
       /\ UNCHANGED disciplined
    \/ \E m \in Muxes :
          /\ \/ \E timeout \in WaitModes : LOS_MuxLock(t, m, timeout)
             \/ LOS_MuxTrylock(t, m)
          /\ disciplined' = (disciplined /\ ~SecondMutex(t, m))
    \/ /\ MuxTimeout(t) \/ LOS_TaskDelete(t)
       /\ disciplined' = FALSE

\* What a task is scheduled by is chosen when it is created.
Next == (\E t \in Tasks : Step(t)) /\ UNCHANGED policy

Spec == Init /\ [][Next]_vars

-----------------------------------------------------------------------------
(* Properties that hold for every use of the operations                     *)

\* muxCount, owner and the owner's lockList tell the same story after every lock,
\* unlock, hand-over, timeout and deletion: a mutex is free exactly when its count is 0,
\* and it is on the hold list of its owner, once, and on no other.
OwnerAgrees ==
    \A m \in Muxes :
        /\ owner[m] = NULL <=> muxCount[m] = 0
        /\ \A t \in Tasks : m \in ToSet(lockList[t]) <=> owner[m] = t
        /\ \A t \in Tasks : IsInjective(lockList[t])

\* Whoever waits for a mutex waits for a live owner that can still release it: the
\* deletion of the owner hands the mutex on, and LOS_MuxDestroy, which tests muxCount
\* only, never zeroes a mutex that somebody waits for.
NoStrandedWaiter ==
    \A m \in Muxes : muxList[m] # <<>> =>
        magic[m] /\ owner[m] # NULL /\ taskStatus[owner[m]] # "UNUSED"

\* Inheritance never loses the priority a task started with: it is the lowest priority
\* in priBitmap as long as the task is raised, and every saved priority is lower than
\* the one the task has.  The guards on LOS_HighBitGet in HPFPriorityRestore are what
\* keeps it, however timeouts, unlocks and deletions pick the bits.
OriginalPriorityKept ==
    \A t \in Tasks :
        /\ \A b \in priBitmap[t] : priority[t] < b
        /\ InitPrio[t] = IF priBitmap[t] = {} THEN priority[t] ELSE Max(priBitmap[t])

-----------------------------------------------------------------------------
(* Properties the comments claim.  They hold for tasks of one policy in     *)
(* processes of one priority, while no task has held two mutexes, timed out *)
(* or been deleted, and not for every use.                                  *)

\* HPFPriorityRestore's comment: once the resource is released the owner has its
\* original priority again.
PriorityRestored ==
    disciplined => \A t \in Tasks : lockList[t] = <<>> => priority[t] = InitPrio[t]

\* LOS_MUX_PRIO_INHERIT's comment: while a task waits for a mutex its owner runs at no
\* lower priority.
InheritsFromWaiters ==
    disciplined =>
        \A m \in Muxes : magic[m] /\ attr[m].protocol = "PRIO_INHERIT" =>
            \A w \in ToSet(muxList[m]) : priority[owner[m]] <= priority[w]

\* The unlock description: the waiter with the highest priority is the first one.
HighestWaiterFirst ==
    disciplined =>
        \A m \in Muxes : \A w \in ToSet(muxList[m]) :
            priority[Head(muxList[m])] <= priority[w]

\* OsMuxBitmapRestore restores the task that holds the mutex: there is one.
RestoreFindsOwner == ~fault

=============================================================================

------------------------------- MODULE LosEvent -------------------------------
(***************************************************************************)
(* Events (kernel/base/ipc/los_event.c): a set of flags that tasks write,  *)
(* clear and wait for.                                                     *)
(*                                                                         *)
(* A write wakes the waiters its flags satisfy and leaves the flags set.   *)
(* A woken reader polls the flags a second time once it runs, and only     *)
(* this second look decides what it reads.                                 *)
(***************************************************************************)
EXTENDS LosTaskPend, FiniteSets

CONSTANTS Events,      \* event control blocks
          Flags,       \* the 31 usable bits of uwEventID
          Masks,       \* Masks[t]: the masks task t reads with
          Clears,      \* client discipline: what LOS_EventClear keeps; {} if nobody clears or destroys
          OnceEvents,  \* the control blocks of condition variables (LosCond)
          NULL

\* LOS_WAITMODE_AND or LOS_WAITMODE_OR, with or without LOS_WAITMODE_CLR
\* (OsEventParamCheck refuses anything else, and an empty mask).
Modes == [all : BOOLEAN, clr : BOOLEAN]

ASSUME EventAssumption ==
    /\ NULL \notin Events
    /\ Masks \in [Tasks -> SUBSET (SUBSET Flags \ {{}})]
    /\ Clears \subseteq SUBSET Flags
    /\ OnceEvents \subseteq Events

VARIABLES uwEventID, stEventList,   \* EVENT_CB_S
          reading     \* reading[t]: eventCB, eventMask and mode of the OsEventReadImp that t is in

vars == <<taskStatus, uwEventID, stEventList, reading>>

TypeOK ==
    /\ taskStatus \in [Tasks -> TaskStatus]
    /\ uwEventID \in [Events -> SUBSET Flags]
    /\ stEventList \in [Events -> Seq(Tasks)]
    /\ reading \in [Tasks -> {NULL} \cup [event : Events, mask : SUBSET Flags, mode : Modes]]

Running(t) == taskStatus[t] = "RUN"

-----------------------------------------------------------------------------
\* OsEventPoll: the flags a read returns, none when it is not satisfied ...
OsEventPoll(flags, mask, mode) ==
    IF mode.all THEN (IF mask \subseteq flags THEN mask ELSE {}) ELSE flags \cap mask

\* ... and the flags it leaves.
AfterPoll(flags, mask, mode) ==
    IF mode.clr THEN flags \ OsEventPoll(flags, mask, mode) ELSE flags

\* LOS_EventInit for every control block, before it is used.
Init ==
    /\ taskStatus = [t \in Tasks |-> "RUN"]
    /\ uwEventID = [e \in Events |-> {}]
    /\ stEventList = [e \in Events |-> <<>>]
    /\ reading = [t \in Tasks |-> NULL]

\* OsEventReadImp up to ops->wait(): poll, and wait if that fails.  (OsEventReadOnce, which
\* does not poll first, has no caller.)
OsEventReadImp(t, e, mask, mode, timeout) ==
    LET ret == OsEventPoll(uwEventID[e], mask, mode) IN
    \/ /\ ret # {}
       /\ uwEventID' = [uwEventID EXCEPT ![e] = AfterPoll(@, mask, mode)]
       /\ UNCHANGED <<taskStatus, stEventList, reading>>
    \/ /\ ret = {}
       /\ timeout # "NO_WAIT"
       /\ reading' = [reading EXCEPT ![t] = [event |-> e, mask |-> mask, mode |-> mode]]
       /\ stEventList' = [stEventList EXCEPT ![e] = Append(@, t)]
       /\ taskStatus' = HPFWait(t, timeout)
       /\ UNCHANGED uwEventID

LOS_EventRead(t, e, mask, mode, timeout) ==
    Running(t) /\ OsEventReadImp(t, e, mask, mode, timeout)

\* The tail of OsEventReadImp after a wake up: poll again, return whatever that gives.
EventReadReturn(t) ==
    /\ taskStatus[t] = "WOKEN"
    /\ uwEventID' = [uwEventID EXCEPT ![reading[t].event] = AfterPoll(@, reading[t].mask, reading[t].mode)]
    /\ taskStatus' = HPFWaitReturn(t)
    /\ reading' = [reading EXCEPT ![t] = NULL]
    /\ UNCHANGED stEventList

\* LOS_ERRNO_EVENT_READ_TIMEOUT
EventReadTimedOut(t) ==
    /\ taskStatus[t] = "TIMEOUT"
    /\ taskStatus' = HPFWaitReturn(t)
    /\ reading' = [reading EXCEPT ![t] = NULL]
    /\ UNCHANGED <<uwEventID, stEventList>>

\* The tick finds that a bounded wait is over.
EventTimeout(t) ==
    /\ SchedTimeoutTaskWake(t)
    /\ stEventList' = [e \in Events |-> LOS_ListDelete(stEventList[e], t)]
    /\ UNCHANGED <<uwEventID, reading>>

\* LOS_TaskDelete of any task: HPFExit unlinks a pending one; the flags stay.
LOS_TaskDelete(t) ==
    /\ taskStatus[t] # "UNUSED"
    /\ taskStatus' = [taskStatus EXCEPT ![t] = "UNUSED"]
    /\ stEventList' = [e \in Events |-> LOS_ListDelete(stEventList[e], t)]
    /\ reading' = [reading EXCEPT ![t] = NULL]
    /\ UNCHANGED uwEventID

\* Mutant: an AND wait looks at the flags of this write only.
OsEventResumeThisWrite(t, flags, all) ==
    LET mask == reading[t].mask IN
    IF reading[t].mode.all THEN mask \subseteq flags ELSE mask \cap flags # {}

\* OsEventResume: is waiting task t woken by a write of flags that leaves all set?
OsEventResume(t, flags, all) ==
    LET mask == reading[t].mask IN
    IF reading[t].mode.all THEN mask \subseteq all ELSE mask \cap flags # {}

\* OsEventWriteUnsafe: with once the loop stops after the first waiter, woken or not.
OsEventWriteUnsafe(e, flags, once) ==
    LET all == uwEventID[e] \cup flags
        list == stEventList[e]
        visited == IF once /\ list # <<>> THEN {Head(list)} ELSE ToSet(list)
        resumed == {t \in visited : OsEventResume(t, flags, all)}
    IN
    /\ uwEventID' = [uwEventID EXCEPT ![e] = all]
    /\ stEventList' = [stEventList EXCEPT ![e] = ListWithout(@, resumed)]
    /\ taskStatus' = [t \in Tasks |-> IF t \in resumed THEN "WOKEN" ELSE taskStatus[t]]
    /\ UNCHANGED reading

\* A write may come from an interrupt, so no task has to be running.
LOS_EventWrite(e, flags) == OsEventWriteUnsafe(e, flags, FALSE)

OsEventWriteOnce(e, flags) == OsEventWriteUnsafe(e, flags, TRUE)

\* LOS_EventPoll on the flags of a control block, without waiting.
LOS_EventPoll(t, e, mask, mode) ==
    /\ Running(t)
    /\ uwEventID' = [uwEventID EXCEPT ![e] = AfterPoll(@, mask, mode)]
    /\ UNCHANGED <<taskStatus, stEventList, reading>>

\* LOS_EventClear keeps the flags of eventMask and clears the others.
LOS_EventClear(e, mask) ==
    /\ uwEventID' = [uwEventID EXCEPT ![e] = @ \cap mask]
    /\ UNCHANGED <<taskStatus, stEventList, reading>>

\* LOS_EventDestroy: refused while a task is linked; the block can be used again at once.
LOS_EventDestroy(e) ==
    /\ stEventList[e] = <<>>
    /\ uwEventID' = [uwEventID EXCEPT ![e] = {}]
    /\ UNCHANGED <<taskStatus, stEventList, reading>>

\* OsEventReadWithCond first looks at a value in user memory.  When the value has changed
\* it clears flags, and reads otherwise.
OsEventReadWithCond(t, e, mask, mode, timeout, changed, clearEvent) ==
    /\ Running(t)
    /\ \/ changed /\ LOS_EventClear(e, clearEvent)
       \/ ~changed /\ OsEventReadImp(t, e, mask, mode, timeout)

\* The calls of the tasks ready and of interrupts on an ordinary event.
EventStep(e, ready) ==
    \/ \E flags \in SUBSET Flags : LOS_EventWrite(e, flags)
    \/ \E mask \in Clears : LOS_EventClear(e, mask)
    \/ Clears # {} /\ LOS_EventDestroy(e)
    \/ \E t \in ready :
          \/ \E mask \in Masks[t], mode \in Modes, timeout \in Timeouts :
                LOS_EventRead(t, e, mask, mode, timeout)
          \/ \E mask \in Masks[t], mode \in Modes : LOS_EventPoll(t, e, mask, mode)

\* What happens to a task that reads an event.
ReaderStep(t) == EventReadReturn(t) \/ EventReadTimedOut(t)

\* What others do to a task.
InterruptedRead(t) == EventTimeout(t) \/ LOS_TaskDelete(t)

Next ==
    \/ \E e \in Events \ OnceEvents : EventStep(e, Tasks)
    \/ \E t \in Tasks : ReaderStep(t) \/ InterruptedRead(t)

Spec == Init /\ [][Next]_vars

-----------------------------------------------------------------------------
\* No lost wake up: a task waits only while the flags it asked for are not there.
\* OsEventResume looks at the flags of the current write only (for an OR wait), which is
\* enough because no earlier write can have left a wanted flag behind, unless the Once
\* calls are used, which wake one task and poll nothing on entry.
NoSatisfiedWaiter ==
    \A e \in Events \ OnceEvents : \A t \in ToSet(stEventList[e]) :
        OsEventPoll(uwEventID[e], reading[t].mask, reading[t].mode) = {}

=============================================================================

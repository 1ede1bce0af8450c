------------------------------- MODULE LosSwtmr -------------------------------
(***************************************************************************)
(* Software timers (kernel/base/core/los_swtmr.c).                         *)
(*                                                                         *)
(* A timer control block is in the free list, or in the sorted time list   *)
(* of one CPU (both through the same node), or in neither.  Each CPU has a *)
(* timer task: it looks when the next timer is due, sleeps, takes due      *)
(* timers out of its list under the list's lock, and only then takes       *)
(* g_swtmrSpin to deal with them; calls from other tasks and interrupts    *)
(* fall into that window.  Times are relative: ticks until a timer is due, *)
(* ticks until the task wakes up.                                          *)
(*                                                                         *)
(* A node that is put into a list while it is in one, and the failure of   *)
(* LOS_ASSERT in SwtmrWake, are recorded in `fault`; nothing is said about *)
(* the system after it.                                                    *)
(***************************************************************************)
EXTENDS Naturals, SequencesExt

CONSTANTS LIMIT,       \* LOSCFG_BASE_CORE_SWTMR_LIMIT
          CORES,       \* LOSCFG_KERNEL_CORE_NUM
          Procs,       \* the processes that create timers
          Settings,    \* Settings[s]: modes and intervals, in ticks, clients give block s
          MaxSlip,     \* bound: ticks between a timer task's look and its sleep
          Lives,       \* OS_SWTMR_MAX_TIMERID / LIMIT: how often a block gets a new id
          NULL

ASSUME SwtmrAssumption ==
    /\ LIMIT \in Nat \ {0} /\ CORES \in Nat \ {0} /\ Lives \in Nat \ {0}
    /\ MaxSlip \in Nat
    /\ Settings \in [0..(LIMIT - 1) -> SUBSET ({"ONCE", "PERIOD", "NO_SELFDELETE"} \X (Nat \ {0}))]
    /\ NULL \notin Nat /\ NULL \notin Procs

Timers == 0..(LIMIT - 1)
Intervals == {setting[2] : setting \in UNION Range(Settings)}
Cpus == 0..(CORES - 1)

VARIABLES state, mode, interval, owner,
          life,       \* usTimerID = index + life * LIMIT
          free,       \* g_swtmrFreeList
          creating,   \* creating[s]: the process whose LOS_SwtmrCreate has unlocked and not yet filled the block
          sortLink,   \* sortLink[c]: the time list of CPU c
          left,       \* ticks until the timer is due, while it is in a time list
          task,       \* what the timer task of a CPU does
          wait,       \* ticks the timer task still sleeps, or means to sleep
          slip,       \* history: ticks between its last look and the sleep
          expiring,   \* the timer that is out of the time list of c and not yet seen by SwtmrWake
          handlers,   \* number of items in swtmrHandlerQueue
          recycled,   \* recycled[p]: how many blocks OsSwtmrRecycle has looked at
          missed,     \* history: timers started between a timer task's look and its sleep
          fault

blocks == <<state, mode, interval, owner, life, free, creating>>
vars == <<state, mode, interval, owner, life, free, creating, sortLink, left, task, wait, slip,
          expiring, handlers, recycled, missed, fault>>

TypeOK ==
    /\ state \in [Timers -> {"UNUSED", "CREATED", "TICKING"}]
    /\ mode \in [Timers -> {"ONCE", "PERIOD", "NO_SELFDELETE", NULL}] /\ interval \in [Timers -> Intervals \cup {NULL}]
    /\ owner \in [Timers -> Procs \cup {NULL}] /\ life \in [Timers -> 0..(Lives - 1)]
    /\ free \in Seq(Timers)
    /\ creating \in [Timers -> Procs \cup {NULL}]
    /\ sortLink \in [Cpus -> Seq(Timers)] /\ left \in [Timers -> 0..Max(Intervals)]
    /\ task \in [Cpus -> {"LOOK", "LOOKED", "SLEEP", "SCAN", "RUN"}] /\ wait \in [Cpus -> 0..Max(Intervals)]
    /\ expiring \in [Cpus -> Timers \cup {NULL}] /\ handlers \in [Cpus -> 0..LIMIT]
    /\ recycled \in [Procs -> 0..LIMIT] /\ slip \in [Cpus -> 0..MaxSlip] /\ missed \subseteq Timers /\ fault \in BOOLEAN

Init ==
    /\ state = [s \in Timers |-> "UNUSED"]
    /\ mode = [s \in Timers |-> NULL] /\ interval = [s \in Timers |-> NULL]
    /\ owner = [s \in Timers |-> NULL]
    /\ life = [s \in Timers |-> 0]
    /\ free = [i \in 1..LIMIT |-> i - 1]
    /\ creating = [s \in Timers |-> NULL]
    /\ sortLink = [c \in Cpus |-> <<>>] /\ left = [s \in Timers |-> 0]
    /\ task = [c \in Cpus |-> "LOOK"] /\ wait = [c \in Cpus |-> 0]
    /\ expiring = [c \in Cpus |-> NULL] /\ handlers = [c \in Cpus |-> 0]
    /\ recycled = [p \in Procs |-> 0] /\ slip = [c \in Cpus |-> 0] /\ missed = {} /\ fault = FALSE

-----------------------------------------------------------------------------
Without(q, s) == SelectSeq(q, LAMBDA x : x # s)
Linked(s) == \E c \in Cpus : s \in ToSet(sortLink[c])
Unlinked(s) == [c \in Cpus |-> Without(sortLink[c], s)]

\* AddNode2SortLink: behind the last node that is not due later, but next to the head if
\* both are due at the same time.
AddNode2SortLink(q, s, l) ==
    LET notLater == Cardinality({i \in DOMAIN q : left[q[i]] <= l})
        i == IF q # <<>> /\ left[Head(q)] = l THEN 1 ELSE notLater
    IN SubSeq(q, 1, i) \o <<s>> \o SubSeq(q, i + 1, Len(q))

\* FindIdleSwtmrRunqueue, over the time lists q
Idle(q) == CHOOSE c \in Cpus : /\ \A d \in Cpus : Len(q[c]) <= Len(q[d])
                               /\ \A d \in 0..(c - 1) : Len(q[c]) < Len(q[d])

\* A step that meets undefined behaviour.
Undefined == /\ fault' = TRUE
             /\ UNCHANGED <<blocks, sortLink, left, task, wait, slip, expiring, handlers, missed>>
Fault == Undefined /\ UNCHANGED recycled

-----------------------------------------------------------------------------
\* LOS_SwtmrCreate takes a block ...
SwtmrCreateTakes(p) ==
    LET s == Head(free) IN
    /\ recycled[p] = 0
    /\ free # <<>>
    /\ free' = Tail(free)
    /\ creating' = [creating EXCEPT ![s] = p]
    /\ UNCHANGED <<state, mode, interval, owner, life, sortLink, left, task, wait, slip, expiring,
                   handlers, recycled, missed, fault>>

\* ... and fills it after g_swtmrSpin is free again.
SwtmrCreateFills(s, m, n) ==
    /\ creating[s] # NULL
    /\ creating' = [creating EXCEPT ![s] = NULL]
    /\ state' = [state EXCEPT ![s] = "CREATED"]
    /\ owner' = [owner EXCEPT ![s] = creating[s]]
    /\ mode' = [mode EXCEPT ![s] = m]
    /\ interval' = [interval EXCEPT ![s] = n]
    /\ UNCHANGED <<life, free, sortLink, left, task, wait, slip, expiring, handlers, recycled, missed, fault>>

\* Mutant: a sleeping timer task is never woken earlier.
SwtmrAdjustCheckNever(c, n) == wait

\* SwtmrAdjustCheck: a sleeping timer task that would come too late is woken earlier.
SwtmrAdjustCheck(c, n) ==
    IF task[c] = "SLEEP" /\ n < wait[c] THEN [wait EXCEPT ![c] = n] ELSE wait

\* SwtmrStart of a block whose node is not in any list of q
SwtmrStart(s, q) ==
    LET c == Idle(q)
        n == interval[s]
    IN /\ sortLink' = [q EXCEPT ![c] = AddNode2SortLink(@, s, n)]
       /\ left' = [left EXCEPT ![s] = n]
       /\ state' = [state EXCEPT ![s] = "TICKING"]
       /\ wait' = SwtmrAdjustCheck(c, n)
       /\ missed' = IF task[c] = "LOOKED" THEN missed \cup {s} ELSE missed \ {s}

\* A call with the current id of the block; any other id is refused.  A timer that ticks is
\* stopped first, which takes it out of its time list if it is in one.
LOS_SwtmrStart(s) ==
    LET q == IF state[s] = "TICKING" THEN Unlinked(s) ELSE sortLink IN
    /\ state[s] # "UNUSED"
    /\ IF s \in ToSet(free) \/ \E c \in Cpus : s \in ToSet(q[c])
       THEN Fault
       ELSE /\ SwtmrStart(s, q)
            /\ UNCHANGED <<mode, interval, owner, life, free, creating, task, slip, expiring, handlers,
                           recycled, fault>>

LOS_SwtmrStop(s) ==
    /\ state[s] = "TICKING"
    /\ state' = [state EXCEPT ![s] = "CREATED"]
    /\ sortLink' = Unlinked(s)
    /\ left' = [left EXCEPT ![s] = 0]
    /\ missed' = missed \ {s}
    /\ UNCHANGED <<mode, interval, owner, life, free, creating, task, wait, slip, expiring,
                   handlers, recycled, fault>>

\* LOS_SwtmrDelete with the current id of the block
SwtmrDelete(s) ==
    LET q == IF state[s] = "TICKING" THEN Unlinked(s) ELSE sortLink IN
    IF s \in ToSet(free) \/ \E c \in Cpus : s \in ToSet(q[c]) THEN Undefined
    ELSE /\ sortLink' = q
         /\ state' = [state EXCEPT ![s] = "UNUSED"]
         /\ owner' = [owner EXCEPT ![s] = NULL]
         /\ free' = Append(free, s)
         /\ left' = [left EXCEPT ![s] = 0]
         /\ missed' = missed \ {s}
         /\ UNCHANGED <<mode, interval, life, creating, task, wait, slip, expiring, handlers, fault>>

LOS_SwtmrDelete(s) ==
    /\ state[s] # "UNUSED"
    /\ SwtmrDelete(s)
    /\ UNCHANGED recycled

\* One round of OsSwtmrRecycle at the exit of a process, whose other calls are through.
\* LOS_SwtmrDelete is called with the index for an id, which is the id of a block in its
\* first life only.
OsSwtmrRecycle(p) ==
    LET s == recycled[p] IN
    /\ s < LIMIT
    /\ \A r \in Timers : creating[r] # p
    /\ recycled' = [recycled EXCEPT ![p] = s + 1]
    /\ \/ /\ owner[s] = p /\ life[s] = 0 /\ state[s] # "UNUSED"
          /\ SwtmrDelete(s)
       \/ /\ ~(owner[s] = p /\ life[s] = 0 /\ state[s] # "UNUSED")
          /\ UNCHANGED <<blocks, sortLink, left, task, wait, slip, expiring, handlers, missed, fault>>

-----------------------------------------------------------------------------
\* The timer task looks how long it may sleep (SwtmrTask, OsSortLinkGetNextExpireTime).
\* Without a timer the answer is UINT64_MAX, which wraps when the time of the sleep is
\* added to it: the sleep is over at once.
SwtmrTaskLooks(c) ==
    LET empty == sortLink[c] = <<>>
        n == IF empty THEN 0 ELSE left[Head(sortLink[c])]
    IN
    /\ task[c] = "LOOK"
    /\ task' = [task EXCEPT ![c] = IF n = 0 /\ ~empty THEN "SCAN" ELSE "LOOKED"]
    /\ wait' = [wait EXCEPT ![c] = n]
    /\ missed' = missed \ ToSet(sortLink[c])
    /\ UNCHANGED <<blocks, sortLink, left, slip, expiring, handlers, recycled, fault>>

\* It goes to sleep under another lock, from the time of the sleep on ...
SwtmrTaskSleeps(c) ==
    /\ task[c] = "LOOKED"
    /\ task' = [task EXCEPT ![c] = "SLEEP"]
    /\ UNCHANGED <<blocks, sortLink, left, wait, slip, expiring, handlers, missed, recycled, fault>>

\* ... and runs again some time after the end of the sleep.
SwtmrTaskWakes(c) ==
    /\ task[c] = "SLEEP" /\ wait[c] = 0
    /\ task' = [task EXCEPT ![c] = "SCAN"]
    /\ slip' = [slip EXCEPT ![c] = 0]
    /\ UNCHANGED <<blocks, sortLink, left, wait, expiring, handlers, missed, recycled, fault>>

Minus1(n) == IF n = 0 THEN 0 ELSE n - 1

\* A tick.  Time also passes while a timer task has looked and does not sleep yet; MaxSlip
\* bounds how much.
Tick ==
    /\ \A c \in Cpus : task[c] = "LOOKED" => slip[c] < MaxSlip
    /\ left' = [s \in Timers |-> IF Linked(s) THEN Minus1(left[s]) ELSE left[s]]
    /\ wait' = [c \in Cpus |-> IF task[c] = "SLEEP" THEN Minus1(wait[c]) ELSE wait[c]]
    /\ slip' = [c \in Cpus |-> IF task[c] = "LOOKED" THEN slip[c] + 1 ELSE slip[c]]
    /\ UNCHANGED <<blocks, sortLink, task, expiring, handlers, missed, recycled, fault>>

\* ScanSwtmrTimeList takes a due timer out of the list, or is through.
ScanSwtmrTimeList(c) ==
    LET due == sortLink[c] # <<>> /\ left[Head(sortLink[c])] = 0 IN
    /\ task[c] = "SCAN" /\ expiring[c] = NULL
    /\ expiring' = [expiring EXCEPT ![c] = IF due THEN Head(sortLink[c]) ELSE NULL]
    /\ sortLink' = IF due THEN [sortLink EXCEPT ![c] = Tail(@)] ELSE sortLink
    /\ task' = IF due THEN task ELSE [task EXCEPT ![c] = "RUN"]
    /\ missed' = IF due THEN missed \ {Head(sortLink[c])} ELSE missed
    /\ UNCHANGED <<blocks, left, wait, slip, handlers, recycled, fault>>

\* LOS_MemboxAlloc from g_swtmrHandlerPool, which has LIMIT items for all CPUs
PoolEmpty == FoldFunction(+, 0, handlers) >= LIMIT

Queued(c) == /\ handlers' = [handlers EXCEPT ![c] = @ + 1]
             /\ expiring' = [expiring EXCEPT ![c] = NULL]
             /\ UNCHANGED <<creating, mode, interval, recycled, task, wait, slip, missed, fault>>

\* SwtmrWake queues the handler.  A one-shot timer is deleted and gets a new id, ...
SwtmrWakeOnce(c) ==
    LET s == expiring[c] IN
    /\ s # NULL /\ mode[s] = "ONCE"
    /\ IF PoolEmpty \/ s \in ToSet(free) \/ Linked(s) THEN Fault
       ELSE /\ Queued(c)
            /\ free' = Append(free, s)
            /\ state' = [state EXCEPT ![s] = "UNUSED"]
            /\ owner' = [owner EXCEPT ![s] = NULL]
            /\ life' = [life EXCEPT ![s] = (@ + 1) % Lives]
            /\ UNCHANGED <<sortLink, left>>

\* ... one that does not delete itself has only run down, ...
SwtmrWakeNoSelfDelete(c) ==
    LET s == expiring[c] IN
    /\ s # NULL /\ mode[s] = "NO_SELFDELETE"
    /\ IF PoolEmpty THEN Fault
       ELSE /\ Queued(c)
            /\ state' = [state EXCEPT ![s] = "CREATED"]
            /\ UNCHANGED <<free, owner, life, sortLink, left>>

\* Mutant: the next period is not started.
SwtmrWakePeriodOnce(c, n) ==
    LET s == expiring[c] IN
    /\ s # NULL /\ mode[s] = "PERIOD" /\ n \in 0..interval[s]
    /\ IF PoolEmpty THEN Fault
       ELSE /\ Queued(c)
            /\ UNCHANGED <<state, free, owner, life, sortLink, left>>

\* ... and a periodic one is started again, with what is left of the current period.
SwtmrWakePeriod(c, n) ==
    LET s == expiring[c] IN
    /\ s # NULL /\ mode[s] = "PERIOD" /\ n \in 0..interval[s]
    /\ IF PoolEmpty \/ s \in ToSet(free) \/ Linked(s) THEN Fault
       ELSE /\ Queued(c)
            /\ state' = [state EXCEPT ![s] = "TICKING"]
            /\ sortLink' = [sortLink EXCEPT ![c] = AddNode2SortLink(@, s, n)]
            /\ left' = [left EXCEPT ![s] = n]
            /\ UNCHANGED <<free, owner, life>>

\* A handler runs, or all of them are through.
SwtmrHandler(c) ==
    /\ task[c] = "RUN"
    /\ handlers' = [handlers EXCEPT ![c] = Minus1(@)]
    /\ task' = IF handlers[c] = 0 THEN [task EXCEPT ![c] = "LOOK"] ELSE task
    /\ UNCHANGED <<blocks, sortLink, left, wait, slip, expiring, missed, recycled, fault>>

Next ==
    /\ ~fault
    /\ \/ \E p \in Procs : SwtmrCreateTakes(p)
       \/ \E s \in Timers :
            \/ \E setting \in Settings[s] : SwtmrCreateFills(s, setting[1], setting[2])
            \/ LOS_SwtmrStart(s) \/ LOS_SwtmrStop(s) \/ LOS_SwtmrDelete(s)
       \/ \E p \in Procs : OsSwtmrRecycle(p)
       \/ Tick
       \/ \E c \in Cpus :
            \/ SwtmrTaskLooks(c) \/ SwtmrTaskSleeps(c) \/ SwtmrTaskWakes(c) \/ ScanSwtmrTimeList(c) \/ SwtmrHandler(c)
            \/ SwtmrWakeOnce(c) \/ SwtmrWakeNoSelfDelete(c)
            \/ \E n \in 0..Max(Intervals) : SwtmrWakePeriod(c, n)

Spec == Init /\ [][Next]_vars

-----------------------------------------------------------------------------
Expiring(s) == \E c \in Cpus : expiring[c] = s

\* Until a call has met a timer in the middle of its expiry with the effect of `fault`, a
\* block is in one list at most, once; an unused block can be had or is being created, and
\* a timer that ticks is on its way to its handler (SwtmrWake, LOS_SwtmrStart and
\* LOS_SwtmrDelete share the node of the block).
BlockAccounted ==
    ~fault =>
        /\ IsInjective(free)
        /\ \A c \in Cpus : IsInjective(sortLink[c])
        /\ \A s \in Timers :
            /\ \A c, d \in Cpus : s \in ToSet(sortLink[c]) /\ s \in ToSet(sortLink[d]) => c = d
            /\ ~(s \in ToSet(free) /\ Linked(s))
            /\ state[s] = "UNUSED" => s \in ToSet(free) \/ creating[s] # NULL
            /\ state[s] = "TICKING" => Linked(s) \/ Expiring(s)

\* A timer task oversleeps the first timer of its CPU by no more than the time between its
\* look and its sleep, which it adds to every sleep, if no timer was started in between:
\* starting a timer wakes it earlier (SwtmrAdjustCheck), also when the timer it sleeps for is
\* gone, and the head of the list is the first one due (AddNode2SortLink).
NoOversleep ==
    \A c \in Cpus : \A s \in ToSet(sortLink[c]) :
        task[c] = "SLEEP" /\ s \notin missed => wait[c] <= left[s] + slip[c]

\* OsSwtmrRecycle "deletes all software timers that belong to the process".
NoTimerOfDeadProcess == \A s \in Timers : owner[s] # NULL => recycled[owner[s]] < LIMIT
=============================================================================

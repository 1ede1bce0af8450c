-------------------------------- MODULE LosCond --------------------------------
(***************************************************************************)
(* POSIX condition variables (compat/posix/src/pthread_cond.c), on top of  *)
(* the events of LosEvent.                                                 *)
(*                                                                         *)
(* A wait counts itself in, gives the user's mutex back and reads the      *)
(* event of the condition variable, unless the value of the variable has   *)
(* changed since the wait began.  A signal or broadcast counts the waits   *)
(* out, changes the value and writes the event; nothing is done when the   *)
(* count is 0.  None of these steps is in one critical section with        *)
(* another.                                                                *)
(*                                                                         *)
(* cond->mutex protects single updates of the count and is not modelled.   *)
(* The value is only compared for a change: `stale` stands for it, as long *)
(* as it does not change 2^30 times during one wait.                       *)
(***************************************************************************)
EXTENDS LosEvent

CONSTANTS BROADCAST_EVENT,  \* the flag of signals and broadcasts, 0x01
          COUNT_MAX         \* bound on cond->count

ASSUME CondAssumption ==
    /\ BROADCAST_EVENT \in Flags /\ COUNT_MAX \in Nat
    /\ IsFiniteSet(Tasks)

VARIABLES inUse,     \* the control block that the clients use: no operation touches two
          count,     \* cond->count
          stale,     \* stale[c]: the tasks whose oldValue is no longer cond->value
          mutex,     \* the owner of the mutex that c is used with, or NULL
          step,      \* where a task is in a pthread_cond_* call
          cond,      \* the condition variable of that call, or NULL
          told,      \* ghost: the waits a broadcast has found
          subbed     \* ghost: has a wait that timed out counted itself out?

condVars == <<count, stale, mutex, step, cond, told, subbed>>
allVars == <<vars, condVars, inUse>>

WaitSteps == {"READ", "COUNTED", "UNLOCKED", "ASLEEP", "RELOCK", "RELOCK_TIMEDOUT", "SUB"}
PostSteps == {"SIGNAL_MODIFY", "SIGNAL_WRITE", "BROADCAST_MODIFY", "BROADCAST_WRITE"}

CondTypeOK ==
    /\ TypeOK
    /\ inUse \in Events
    /\ count \in [OnceEvents -> 0..COUNT_MAX]
    /\ stale \in [OnceEvents -> SUBSET Tasks]
    /\ mutex \in [OnceEvents -> Tasks \cup {NULL}]
    /\ step \in [Tasks -> {"NONE"} \cup WaitSteps \cup PostSteps]
    /\ cond \in [Tasks -> OnceEvents \cup {NULL}]
    /\ told \subseteq Tasks /\ subbed \in BOOLEAN

\* pthread_cond_init of every condition variable, before it is used.
CondInit ==
    /\ Init
    /\ inUse \in Events
    /\ count = [c \in OnceEvents |-> 0]
    /\ stale = [c \in OnceEvents |-> {}]
    /\ mutex = [c \in OnceEvents |-> NULL]
    /\ step = [t \in Tasks |-> "NONE"]
    /\ cond = [t \in Tasks |-> NULL]
    /\ told = {} /\ subbed = FALSE

Idle(t) == Running(t) /\ step[t] = "NONE"

\* Task t goes on to step n of its call, or leaves it.
Goto(t, c, n) ==
    /\ step' = [step EXCEPT ![t] = n]
    /\ cond' = [cond EXCEPT ![t] = IF n = "NONE" THEN NULL ELSE c]

At(t, c, n) == step[t] = n /\ cond[t] = c

-----------------------------------------------------------------------------
\* pthread_mutex_lock and pthread_mutex_unlock of the user's mutex, outside a wait
MutexLock(t, c) ==
    /\ Idle(t) /\ mutex[c] = NULL
    /\ mutex' = [mutex EXCEPT ![c] = t]
    /\ UNCHANGED <<vars, count, stale, step, cond, told, subbed>>

MutexUnlock(t, c) ==
    /\ Idle(t) /\ mutex[c] = t
    /\ mutex' = [mutex EXCEPT ![c] = NULL]
    /\ UNCHANGED <<vars, count, stale, step, cond, told, subbed>>

\* pthread_cond_wait and pthread_cond_timedwait: oldValue = cond->value
CondWaitReads(t, c) ==
    /\ Idle(t) /\ mutex[c] = t
    /\ Goto(t, c, "READ")
    /\ stale' = [stale EXCEPT ![c] = @ \ {t}]
    /\ UNCHANGED <<vars, count, mutex, told, subbed>>

CondWaitCounts(t, c) ==
    /\ At(t, c, "READ")
    /\ count[c] < COUNT_MAX
    /\ count' = [count EXCEPT ![c] = @ + 1]
    /\ Goto(t, c, "COUNTED")
    /\ UNCHANGED <<vars, stale, mutex, told, subbed>>

\* A timed wait without time, or with an invalid time, returns and stays counted.
CondWaitNoTime(t, c) ==
    /\ At(t, c, "COUNTED")
    /\ Goto(t, c, "NONE")
    /\ told' = told \ {t}
    /\ UNCHANGED <<vars, count, stale, mutex, subbed>>

CondWaitUnlocks(t, c) ==
    /\ At(t, c, "COUNTED")
    /\ mutex' = [mutex EXCEPT ![c] = NULL]
    /\ Goto(t, c, "UNLOCKED")
    /\ UNCHANGED <<vars, count, stale, told, subbed>>

\* LOS_WAITMODE_OR | LOS_WAITMODE_CLR
CondMode == [all |-> FALSE, clr |-> TRUE]

\* Mutant: the value is not compared again.
PthreadCondWaitSubUnchecked(t, c, timeout) ==
    /\ At(t, c, "UNLOCKED")
    /\ OsEventReadWithCond(t, c, Flags, CondMode, timeout, FALSE, {})
    /\ Goto(t, c, IF taskStatus'[t] = "RUN" THEN "RELOCK" ELSE "ASLEEP")
    /\ UNCHANGED <<count, stale, mutex, told, subbed>>

PthreadCondWaitSub(t, c, timeout) ==
    /\ At(t, c, "UNLOCKED")
    /\ OsEventReadWithCond(t, c, Flags, CondMode, timeout, t \in stale[c], Flags \ {BROADCAST_EVENT})
    /\ Goto(t, c, IF taskStatus'[t] = "RUN" THEN "RELOCK" ELSE "ASLEEP")
    /\ UNCHANGED <<count, stale, mutex, told, subbed>>

\* The read returns to pthread_cond_wait.
CondReadReturns(t, c) ==
    /\ At(t, c, "ASLEEP")
    /\ ReaderStep(t)
    /\ Goto(t, c, IF taskStatus[t] = "TIMEOUT" THEN "RELOCK_TIMEDOUT" ELSE "RELOCK")
    /\ UNCHANGED <<count, stale, mutex, told, subbed>>

\* The user's mutex is taken again; after a timeout the wait has to count itself out.
CondWaitRelocks(t, c) ==
    /\ At(t, c, "RELOCK") \/ At(t, c, "RELOCK_TIMEDOUT")
    /\ mutex[c] = NULL
    /\ mutex' = [mutex EXCEPT ![c] = t]
    /\ Goto(t, c, IF step[t] = "RELOCK" THEN "NONE" ELSE "SUB")
    /\ told' = told \ {t}
    /\ UNCHANGED <<vars, count, stale, subbed>>

PthreadCountSub(t, c) ==
    /\ At(t, c, "SUB")
    /\ count' = [count EXCEPT ![c] = IF @ > 0 THEN @ - 1 ELSE @]
    /\ Goto(t, c, "NONE")
    /\ subbed' = TRUE
    /\ UNCHANGED <<vars, stale, mutex, told>>

-----------------------------------------------------------------------------
\* The waits that are counted in and have not been ended.
Waiting(t, c) == At(t, c, "COUNTED") \/ At(t, c, "UNLOCKED") \/ (At(t, c, "ASLEEP") /\ IsPending(t))

\* pthread_cond_signal takes one wait out of the count, pthread_cond_broadcast all.
pthread_cond_signal(t, c) ==
    /\ Idle(t)
    /\ count[c] > 0
    /\ count' = [count EXCEPT ![c] = @ - 1]
    /\ Goto(t, c, "SIGNAL_MODIFY")
    /\ UNCHANGED <<vars, stale, mutex, told, subbed>>

pthread_cond_broadcast(t, c) ==
    /\ Idle(t)
    /\ count[c] > 0
    /\ count' = [count EXCEPT ![c] = 0]
    /\ Goto(t, c, "BROADCAST_MODIFY")
    /\ told' = told \cup {w \in Tasks : Waiting(w, c)}
    /\ UNCHANGED <<vars, stale, mutex, subbed>>

PthreadCondValueModify(t, c) ==
    /\ At(t, c, "SIGNAL_MODIFY") \/ At(t, c, "BROADCAST_MODIFY")
    /\ stale' = [stale EXCEPT ![c] = Tasks]
    /\ Goto(t, c, IF step[t] = "SIGNAL_MODIFY" THEN "SIGNAL_WRITE" ELSE "BROADCAST_WRITE")
    /\ UNCHANGED <<vars, count, mutex, told, subbed>>

\* Mutant: a signal wakes nobody who sleeps already.
SignalWritesNothing(t, c) ==
    /\ At(t, c, "SIGNAL_WRITE")
    /\ Goto(t, c, "NONE")
    /\ UNCHANGED <<vars, count, stale, mutex, told, subbed>>

SignalWrites(t, c) ==
    /\ At(t, c, "SIGNAL_WRITE")
    /\ OsEventWriteOnce(c, {BROADCAST_EVENT})
    /\ Goto(t, c, "NONE")
    /\ UNCHANGED <<count, stale, mutex, told, subbed>>

BroadcastWrites(t, c) ==
    /\ At(t, c, "BROADCAST_WRITE")
    /\ LOS_EventWrite(c, {BROADCAST_EVENT})
    /\ Goto(t, c, "NONE")
    /\ UNCHANGED <<count, stale, mutex, told, subbed>>

\* A task is deleted: OsTaskReleaseHoldLock gives its mutexes back, and its call stays
\* where it is for ever, a wait in the count and a signal or broadcast unfinished.
CondTaskDelete(t) ==
    /\ LOS_TaskDelete(t)
    /\ mutex' = [c \in OnceEvents |-> IF mutex[c] = t THEN NULL ELSE mutex[c]]
    /\ UNCHANGED <<count, stale, step, cond, told, subbed>>

CondStep(t, c) ==
    \/ MutexLock(t, c) \/ MutexUnlock(t, c)
    \/ CondWaitReads(t, c) \/ CondWaitCounts(t, c) \/ CondWaitNoTime(t, c) \/ CondWaitUnlocks(t, c)
    \/ \E timeout \in {"TICKS", "FOREVER"} : PthreadCondWaitSub(t, c, timeout)
    \/ CondReadReturns(t, c) \/ CondWaitRelocks(t, c) \/ PthreadCountSub(t, c)
    \/ pthread_cond_signal(t, c) \/ pthread_cond_broadcast(t, c)
    \/ PthreadCondValueModify(t, c) \/ SignalWrites(t, c) \/ BroadcastWrites(t, c)

CondNext ==
    /\ \/ inUse \in OnceEvents /\ \E t \in Tasks : taskStatus[t] # "UNUSED" /\ CondStep(t, inUse)
       \/ /\ inUse \notin OnceEvents
          /\ EventStep(inUse, Tasks) \/ \E t \in Tasks : ReaderStep(t)
          /\ UNCHANGED condVars
       \/ \E t \in Tasks : EventTimeout(t) /\ UNCHANGED condVars
       \/ \E t \in Tasks : CondTaskDelete(t)
    /\ UNCHANGED inUse

CondSpec == CondInit /\ [][CondNext]_allVars

-----------------------------------------------------------------------------
Sleepers(c) == {t \in Tasks : At(t, c, "ASLEEP") /\ IsPending(t)}
Posting(c) == \E t \in Tasks : cond[t] = c /\ step[t] \in PostSteps

CountCoversSleepers(c) == ~Posting(c) => Cardinality(Sleepers(c)) <= count[c]

\* While somebody sleeps and no signal or broadcast is under way, the count is not below the
\* number of sleepers, so the next call is not taken for one that nobody waits for.  This
\* is so until a wait that timed out counts itself out, perhaps for the second time.  (The
\* call of a poster deleted before its write is under way for ever.)
NoSignalLost == ~subbed => \A c \in OnceEvents : CountCoversSleepers(c)

\* pthread_cond_broadcast "wakes all threads that wait": once a broadcast that found waits in
\* the count has written, none of the waits that had counted themselves in sleeps, neither
\* one that slept before nor one that was between its count and its read.
BroadcastReachesAll == \A c \in OnceEvents : ~Posting(c) => told \cap Sleepers(c) = {}

=============================================================================

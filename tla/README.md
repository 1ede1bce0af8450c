# LiteOS-A base kernel: TLA+ specifications and proofs

This project models the concurrent core of the LiteOS-A kernel: the
highest-priority-first scheduler with the task operations on top of it, the kernel
objects tasks wait for (semaphores, mutexes, message queues, read-write locks,
events, futexes, condition variables), and three services built on them: software
timers, processes, and the messages of LiteIPC.  TLC checks the models on small
instances; TLAPS proves the most important invariants for every size.

Paths below are relative to the root of the repository; line numbers refer to the
commit under `src/`.  `PROJECT.json` maps each definition to the lines it models.

Contents

1. The system: components, state, interaction
2. What is hard
3. How the code is modelled
4. The modules
5. The runs
6. Disagreements between code and descriptions
7. The proofs
8. Not modelled
9. Plan

## 1. The system

### Components

| Component | State | Operations | What makes it correct |
|---|---|---|---|
| Scheduler (`base/sched/los_priority.c`, `los_sched.c`, `include/los_sched_pri.h`) | one run queue for all CPUs: ready lists by process and task priority, a bitmap for each level, the number of tasks in each list; the current task of each CPU; a timeout queue per CPU | enqueue, dequeue, pick, switch, wait, wake, delay, suspend, resume, freeze, inherit and restore a priority, scan timeouts | a ready task is in one list, once, and can be found; it does not run twice; the highest priority runs; a bounded wait ends |
| Tasks (`base/core/los_task.c`) | control blocks with a set of status flags, priority, held mutexes | create, start, yield, delay, suspend, resume, set priority, delete, exit | flags, lists and timeout queue tell one story |
| Semaphores (`base/ipc/los_sem.c`) | pool of control blocks, count and maximum, wait list, handle with a use count | create, delete, pend, post | a post reaches one pend; nobody sleeps beside a token; no block is recycled under a waiter |
| Mutexes (`base/ipc/los_mux.c`) | owner, count, wait list; per task the held mutexes and a bitmap of priorities to go back to | init, destroy, lock, trylock, unlock | owner, count and hold list agree; waiters are not stranded; priorities are inherited and given back |
| Message queues (`base/ipc/los_queue.c`) | pool of control blocks, ring buffer, counts of readable and writable nodes, two wait lists | create, delete, read, write at either end | bounded double-ended queue; nodes are conserved across the hand-over to a woken task |
| Read-write locks (`base/ipc/los_rwlock.c`) | signed count, writer, two wait lists ordered by priority | init, destroy, read lock, write lock, try, unlock | readers exclude writers; nobody waits for a free lock; writers are not overtaken |
| Events (`base/ipc/los_event.c`) | a set of flags, a wait list; per task the mask and mode it waits with | read, write, clear, poll, destroy, the calls for condition variables | no reader sleeps although its flags are there |
| Condition variables (`compat/posix/src/pthread_cond.c`) | an event, a count of waits, a value that every signal changes | wait, timed wait, signal, broadcast | a broadcast reaches every wait that came before it; a signal is not taken for one that nobody waits for |
| Futexes (`base/ipc/los_futex.c`) | hash buckets with a lock each; per key a ring of nodes sorted by priority, the first one linked in the bucket | wait, wake, requeue; timeout, SIGKILL and deletion of a waiter | no wake up is lost between the comparison of the word and the sleep; a sleeper stays where a wake looks for it; a node leaves with its task |
| Software timers (`base/core/los_swtmr.c`) | pool of timer blocks, a time list and a queue of due handlers per CPU, one timer task per CPU | create, start, stop, delete; scan, expire, run handlers; recycle at process exit | a block is in one list; a timer that ticks reaches its handler; the timer task does not sleep past it; timers end with their process |
| Processes (`base/core/los_process.c`) | table of control blocks, families (children, exited children), groups named by the block of their leader, free list and recycle list, waiting threads by what they wait for | fork, exit, wait, setpgid, recycling by the resource task | a block is reused only when nobody knows it any more; families and groups agree from both ends; no wait is forgotten |
| LiteIPC (`extended/liteipc/hm_liteipc.c`) | a memory pool per process, a mailbox per task, access rights of processes to services | open, send, receive, send and receive, reply, free a buffer, grant access; exit with death notices | every node is in one place; no reader sleeps beside a message; rights end with the process |
| Signals, virtual memory, heap, file systems, drivers, ... | see `PROJECT.json`, "components" | | section 8 |

### Interaction

The scheduler and the objects tasks wait for share one spin lock, `g_taskSpin` (`SCHEDULER_LOCK`).  A blocking
call checks its object under the lock, links the task in the wait list of the
object and calls `ops->wait()` (`HPFWait`).  That marks the task pending, gives the
CPU to another task, and returns when the task runs again, with the lock held.
The operation that satisfies the wait unlinks the task and calls `ops->wake()`
(`HPFWake`).  The tick interrupt scans the timeout queue and ends bounded waits
(`SchedTimeoutTaskWake`): it, too, unlinks the task, without the object knowing.
Deleting a task unlinks it from wherever it is (`HPFExit`) and releases its mutexes.
Mutexes call back into the scheduler to change the priority of their owner.

The services use these parts and have locks of their own, which they drop in the
middle of an operation.  A futex is guarded by the mutex of its bucket, and
`g_taskSpin` is taken inside it to wake tasks; the tick and SIGKILL end a futex wait
without the bucket lock.  A condition variable adds to its event a count and a value,
each updated on its own.  A timer task sleeps with `ops->delay()` and is woken by the
start of an earlier timer; the time list has a spin lock, the blocks have another.  A
process takes its state changes under `g_taskSpin`; a waiting parent sleeps in a list of
the process, and the resource task is told by an event that there is something to
recycle.  LiteIPC inserts into a mailbox and decides to sleep under `g_taskSpin`, and
does everything else without it.  The exit of a process recycles its timers, its pool
and its rights; the deletion of a task releases its mutexes and its futex node.

The important consequence: between the wake up (or timeout) of a task and the moment
it runs again, any other task and any interrupt may operate on the same object.
What a wake up promised has to survive that window.

## 2. What is hard

The hazards, each at its line and with the properties that would notice, are in
`PROJECT.json`.  In short:

* **the window after a wake up**: a task that owns a token, a message or a mutex it
  has not seen yet, while the object is used, deleted, recycled, or the task is deleted;
* **a timeout racing a wake up, an unlock or a deletion**;
* **unlocked halves**: `OsSemCreate` and `LOS_SwtmrCreate` fill in a control block after
  they have dropped the lock; the timeout scan and the timer task take a node under the
  lock of its list and ask for the lock of its owner afterwards; a requeue to another
  bucket holds a chain of nodes under no lock; the recycling of processes drops the lock
  between choosing a block and disposing of it; a LiteIPC write checks its receiver long
  before it uses the receiver's mailbox;
* **dead nodes**: the tick wakes a futex waiter and leaves its node in the ring, for the
  next insertion, wake or requeue to step over;
* **reuse**: blocks of semaphores, queues, timers, processes and tasks get new owners
  while somebody still knows the old one;
* **flags kept in several places**: status flags, ready lists, bitmaps, counts, the
  `responseTime` that tells whether a timeout node is linked;
* **priority inheritance** over several mutexes, waiters and timeouts with one bitmap;
* **limits**: counts compared for equality, an 8-bit signed lock count, ring indices.

## 3. How the code is modelled

* A section under `g_taskSpin` is one atomic step.  A blocking call is two actions, up
  to `ops->wait()` and from its return, because the lock is handed on in between.  Where
  the code works without a lock, or under two in turn, the steps are split as in the
  code.
* A call that fails without changing state is a stuttering step and is not written down.
  So are the argument checks for NULL pointers and for calls in interrupts.
* Operations the code allows in interrupts (posting a semaphore, writing an event,
  waking a task) do not require a running task.  The tick may come at any time.
* Which ready task runs is left open in the modules of the kernel objects
  (`LosTaskPend`): what they show holds for every number of CPUs and every order in which
  ready tasks get one.  Which task runs is the subject of `LosSched`.  The policy of a task
  (`LOS_SCHED_RR` or `LOS_SCHED_FIFO`) matters where priorities are compared:
  `OsSchedParamCompare` takes tasks of different policies for equal, and `LosMux`,
  `LosRwlock` and `LosFutex` have that test.
* Time is not a number, except in `LosSwtmr`, where it is the number of ticks that
  remain.  Elsewhere a bounded wait may time out at any moment, a time slice may be used
  up at any moment.
* A doubly linked list of nodes embedded in control blocks is a sequence of the owners
  of the nodes.  A bitmap is a set of numbers.  Message contents, flags and handles are
  model values or small sets.  The length of messages is left out.
* Handles carry the number of times their control block has been deleted, as
  `SET_SEM_ID` and `SET_QUEUE_ID` do; the code wraps at 2^16, the models stop there
  (`MaxGen`).
* A step the C code cannot survive (an access through a NULL owner, a list node that is
  unlinked or linked twice, the use of freed memory, a failed `LOS_ASSERT`) sets `fault`,
  after which the model stops.  Section 6 says where the models reach it.
* History variables (`disciplined` in `LosMux`, `abandoned` in `LosQueue` and
  `LosProcess`, `posted`, `stranded`, `skipped` and `ordered` in `LosFutex`, `told` and
  `subbed` in `LosCond`, `missed` and `slip` in `LosSwtmr`, `lost` and `late` in
  `LosLiteIpc`) remember what a property speaks about.  No guard reads them, except where
  a bound is put on one (`MaxSlip`).
* Client discipline (who may unlock, how many mutexes a task holds, whether tasks are
  deleted) is a named constant, so that each run says what its properties rely on.
  Uses of the operations are otherwise unrestricted.

Beside most actions stand variants marked "Mutant": the same step with a plausible
bug.  No specification uses them.  Each property has one under which TLC must find
it violated, which shows that the property depends on the code in question;
`PROJECT.json` lists the pairs.

## 4. The modules

| Module | Role |
|---|---|
| `LosList` | the lists of `los_list.h` as sequences |
| `LosSchedParam` | the comparison of two tasks by policy and priority (`OsSchedParamCompare`, `HPFParamCompare`) and the place of a waiter in a list ordered by it |
| `LosTaskPend` | the states of a blocking call, shared by the kernel objects |
| `LosSem`, `AbsSem` | semaphores, and the counting semaphore they implement |
| `LosMux` | mutexes |
| `LosQueue`, `AbsQueue` | message queues, and the bounded double-ended queue they implement |
| `LosRwlock` | read-write locks |
| `LosEvent` | events |
| `LosCond` | POSIX condition variables, composed with `LosEvent` |
| `LosFutex` | futexes |
| `LosSwtmr` | software timers and the timer tasks |
| `LosProcess` | processes |
| `LosLiteIpc` | LiteIPC |
| `LosSched` | scheduler and task operations, with one mutex as far as it changes priorities |
| `LosListLemmas` | lemmas about lists and positions, used by all proofs |
| `LosSem_proofs`, `LosQueue_proofs`, `LosRwlock_proofs`, `LosMux_proofs`, `LosCond_proofs`, `LosSched_proofs`, `LosProcess_proofs` | theorems, one module per component |
| `MCSem`, `MCMux`, `MCQueue`, `MCRwlock`, `MCCond`, `MCSched`, `MCFutex`, `MCSwtmr`, `MCProcess`, `MCLiteIpc` | instances for TLC |

### LosTaskPend

`taskStatus[t]` is where a task stands in a blocking call: `RUN`; `PENDING` or
`PEND_TIME` (without or with a bound); `WOKEN` or `TIMEOUT` (ready again, but has not
returned from `ops->wait()`); `UNUSED` (deleted).  `WOKEN` and `TIMEOUT` are the window
described in section 1.

### LosSem

Variables are the fields of `LosSemCB` as functions of the control block, the free list
`g_unusedSemList`, the block a task is creating, and the handle of its last pend.
`OsSemCreateTake` and `OsSemCreateInit` are the two halves of `OsSemCreate`;
`LOS_SemPend` and `SemPendReturn` are the two of `LOS_SemPend`.  A post with waiters
hands its token to the first one and leaves the count at 0.  `AbsSem` has one number per
live handle; the refinement mapping counts the stored tokens and those handed to tasks
that have not returned yet.

### LosMux

`LOS_MuxLock` takes a free mutex, takes a recursive one again, or blocks and lets the
owner inherit (`OsMuxBitmapSet`).  `OsMuxUnlockUnsafe` counts down, releases, or hands
over to the first waiter.  `HPFPriorityInheritance` and `HPFPriorityRestore` are
transcribed with their bitmap.  Deleting a task keeps the lock throughout but unlocks
one held mutex after another, so it is a sequence of actions during which nothing else
runs (`deleting`).  `policy` is the policy of each task, any of `TaskPolicies`.
`disciplined` is TRUE as long as all tasks have one policy and one process priority
(`OneClass`) and no task has held two mutexes, timed out or been deleted; that is how far
the promises about priorities go, and section 6 says what happens beyond.

### LosQueue

`OsQueueOperate` runs straight through when there is a node, and otherwise waits; a
woken task continues in `QueueOperateWoken` without checking the handle again.  The
refinement mapping to `AbsQueue` reads the ring from `queueHead`, including the
messages reserved for woken readers.  A task may be deleted in every state; `abandoned`
are the ones that took a reserved node with them.

### LosRwlock

`rwCount` is the signed count of the code.  The code does not know who reads; the ghost
variables `rdHeld` and `wrHeld` do, and no guard looks at them except the client
discipline `OnlyHolders`.  `OsRwlockPostOp` grants the lock to a batch of readers or to
one writer.  `HPFSchedParamModify` gives a task another policy and priority at any time; a
waiter keeps its place in the list.

### LosEvent and LosCond

`OsEventPoll` is split into what it returns and what it leaves.  A woken reader polls a
second time (`EventReadReturn`).  `LosCond` extends `LosEvent`: `step[t]` is where a task
is in a `pthread_cond_*` call.  A wait reads the value, counts itself in, unlocks the
user's mutex, reads the event under the condition that the value has not changed
(`OsEventReadWithCond`), locks the mutex again, and counts itself out if it timed out; a
signal counts one wait out, changes the value and writes the event for one reader
(`OsEventWriteOnce`), a broadcast does so for all.  The value is only compared for a
change, so `stale[c]` is the set of tasks whose copy is old.  Any task may be deleted at
any step (`LOS_TaskDelete`, `CondTaskDelete`): its mutexes are released, and its call stays
where it was for ever.  `inUse` chooses at the start
whether the clients use an ordinary event or a condition variable, since no operation
touches both.

### LosFutex

`ring[k]` is the ring of key `k`; its head is the node linked in the bucket.
A wait is three sections of `SCHEDULER_LOCK` under one bucket lock: `OsFutexWaitTask`
compares the word and, in a ring with waiters, recycles dead nodes (then the task is at
`INSERT`); `OsFindAndInsertToHash` links the node (`LINKED`); `FutexSleep` calls
`ops->wait`.  Between them the tick may still kill a node of the ring, so that `firstNode`
may be dead by the time it is used, and a task that holds another bucket's lock may take
the linked node for a dead one.  `OsFutexRequeue` wakes, cuts the ring and, when the bucket
changes, keeps the part it moves in `moving` until the new bucket is locked.
`OsPendingTaskWake` is SIGKILL and `OsTaskReleaseHoldLock` the deletion of a task.  Both
read the bucket of the node first; if its lock is taken they wait (`Block`, `deleting`),
and `OsFutexNodeDeleteFromFutexHash` goes on when the lock is free, without the deletion if
the node has moved meanwhile.  `HPFSchedParamModify` changes policy and priority of a task,
asleep or not.  `word[k]` is whether the word has changed since a waiter last read it; `Store` takes no
lock.

### LosSwtmr

`SwtmrCreateTakes` and `SwtmrCreateFills` are the halves of `LOS_SwtmrCreate`.  The timer
task of CPU `c` looks (`SwtmrTaskLooks`), sleeps (`SwtmrTaskSleeps`), wakes
(`SwtmrTaskWakes`), scans (`ScanSwtmrTimeList`, which leaves the due timer in
`expiring[c]`), deals with it by mode (`SwtmrWake*`) and runs handlers.  Ticks come between
any two of these; `slip[c]` is how many came between a look and its sleep, and the sleep is
longer by that much, since it counts from its own beginning.  With an empty list the
timeout is `UINT64_MAX`, which wraps when the start time is added
(`los_priority.c:411`): the task sleeps for no time and looks again.  `SwtmrAdjustCheck` is
the condition under which starting a timer shortens a sleep.  `OsSwtmrRecycle` deals with
one block per step.  `life[s]` counts how often the id of a block was renewed.

### LosProcess

`table` is what `g_taskSpin` protects, so that operators of the code that call each other
(`ExitProcessGroup`, `OsRecycleZombiesProcess`, `OsDealAliveChildProcess`) are functions
from tables to tables.  A fork is two actions (`OsCopyParent`, after which the child can be
seen, and `OsChildSetProcessGroupAndSched`), with a failure before and after the first; an
exit is `OsProcessThreadGroupDestroy` and `OsProcessNaturalExit`; a wait takes
an exited child, or sleeps (`OsWaitSleeps`, ordered by `OsWaitInsertWaitListInOrder`) and
returns (`OsWaitReturns`).  `RecycleTakes` and `RecyclePuts` are
`OsProcessCBRecycleToFree` before and after its unlocked part.  A fork may fail at either
place at any time; one with `CLONE_PARENT` from the group of init always does.  `abandoned`
are the threads that slept for a child which such a failure took back.  `CanUndo` names the
failure of `setpgid` that the code does not undo (section 6); with `Unlucky = FALSE` memory
does not run out there.

### LosLiteIpc

`call[t].at` is where a task is in its system call: creating the receiver's mailbox,
inserting, creating its own, looking, sleeping.  `replaced[t]` is the mailbox a call still
uses when another one has taken its place.  The exit of a task drains its mailbox, passes
once over all processes and sends a death notice to each with a right to it (`PassesOver`,
`SendDeathMsg`), frees the mailbox and, for the last thread, revokes the rights of the
process and deletes its pool, each step on its own.  A right is given in three unlocked
steps (`AddServiceAccess`, `GrantMap`, `GrantAccess`); `late` are the rights for which they
overlapped the tear-down of the process.

### LosSched

`taskStatus[t]` is the set of `OS_TASK_STATUS_*` flags.  `g_schedHPF` is the run queue
with its bitmaps, lists and counts (`readyTasks` modulo `UINT32_SIZE`).  An operation
that gives up the CPU ends in `OsSchedResched`, which picks, dequeues and switches and
puts the task that stops in a timeout queue if it has to.  `SchedTimeoutQueueScan` and
`SchedTimeoutTaskWake` are the two halves of the scan; `scanning[c]` is the node between
them.  `LOS_Schedule`, with which several operations end after they have dropped the
lock, is an action of its own, as is what a task does that another CPU asked to suspend
or to kill itself.  One mutex is included because it changes priorities behind the run
queue's back; which saved priority a task goes back to is left open here and is the
subject of `LosMux`.

## 5. The runs

All runs set `CHECK_DEADLOCK FALSE`: a system in which every task waits for ever, or has
been deleted, or in which a bound has been reached, may stop.

| Run | Instance | States | Shows |
|---|---|---|---|
| `sem` | 2 tasks, 2 control blocks, counts up to 2, each block deleted once | 38,308 | no lost wake up, no block recycled under a waiter or lost by the unlocked half of a create, refinement of `AbsSem`, posts reach every waiter |
| `mux` | 3 tasks of different priority, of one policy or of two, 2 mutexes of two kinds, timed waits, deletion | 2,496,295 | owner, count and hold lists agree; no stranded waiter; the original priority is never lost; in disciplined use priorities are inherited and restored and the highest waiter is first |
| `queue` | 3 tasks, 1 control block deleted once, 1 or 2 nodes, 2 messages, deletion of tasks in every state | 266,430 | nodes conserved, no lost wake up but for the node of a deleted task, refinement of `AbsQueue` |
| `rwlock` | 3 tasks, 1 lock, counts up to 2, changes of policy and priority, deletion | 616,000 | exclusion, counts, a free lock is idle, no reader overtakes a writer |
| `cond` | 3 tasks, an event with 2 flags and every mask and mode, or a condition variable with up to 4 waits counted, deletion at every step | 554,429 | no satisfied reader sleeps; a broadcast reaches all; the count covers the sleepers until a wait times out |
| `sched` | 2 tasks, 2 CPUs, 2 priorities, PM mode on and off, 1 inherited priority | 551,475 | no ready task is lost, queued twice or run twice; the highest priority is picked; timeouts are not forgotten; results of waits are right |
| `futex` | 3 tasks of different priority, one of which may change policy and priority, 2 keys in 2 buckets, wakes of 1 and of all, requeue, timeouts, SIGKILL, deletion | 3,444,210 | no lost wake up and every sleeper linked once, but for those unlinked before they slept; rings sorted; no node left behind but by a skipped deletion |
| `swtmr` | 2 timers of all modes, 2 CPUs, intervals 1 and 2, 1 tick between look and sleep | 3,690,875 | blocks in one list, ticking timers on their way; no oversleeping beyond the time between look and sleep |
| `process` | init and 2 more processes, 5 threads, forks with failures at any time and `CLONE_PARENT` | 1,251,616 | blocks accounted for; families and groups intact; no forgotten waiter but for the child of a failed fork |
| `liteipc` | a client, a service process with 2 tasks, 3 messages, 2 exits with restarts, 1 right given | 4,109,399 | no sleeper beside a message; nodes conserved; rights revoked unless given during the tear-down |

`mux_null_owner` and `swtmr_orphan` are expected to be violated; see section 6.

### Why the bounds are enough

* Two or three tasks are enough to have, on one object, somebody who waits, somebody who
  has been woken or timed out and has not run, and somebody who operates in between.
* Two semaphores let creates overlap on the free list and let a task wait for one object
  after another.  Mutexes need two for nested inheritance; the third kind, `ERRORCHECK`,
  differs from `NORMAL` only in that a second lock by the owner fails.
* One deletion per block gives an old and a new handle for one block.
* Counts up to 2 reach empty, in between and full; a ring of two nodes wraps in both
  directions; `CountMax = 2` reaches both ends of the signed count.
* Two flags distinguish AND from OR, and a subset from the whole mask.  `COUNT_MAX = 4` is
  above the number of tasks: the count of a condition variable gets ahead of its sleepers
  by waits that return and stay counted.
* Two CPUs give the window of the timeout scan.  One process priority suffices for TLC,
  since both levels of the table are handled alike; the proofs are about any number.
  `UINT32_SIZE = 3` is above the number of tasks, so that only a count below zero wraps.
* Three futex waiters give a ring with a first, a middle and a last node, each of which may
  be dead while another task is inserted; two buckets give the requeue its window.  At most
  one word differs from what the waiters expect (`MaxChanged`), since keys share nothing
  but the requeue.  One task that may become `LOS_SCHED_FIFO` of the highest priority gives
  a ring of mixed policies and one whose order is out of date.
* Two timers on two CPUs give two expiries at once, a restart on the other CPU, and a
  handler pool that runs dry.  Times matter only in their order, for which two intervals
  with ticks at any moment suffice: a timer may be due before the one the task sleeps for.
  `MaxSlip = 1` is a tick between look and sleep.  `Lives = 2` is needed only for
  `swtmr_orphan`.
* Three processes give a grandchild to be reparented to init and a group whose leader has
  gone; init and the second process have two threads, so that two can wait at once.
* Three messages give a request, its reply and a death notice or a late reply; two exits
  give a restarted service or client, and tasks are created anew while another exit is
  left to see.  One right given (`MaxGrants`) can meet every step of both exits.

The invariants marked as proved in section 7 do not depend on these bounds.  TLC's
symmetry sets permute tasks (and CPUs, threads or mutexes) that no constant tells apart;
the run with a liveness property uses none.

### Fairness

No specification assumes any.  The scheduler runs the task of the highest priority for as
long as it likes, so the code does not promise that a ready task runs again, and weak
fairness of a return from a wait would not be justified.  The one liveness property,
`PostsReachEveryWaiter` of `sem`, says what it needs in its premise instead: if
`LOS_SemPost` succeeds on a handle again and again, whoever waits for it leaves its wait.
That speaks of the order in which posts serve the list and not of the scheduler: tasks that
pend again and again cannot keep the posts from one that waits already.

## 6. Disagreements between code and descriptions

Two runs check what a comment says of the code, and TLC finds a behaviour in which the
code does something else.

1. `mux_null_owner` (`los_mux.c:442`): a waiter times out; before it runs, the owner
   unlocks the mutex, which has no waiter any more, and the owner becomes NULL; the
   waiter then restores the priority of a NULL owner.
2. `swtmr_orphan` (`los_swtmr.c:502`): `OsSwtmrRecycle` passes the index of a block where
   `LOS_SwtmrDelete` expects the id of a timer.  The two are the same only until a
   one-shot timer has expired in the block; from then on a timer in it outlives its
   process.

Observations made while modelling.  The properties name these cases as exceptions, or the
models stop at them:

* Mutexes: a waiter that times out may leave the owner at a raised priority
  (`los_priority.c:649`), and several held mutexes confuse what is restored, which is why
  `PriorityRestored` and `InheritsFromWaiters` are claimed for disciplined use.  They also
  need all threads to have one base priority: a waiter of a more urgent process is compared
  by the base priority, but inheritance copies only the priority inside the process, so an
  owner may stay raised after it has handed the mutex to such a waiter.  And they need one
  policy: `OsSchedParamCompare` (`los_sched.c:299`) compares within a policy only.  A
  round-robin owner inherits nothing from a first-in-first-out waiter of higher priority,
  waiters of both policies are not sorted by priority, and an owner raised by one waiter
  stays raised when it hands the mutex to a waiter of the other policy.
* Queues: a reader that is woken for a message and deleted before it runs takes the node
  with it (`los_queue.c:429`); a reader may then wait beside a message, and the queue can
  never be deleted.
* Read-write locks: when a waiting writer times out, nobody wakes the readers it held back
  (`los_rwlock.c:270`), although a lock in read mode is open to any reader.  A task that
  takes a read lock again while a writer of no lower priority waits, waits for itself.
  The lock of a deleted task stays taken.
* Events: a woken reader may find the flags taken or cleared and returns without flags
  (`los_event.c:255`).
* Condition variables: a wait that times out after a broadcast has set the count to 0, or
  after a signal has counted it out, counts itself out a second time (`pthread_cond.c:315`)
  if others have come meanwhile; with one sleeper counted by nobody, `pthread_cond_signal`
  returns without waking it.  A timed wait with the time 0 stays counted.  A poster that is
  deleted between its count and its write takes the wake up with it.
* Scheduler: `SchedTaskFreeze` unlinks a timeout node and keeps its time
  (`los_sched_pri.h:981`), so that waking or deleting the task unlinks the node again.  In
  the window of the timeout scan (`los_sched.c:191`) a task may be woken and begin another
  bounded wait, which the scan then ends too early.  A task whose time comes while it is
  frozen leaves its wait with `LOS_OK` when it is resumed (`los_sched_pri.h:1008`).
  Without `LOSCFG_KERNEL_PM`, `SchedTaskFreeze` always freezes, contrary to the comment
  above it; `PmModes` covers both builds.  A mutex that changes the priority of a task in
  a ready list makes `PriQueDelete` count down the wrong priority (`los_priority.c:641`).
  A task that was created, not started and suspended is enqueued twice when it is started
  and resumed; with `SuspendsInit = TRUE` the invariant `RunQueueExact` fails.
* Futexes: the comparison of priorities during an insertion reads the task of a node that
  the tick may have emptied since the dead nodes were removed; the last node on its way
  between two buckets may be deleted with its task.  Both set `fault`.  A task links its node
  (`los_futex.c:715`) and sleeps (880) in two sections of `SCHEDULER_LOCK`; in between, a
  task that timed out after a requeue, under the lock of another bucket, finds the pendList
  empty and unlinks the node (458-479): the task then sleeps in no ring and no wake finds it
  (`stranded`).  In the same way the head that `OsFindFutexNode` has found may be unlinked
  before it is looked at again (`HeadMayVanish`), which sets `fault`.  A task that is deleted while a requeue moves its node
  to another bucket leaves the node linked, since the deletion is skipped when the bucket
  has changed (437, `skipped`).  A task whose policy or priority is changed keeps its place
  in the ring.
* Software timers: a timer deleted, created or restarted between its removal from the time
  list and `SwtmrWake` (`los_swtmr.c:385`) is linked or freed twice; the handler pool,
  shared by all CPUs, may be empty, which `SwtmrWake` asserts not to happen.  Both set
  `fault`.  A timer started while the timer task is between its look and its sleep is
  noticed too late (`missed`), and the time between look and sleep is slept twice, because
  the sleep counts from a refreshed start time (`los_sched.c:517`).  A timer task with an
  empty list does not sleep: `UINT64_MAX` wraps (`los_priority.c:411`), and it looks again
  at once, for ever.  The id of a block is renewed when a one-shot timer
  expires, and not by `LOS_SwtmrDelete`: an old id may name a new timer.
* Processes: a wait by group takes an exited member of the group that is not a child
  (`OsFindGroupExitProcess`, `los_process.c:356`), while the comments at 1580 and 1602
  speak of children.  A wait by group is not woken when the last child exits in another
  group (`los_process.c:512`).  A parent's waiters are told that there are no children
  left before the children of the exiting process are handed on (726 and 728).  A fork
  that fails late does not wake a thread that waits for the child (2815), which then sleeps
  for a child that is gone (`abandoned`).  This is no matter of memory: with `CLONE_PARENT`
  from the group of init, the child is not a child of the caller and the fork always fails
  (1942, called at 2694).  If `setpgid` has made the unfinished child a leader, the fork
  fails and the group empties later, its block stays on the recycle list for ever.  When
  memory runs out in `setpgid`, a group is restored whose leader may be in the free list
  (1992).  `OsChildProcessResourcesFree` (691-698) does not reset `pgroup` between two
  turns of its loop, so that a group may be given to `LOS_MemFree` a second time; the heap
  is not modelled.  The exit of a single-threaded process does not
  wake the resource task (`los_task.c:1197`).
* LiteIPC: a message may be inserted into the mailbox of a task that exits
  (`hm_liteipc.c:1464`) or into one that is about to be replaced (1453, 1564); a death
  notice may be sent to nobody (844) or be taken for the reply (1526); a request that
  arrives during a synchronous call is dropped (1495).  A right that is being written (740,
  741) while `LiteIpcPoolDelete` takes the rights of the process back (459-468) may stay
  for ever (`late`), and the two writes may go through a mailbox or a pool that is gone,
  which sets `fault`.  A process that gets a right behind the one pass over the processes
  (898-903) is sent no death notice.

## 7. The proofs

The proofs assume what the `ASSUME` of each module says: the sets of tasks that are counted
are finite (and fewer than 2^32 in the scheduler, whose counts are 32 bits wide), counts
have the right sign, `NULL`, `Idle` and `NoSem` are not tasks or blocks.  Nothing else
bounds the constants.  Some theorems need a discipline of the clients, named in their
statement: `OnlyHolders` and `~SuspendsInit`; each is needed, as said below.  The theorems
about processes need `Unlucky = FALSE`: memory does not run out in the one place of `setpgid`
where the code cannot undo what it did.

**`LosListLemmas`**: what appending, taking the head, inserting at a position, unlinking one
element and unlinking a set of elements during a walk do to a duplicate-free sequence and
to the set of its elements, and that `OsSchedLockPendFindPos` returns a position in the
list.  A walk also keeps which elements come first in the list (`WithoutFirst`).  The walk
(`ListWithout`) is a recursive function; that it exists and what it computes
is proved by taking the smallest index where it would not (`NatMin`, from the library's
theorem that `<` on `Nat` is well founded).  Sums over a set of tasks (`HoldersAgree`) are
treated the same way with the cardinality of the set.

**`LosSem_proofs`** proves `TypeOK`, `NoWaiterBesideToken`, `WaiterHandleIsCurrent`,
`PendingOnOneList` and `PoolConserved`.  The inductive invariant is the conjunction of
these with `CountBounded` (the count is not above the maximum).  They need each other:
that a token is stored only without waiters needs the lists to be right; that the
unlocked half of a create, which empties the wait list, strands nobody needs the block
to be in the hands of one task and hence not in use (`PoolConserved`), and every waiter
to have a current handle; that the count keeps its type needs `CountBounded`, because
`LOS_SemPost` compares for equality only.  `Refinement` shows from this invariant that
`LosSem` implements `AbsSem`: each action is matched with the step of the counting semaphore
it is (a post to a waiter and the return of that waiter are its post and its pend), or
with a stutter.

**`LosQueue_proofs`** proves `TypeOK` with the bounds of the ring, `NodesConserved`,
`WokenHandleIsCurrent`, `NobodyWaitsBesideNode` and that `LosQueue` implements `AbsQueue`.
Besides these the invariant says that the free list is exact, that a task is linked in the
list it waits in and no other, that a node promised to a task that was woken belongs to
the queue of its handle, and that nobody waits beside a positive count.  A delete is
refused while a node is promised, because then the counts do not add up to the length;
that is why the tail of `OsQueueOperate` need not look at the handle again.  For the
refinement the ring is read from the head over the counted and the promised messages; a
write at either end and a read from the head are shown to be the operations on that
sequence, with the wrap-around of the indices.

**`LosRwlock_proofs`** proves `TypeOK` (the signed count stays in its width, in spite of
recursive write locks and of batches of readers), `NobodyWaitsOnFreeLock` and
`OwnerIffWriteMode`, for any use of the operations, unlocks by tasks that hold nothing
included.  Their conjunction is inductive: a waiter is linked only to a lock that is not
free, and the count returns to 0 only when both lists are empty.  The action property
`NoReaderOvertakesWriter` follows from the same invariant, action by action.
`MutualExclusion` is `HoldersAgree` where `OnlyHolders` is true; without it a task may
unlock for another and the count says nothing of who holds the lock.  Its invariant adds
that the grants are not negative and that the tasks of a batch are different.

**`LosMux_proofs`** proves `TypeOK`, `OwnerAgrees`, `NoStrandedWaiter` and
`OriginalPriorityKept` for any use of the operations, timeouts and the deletion of holders
and waiters included.  The invariant `IInv` has two halves.  `Struct`: owner and lock list
agree, who waits is linked once and knows its mutex, a mutex with waiters has an owner.
`PrioOK`: all saved priorities are below the current one in urgency and the original one is
among them as long as any is saved; every raise and every restore keeps this.
`PriorityRestored`, `InheritsFromWaiters` and `HighestWaiterFirst` are proved for any
assignment of policies and base priorities, like the properties themselves as long as
`disciplined` is true, from a second invariant `DInv` of the disciplined use: all tasks are
of one policy and one base priority, nobody owns two mutexes, who owns none is at its own priority, an owner is
at its own priority or at one that a waiter lends it, and below no waiter, and the list is
sorted, unless the owner waits for itself in it.
Neither condition can be dropped.  `OsSchedParamCompare` takes tasks of two policies for
equal, so that nothing is inherited or sorted between them; and `HPFParamCompare` looks at the
base priority of the process first, while inheritance copies the priority inside the process
only.  TLC finds a behaviour for each in which an owner keeps an inherited priority after its
unlock.

**`LosSched_proofs`** proves `TypeOK` and `ReadyIsFindable` (every ready list that is not
empty is reached through both bitmaps), for any number of tasks, CPUs and priorities,
suspension of unstarted tasks included, and although a mutex may have changed the
priority of a queued task.  The invariant is their conjunction, cut into the parts that
an action changes: the run queue, the priorities, the timeout queue and the rest.  The
argument is in two lemmas on the run queue: inserting sets both bits whenever it makes
a list non-empty, and deleting clears a bit only when it has looked at the very list,
so that a stale priority can leave a bit set but not clear a needed one.
`TimedWaitHasTimeout`, `OkMeansWoken`, `RunQueueExact` and `TopIsHighest` are proved for
`~SuspendsInit` (section 6 says what happens otherwise), from a second invariant `SInv`:
which status flags go together (`FlagsInv`), a running task is the current task of one CPU
(`CurrInv`), the ready tasks are queued once (`QueueInv`), in the list of their priority
while no mutex has interfered (`ExactInv`), who waits is in the wait list (`PendInv`), what
a call in progress may find (`CallInv`), and the timeout of each bounded wait (`TimeInv`).
The hardest steps are those that end in a switch, which change a task, enqueue it, pick
another one, and put the first one in a timeout queue.

**`LosCond_proofs`** proves `NoSatisfiedWaiter` for any number of events, and under
`CondSpec` the types, `NoSatisfiedWaiter`, `BroadcastReachesAll` and `NoSignalLost`.  For
events the invariant is that lists, states and reads agree (`ListOK`).  A condition variable
adds `UseOK` (whoever sleeps is in a wait for it), `Reached` (a wait that a broadcast has
found and that does not sleep yet will see that the value has changed, or the broadcast is
still before that change; one that sleeps has the write still coming) and `Counted`.  The
last one explains why the three separate steps of a signal are enough: the count plus the
signals that have not changed the value yet covers the waits that may still fall asleep,
and the count plus all signals under way covers those and the sleepers.  A signal moves one
from the count to the signals; its change of the value leaves nobody who may still fall
asleep; its write wakes one sleeper, or there is none and the first half is enough.  A task
that is deleted in the middle of a signal or broadcast leaves its call under way for ever;
`NoSignalLost` and `BroadcastReachesAll` say nothing of its condition variable from then on.

**`LosProcess_proofs`** proves `TypeOK`, `PcbAccounted`, `FamilyIntact`, `GroupsIntact` and
`NoForgottenWaiter` for any number of processes, any distribution of threads to them, with
and without `CLONE_PARENT`, with forks that fail at any time.  They are proved for
`Unlucky = FALSE`: memory may run out in a fork and in `setpgid`, but not in the one place
where `setpgid` cannot undo what it did (`CanUndo`, section 6), after which the properties do
not hold.

The helpers of `los_process.c` are functions from tables to tables, so the proof has two
layers.  The lower one is about one table.  `TableInv(s, X, Y)` says that the two lists are
disjoint and hold a block once (`Lists`), which flags go with which list (`Flagged`), that
parents and children agree (`Family`) and groups and members agree (`Grouped`), except for
the blocks that a helper has left unfinished for its caller: those in `X` have just left
their group, those in `Y` their family.  `ExitProcessGroup`, for example, leads from
`TableInv(s, {}, Y)` to `TableInv(r, {p}, Y)`, and whoever calls it has to bring `X` back to
the empty set.  Two facts of `Flagged` are not part of a property and are needed: a block
on the recycle list is there for a reason (it exits, it is a zombie, or it leads a group
and is unused), and a leader on it is a zombie or unused.  Without the second one
`ExitProcessGroup` might take away the leader flag of a block that only it keeps on the
list.  The loop of `OsChildProcessResourcesFree` is treated like the walk over a list: the
first turn after which the table would not be in order is looked for, and there is none.

The upper layer is about the threads.  For each helper a relation says what the rest of
the system sees of it: after a calm step (`Calm`: a zombie is taken, a group is left or
joined) no living process has lost its parent, its children or its exit, no block in the
hands of the resource task has moved, and the zombies that remain are in the groups they
were in; `ForkEffect`, `ForkOver` and `ExitedEffect` say the same of forks and exits.  `ThreadInv`
is shown to follow from these relations: threads in a call belong to living processes
(`Calls`), an unfinished block belongs to one fork (`Forks`), the wait list holds the
sleepers, those that wait for one process first (`Waits`).  That order is what
`NoForgottenWaiter` rests on: `OsWaitCheckAndWakeParentProcess` stops to look for a thread
that waits for the exited process at the first one that waits for something else, so such
a thread would be missed behind it.  If it finds none, the first thread that accepts the
process is told, and is the one on its way that the property asks for; if the process was
the last child, those that wait for any child are woken too.

`TypeOK` of each module and `PendingOnOneList` are proved and not part of a run.

Only model-checked: the liveness property `PostsReachEveryWaiter`, since liveness and `ENABLED`
are out of reach of the proof system, and the invariants of `LosFutex`, `LosSwtmr` and
`LosLiteIpc`, whose proofs have not been attempted.

## 8. Not modelled

`PROJECT.json` names every part with the reason.  Most of the repository is file systems,
drivers, network adapters, architecture code, the shell and tests: sequential code over
data, hardware access and third-party adapters, in which TLC has little to explore.  In
the modelled parts:

* comparisons of priorities: deadline and idle tasks; the tasks of `LosMux`, `LosRwlock` and
  `LosFutex` belong to the priority scheduler;
* mutexes: `LOS_MuxSetPrioceiling` on a live mutex, the attribute setters, changes of policy
  and priority by `LOS_TaskPriSet` and the like;
* queues: message lengths and the copying of partial messages;
* scheduler: CPU affinity, the CPU limits of `LOSCFG_KERNEL_SCHED_PLIMIT` (tasks over their
  limit are passed over, `los_sched_pri.h:1086`), time slices as numbers, the priority of all threads of a
  process changing at once, join and detach, the order inside a timeout queue, waits
  while preemption is disabled, deadline scheduling;
* semaphores: deletion of a task in the middle of `OsSemCreate`, which would keep the
  block out of the pool; the unlocked writes of its second half (`los_sem.c:151`) are one
  step, since nobody else can reach the block;
* condition variables: destruction, and the initialisation on first use;
* futexes: the value of the word beyond whether it has changed, wake numbers of 0 and less,
  the deletion of a task that holds a bucket lock, and more than one deletion that waits for
  a lock; the turns of the loop of `OsFutexRequeueInsertNewKey` are one step;
* software timers: `OsSwtmrResponseTimeReset` and querying the remaining time;
* processes: exec, PID containers, credentials, the resources freed at exit, signals other
  than what SIGKILL does to a futex wait; taking a block and filling it in before the child
  can be seen (`los_process.c:2767-2790`) is one step, and so is the killing of the threads
  of a process one by one (3035);
* LiteIPC: special objects in messages, registration of the service manager, size checks,
  one-way requests, running out of memory for a mailbox; a write tests its receiver and
  allocates (`hm_liteipc.c:1409` to 1453) in one step, and the exit frees a mailbox and clears
  the pointer to it (924, 925) in one step;
* memory: allocation failures are error returns and change nothing, except where the code
  acts on them (`LosProcess`, `LosLiteIpc`).

## 9. Plan

Built, in this order: semaphores with their proofs; mutexes; queues; read-write locks with
their proofs; events; the scheduler with its proofs; futexes; processes; software timers;
condition variables on top of events; LiteIPC.

Proved since: the refinements of semaphores and queues, and the safety properties of
queues, read-write locks, mutexes, events, condition variables, the scheduler and processes.

Theorems to prove next, most important first: `SleeperIsFindable` and `NoNodeLeftBehind` of
`LosFutex`; `BlockAccounted` of `LosSwtmr`; `NodesConserved` of `LosLiteIpc`.

Models that could follow: signals (masks, delivery, the window between a check for
SIGKILL and a sleep); shared memory and the buddy lists of `los_vm_phys.c`; a composition
of `LosMux` and `LosSched` with several mutexes; deadline scheduling.

------------------------------- MODULE LosFutex -------------------------------
(***************************************************************************)
(* Futexes (kernel/base/ipc/los_futex.c): a task sleeps in the kernel      *)
(* while a word of user memory keeps its value.                            *)
(*                                                                         *)
(* The waiters of one key form a ring, sorted by priority; the node of its *)
(* first task is linked in the list of the key's bucket.  A node is part   *)
(* of the task and stays in the ring until somebody who holds the bucket's *)
(* listLock takes it out.  A wait that is over because of the tick takes   *)
(* only the task out, so a ring may hold dead nodes: nodes without a task  *)
(* in their pendList.  The node of a task that is linked and does not      *)
(* sleep yet looks the same, and who does not hold the lock of its bucket  *)
(* takes it for dead.                                                      *)
(*                                                                         *)
(* Undefined behaviour (the control block of a task that is not there, a   *)
(* node that is unlinked twice) is recorded in `fault`; nothing is said    *)
(* about the system after it.                                              *)
(***************************************************************************)
EXTENDS LosTaskPend, LosSchedParam, FiniteSets

CONSTANTS Keys,         \* user addresses, with the process for private futexes
          Buckets,      \* g_futexHash
          Bucket,       \* OsFutexKeyToIndex
          BasePrio,     \* priority of the task's process
          InitPrio,     \* priority of the task in its process, 0 is the highest
          InitPolicy,   \* its policy
          ParamChanges, \* which tasks may be given another policy and priority
          WakeNumbers,  \* how many tasks one OsFutexWake wakes
          Requeues,     \* from which key to which clients requeue: condition variable, mutex
          WaitTimeouts, \* the timeouts clients wait with
          Stored,       \* bound: the words that user space changes
          NULL

ASSUME FutexAssumption ==
    /\ Bucket \in [Keys -> Buckets]
    /\ BasePrio \in [Tasks -> Nat]
    /\ InitPrio \in [Tasks -> Nat] /\ InitPolicy \in [Tasks -> HPFPolicies]
    /\ ParamChanges \subseteq Tasks \X HPFPolicies \X Nat
    /\ WakeNumbers \subseteq Nat \ {0}
    /\ Requeues \subseteq {kk \in Keys \X Keys : kk[1] # kk[2]}
    /\ WaitTimeouts \subseteq {"TICKS", "FOREVER"}
    /\ Stored \subseteq Keys
    /\ NULL \notin Tasks

VARIABLES policy, priority,
          word,       \* the futex words: has the value changed since a waiter last read it?
          ring,       \* ring[k]: the nodes of key k, the one linked in the bucket first
          waitKey,    \* the key the task's OsFutexWaitTask was called with
          firstNode,  \* firstNode[t]: the local variable of OsFindAndInsertToHash
          listLock,   \* listLock[b]: a task, "requeue", or NULL
          moving,     \* the local variables of an OsFutexRequeue between its two halves
          deleting,   \* the local variables of an OsFutexNodeDeleteFromFutexHash that waits for a lock
          fault,
          posted,     \* history: OsFutexWake(all) is through since the word changed
          stranded,   \* history: waiters whose node was unlinked before they slept
          skipped,    \* history: deleted tasks whose node had moved when it was to be deleted
          ordered     \* history: one policy and base so far, and no linked task's priority changed

params == <<policy, priority>>
nodes == <<ring, waitKey, firstNode, listLock, moving, deleting>>
history == <<stranded, skipped, ordered>>
vars == <<taskStatus, params, word, nodes, fault, posted, history>>

TypeOK ==
    /\ taskStatus \in [Tasks -> TaskStatus \cup {"INSERT", "LINKED", "KILLED"}]
    /\ policy \in [Tasks -> HPFPolicies] /\ priority \in [Tasks -> Nat]
    /\ word \in [Keys -> BOOLEAN] /\ posted \in [Keys -> BOOLEAN]
    /\ ring \in [Keys -> Seq(Tasks)]
    /\ waitKey \in [Tasks -> Keys \cup {NULL}]
    /\ firstNode \in [Tasks -> Tasks \cup {NULL}]
    /\ listLock \in [Buckets -> Tasks \cup {"requeue", NULL}]
    /\ moving = NULL \/ moving \in [head : Tasks, ring : Seq(Tasks), key : Keys]
    /\ deleting = NULL \/ deleting \in [task : Tasks, index : Buckets, then : {"KILLED", "UNUSED"}]
    /\ fault \in BOOLEAN /\ ordered \in BOOLEAN
    /\ stranded \subseteq Tasks /\ skipped \subseteq Tasks

Init ==
    /\ taskStatus = [t \in Tasks |-> "RUN"]
    /\ policy = InitPolicy /\ priority = InitPrio
    /\ word = [k \in Keys |-> FALSE] /\ posted = [k \in Keys |-> FALSE]
    /\ ring = [k \in Keys |-> <<>>]
    /\ waitKey = [t \in Tasks |-> NULL]
    /\ firstNode = [t \in Tasks |-> NULL]
    /\ listLock = [b \in Buckets |-> NULL]
    /\ moving = NULL /\ deleting = NULL
    /\ fault = FALSE
    /\ stranded = {} /\ skipped = {}
    /\ ordered = \A t, u \in Tasks : InitPolicy[t] = InitPolicy[u] /\ BasePrio[t] = BasePrio[u]

-----------------------------------------------------------------------------
\* The node's pendList is not empty.  A task enters it with ops->wait.
Live(t) == IsPending(t)

Free(k) == listLock[Bucket[k]] = NULL

\* A step that meets undefined behaviour.
Fault ==
    /\ fault' = TRUE
    /\ UNCHANGED <<taskStatus, params, word, nodes, posted, history>>

\* The key a linked node carries: OsFutexRequeueSplitTwoLists rewrites it before the move.
OnTheWay(t) == moving # NULL /\ t \in ToSet(moving.ring)
NodeKey(t) == IF OnTheWay(t) THEN moving.key ELSE CHOOSE k \in Keys : t \in ToSet(ring[k])

Linked(t) == OnTheWay(t) \/ \E k \in Keys : t \in ToSet(ring[k])

\* OsFutexDeleteAlreadyWakeTaskAndGetNext from the node of t on, around the ring: unlink
\* dead nodes up to the first live one, the head of the ring included (isDeleteHead).
DeleteAlreadyWake(r, t) ==
    LET i == CHOOSE j \in DOMAIN r : r[j] = t
        round == SubSeq(r, i, Len(r)) \o SubSeq(r, 1, i - 1)
        dead == {round[j] : j \in {n \in DOMAIN round : \A m \in 1..n : ~Live(round[m])}}
    IN SelectSeq(r, LAMBDA x : x \notin dead)

OsSchedParamCompare(t, u) == SchedParamCompare(policy, BasePrio, priority, t, u)

InsertBefore(r, i, t) == SubSeq(r, 1, i - 1) \o <<t>> \o SubSeq(r, i, Len(r))

\* OsFutexInsertFindFormBackToFront: the scan stops after the last node of at least t's
\* priority.  It unlinks a dead node it meets and goes on from its cleared links.
BackToFront(r, t) ==
    LET stop == {i \in 2..Len(r) : ~Live(r[i]) \/ OsSchedParamCompare(t, r[i]) >= 0}
        i == IF stop = {} THEN 1 ELSE Max(stop)
    IN IF stop # {} /\ ~Live(r[i]) THEN NULL ELSE InsertBefore(r, i + 1, t)

\* OsFutexInsertFindFromFrontToBack: the same from the front; here a dead node does no
\* harm when the live node after it has a lower priority than t.
FrontToBack(r, t) ==
    LET i == Min({j \in 2..Len(r) : ~Live(r[j]) \/ OsSchedParamCompare(t, r[j]) < 0})
        next == Min({j \in i..Len(r) : Live(r[j])})
    IN IF OsSchedParamCompare(t, r[next]) >= 0 THEN NULL
       ELSE InsertBefore(SubSeq(r, 1, i - 1) \o SubSeq(r, next, Len(r)), i, t)

\* Mutant: the tail is not looked at, every search starts from the back and stops too late.
InsertAtTail(r, t) ==
    IF ~Live(Head(r)) THEN NULL
    ELSE IF OsSchedParamCompare(t, Head(r)) < 0 THEN <<t>> \o r ELSE Append(r, t)

\* OsFutexInsertTasktoPendList into a ring that is not empty.  The tasks of the first and
\* the last node are read without a look at their pendLists; NULL if there is none.
InsertTasktoPendList(r, t) ==
    LET ret1 == OsSchedParamCompare(t, Head(r))
        ret2 == OsSchedParamCompare(Last(r), t)
    IN
    IF ~Live(Head(r)) THEN NULL
    ELSE IF ret1 < 0 THEN <<t>> \o r
    ELSE IF Len(r) = 1 THEN Append(r, t)
    ELSE IF ~Live(Last(r)) THEN NULL
    ELSE IF ret2 <= 0 \/ ret1 > ret2 THEN BackToFront(r, t)
    ELSE FrontToBack(r, t)

-----------------------------------------------------------------------------
\* The head that OsFindFutexNode finds is looked at again in a SCHEDULER_LOCK section of its
\* own: a task that came by a requeue and timed out may unlink it in between, under the
\* lock of the bucket its wait began with.
HeadMayVanish(k) ==
    \E t \in ToSet(ring[k]) :
        /\ taskStatus[t] = "TIMEOUT" /\ Free(waitKey[t]) /\ Bucket[waitKey[t]] # Bucket[k]
        /\ Head(ring[k]) \notin ToSet(DeleteAlreadyWake(ring[k], t))

\* User space changes the futex word, or sets it back before the next round of waits.
Store(k, changed) ==
    /\ word[k] # changed
    /\ word' = [word EXCEPT ![k] = changed]
    /\ posted' = [posted EXCEPT ![k] = FALSE]
    /\ UNCHANGED <<taskStatus, params, nodes, fault, history>>

\* The ring of key k without its dead heads: OsFutexRecycleAndFindHeadNode.
Recycled(k) == IF ring[k] = <<>> THEN <<>> ELSE DeleteAlreadyWake(ring[k], Head(ring[k]))

\* OsFutexWaitTask up to the search for a place: the caller takes the lock of k.
BeginWait(t, k) ==
    /\ ring' = [ring EXCEPT ![k] = IF Recycled(k) = <<>> THEN <<t>> ELSE Recycled(k)]
    /\ taskStatus' = [taskStatus EXCEPT ![t] = IF Recycled(k) = <<>> THEN "LINKED" ELSE "INSERT"]
    /\ waitKey' = [waitKey EXCEPT ![t] = k]
    /\ firstNode' = [firstNode EXCEPT ![t] = IF Recycled(k) = <<>> THEN NULL ELSE Head(Recycled(k))]
    /\ listLock' = [listLock EXCEPT ![Bucket[k]] = t]
    /\ UNCHANGED <<params, word, moving, deleting, fault, posted, history>>

\* Mutant: the word is read before the lock is taken, so a store and a wake get between.
OsFutexWaitTaskUnchecked(t, k) ==
    /\ taskStatus[t] = "RUN" /\ Free(k)
    /\ BeginWait(t, k)

\* OsFutexWaitTask up to the end of OsFutexRecycleAndFindHeadNode: under the bucket lock,
\* compare the word, find the ring and unlink its dead heads.  In a ring with a live node
\* the place is searched in a second SCHEDULER_LOCK section, and the tick may come between.
OsFutexWaitTask(t, k) ==
    /\ taskStatus[t] = "RUN" /\ Free(k)
    /\ ~word[k]
    /\ \/ HeadMayVanish(k) /\ Fault
       \/ BeginWait(t, k)

\* The second section: insert.  A node that came by a requeue is unlinked by its task under
\* the lock of another bucket, so even firstNode may be gone.
OsFindAndInsertToHash(t) ==
    /\ taskStatus[t] = "INSERT"
    /\ LET ringNow == ring[waitKey[t]]
           r == IF firstNode[t] \in ToSet(ringNow) THEN InsertTasktoPendList(ringNow, t) ELSE NULL
       IN
       \/ r = NULL /\ Fault
       \/ /\ r # NULL
          /\ ring' = [ring EXCEPT ![waitKey[t]] = r]
          /\ taskStatus' = [taskStatus EXCEPT ![t] = "LINKED"]
          /\ firstNode' = [firstNode EXCEPT ![t] = NULL]
          /\ UNCHANGED <<params, word, waitKey, listLock, moving, deleting, fault, posted, history>>

\* The third section: ops->wait on the node's pendList and the release of listLock.  Nobody
\* looks whether the node is still linked.
FutexSleep(t, timeout) ==
    /\ taskStatus[t] = "LINKED"
    /\ taskStatus' = HPFWait(t, timeout)
    /\ listLock' = [listLock EXCEPT ![Bucket[waitKey[t]]] = NULL]
    /\ UNCHANGED <<params, word, ring, waitKey, firstNode, moving, deleting, fault, posted, history>>

\* The tick ends a bounded wait: the node stays in the ring.
FutexTimeout(t) ==
    /\ SchedTimeoutTaskWake(t)
    /\ UNCHANGED <<params, word, nodes, fault, posted, history>>

\* The task leaves its wait.
LeaveWait(t) ==
    /\ waitKey' = [waitKey EXCEPT ![t] = NULL]
    /\ stranded' = stranded \ {t}

\* The task was woken: OsFutexWaitTask returns LOS_OK.
FutexWaitReturn(t) ==
    /\ taskStatus[t] = "WOKEN"
    /\ taskStatus' = HPFWaitReturn(t)
    /\ LeaveWait(t)
    /\ UNCHANGED <<params, word, ring, firstNode, listLock, moving, deleting, fault, posted, skipped, ordered>>

\* OsFutexDeleteTimeoutTaskNode: under the lock of the bucket the wait began with, although
\* a requeue may have taken the node to another bucket, or be about to.  The last node of
\* a ring that is on its way has no list to leave.  A node that is linked and whose task
\* does not sleep yet goes with the dead ones.
OsFutexDeleteTimeoutTaskNode(t) ==
    LET rest == IF OnTheWay(t) THEN DeleteAlreadyWake(moving.ring, t) ELSE <<>> IN
    /\ taskStatus[t] = "TIMEOUT" /\ Free(waitKey[t])
    /\ \/ OnTheWay(t) /\ rest = <<>> /\ Fault
       \/ /\ OnTheWay(t) => rest # <<>>
          /\ moving' = IF OnTheWay(t) THEN [moving EXCEPT !.ring = rest] ELSE moving
          /\ ring' = [k \in Keys |-> IF t \in ToSet(ring[k])
                                     THEN DeleteAlreadyWake(ring[k], t) ELSE ring[k]]
          /\ taskStatus' = HPFWaitReturn(t)
          /\ waitKey' = [waitKey EXCEPT ![t] = NULL]
          /\ stranded' = (stranded \ {t}) \cup
                {u \in Tasks : taskStatus[u] = "LINKED" /\ Linked(u) /\ ~Linked(u)'}
          /\ UNCHANGED <<params, word, firstNode, listLock, deleting, fault, posted, skipped, ordered>>

-----------------------------------------------------------------------------
\* Mutant: a dead node counts as a task woken.
WokenCountsDead(r, n) == {t \in ToSet(SubSeq(r, 1, Min({n, Len(r)}))) : Live(t)}

\* The n highest waiters of a ring that still sleep, and what is left of the ring after
\* OsFutexWakeTask: the nodes behind the last task woken, nothing if there were too few.
LiveNodes(r) == SelectSeq(r, Live)
Woken(r, n) == ToSet(SubSeq(LiveNodes(r), 1, Min({n, Len(LiveNodes(r))})))

AfterWake(r, n) ==
    IF Len(LiveNodes(r)) < n THEN <<>>
    ELSE SubSeq(r, 1 + CHOOSE i \in DOMAIN r : r[i] = LiveNodes(r)[n], Len(r))

WakeAll(woken) == [t \in Tasks |-> IF t \in woken THEN "WOKEN" ELSE taskStatus[t]]

\* OsFutexWake: LOS_EBADF without a ring.
OsFutexWake(k, n) ==
    /\ Free(k)
    /\ \/ HeadMayVanish(k) /\ Fault
       \/ /\ taskStatus' = WakeAll(Woken(ring[k], n))
          /\ ring' = [ring EXCEPT ![k] = AfterWake(@, n)]
          /\ posted' = [posted EXCEPT ![k] = @ \/ (word[k] /\ n >= Cardinality(Tasks))]
          /\ UNCHANGED <<params, word, waitKey, firstNode, listLock, moving, deleting, fault, history>>

\* OsFutexRequeue up to OsFutexUnlock of the old bucket: wake n tasks, then cut off the
\* first count nodes, dead ones included, and give them the new key.  The lock stays when
\* both keys are in one bucket.
OsFutexRequeue(k, n, count, newKey) ==
    LET r == IF n > 0 THEN AfterWake(ring[k], n) ELSE ring[k]
        cut == Min({count, Len(r)})
    IN
    /\ Free(k) /\ moving = NULL
    /\ \/ HeadMayVanish(k) /\ Fault
       \/ /\ taskStatus' = WakeAll(IF n > 0 THEN Woken(ring[k], n) ELSE {})
          /\ ring' = [ring EXCEPT ![k] = SubSeq(r, cut + 1, Len(r))]
          /\ moving' = IF cut = 0 THEN NULL
                       ELSE [head |-> Head(r), ring |-> SubSeq(r, 1, cut), key |-> newKey]
          /\ listLock' = [listLock EXCEPT ![Bucket[k]] =
                             IF cut > 0 /\ Bucket[k] = Bucket[newKey] THEN "requeue" ELSE NULL]
          /\ UNCHANGED <<params, word, waitKey, firstNode, deleting, fault, posted, history>>

\* The loop of OsFutexRequeueInsertNewKey over the nodes of src: dead nodes are dropped.
\* The loop takes SCHEDULER_LOCK for each node; here its rounds are one step.
RequeueInto(dst, src) ==
    FoldLeft(LAMBDA r, t : IF r = NULL \/ ~Live(t) THEN r ELSE InsertTasktoPendList(r, t),
             dst, src)

\* OsFutexRequeueInsertNewKey under the lock of the new bucket.  The node that was first
\* when the lists were split is used even if its task has unlinked it since.
OsFutexRequeueInsertNewKey ==
    LET b == Bucket[moving.key]
        dst == ring[moving.key]
        r == IF dst = <<>> THEN moving.ring ELSE RequeueInto(dst, moving.ring)
    IN
    /\ moving # NULL
    /\ listLock[b] \in {NULL, "requeue"}
    /\ \/ (moving.head \notin ToSet(moving.ring) \/ r = NULL) /\ Fault
       \/ /\ moving.head \in ToSet(moving.ring) /\ r # NULL
          /\ ring' = [ring EXCEPT ![moving.key] = r]
          /\ moving' = NULL
          /\ listLock' = [listLock EXCEPT ![b] = NULL]
          /\ UNCHANGED <<taskStatus, params, word, waitKey, firstNode, deleting, fault, posted, history>>

-----------------------------------------------------------------------------
\* OsFutexDeleteKeyNodeFromHash for the node of t.
DeleteKeyNodeFromHash(t) ==
    /\ ring' = [k \in Keys |-> LOS_ListDelete(ring[k], t)]
    /\ moving' = IF OnTheWay(t) THEN [moving EXCEPT !.ring = LOS_ListDelete(@, t)] ELSE moving

\* The last node of a ring that is on its way has no list to leave.
LastOnTheWay(t) == OnTheWay(t) /\ Len(moving.ring) = 1

\* OsFutexNodeDeleteFromFutexHash up to the lock of the bucket, which is that of the key the
\* node carries now.  A node that is not linked has nothing to unlink.
MustBlock(t) == Linked(t) /\ ~Free(NodeKey(t))

Block(t, then) ==
    /\ MustBlock(t) /\ deleting = NULL
    /\ deleting' = [task |-> t, index |-> Bucket[NodeKey(t)], then |-> then]
    /\ UNCHANGED <<taskStatus, params, word, ring, waitKey, firstNode, listLock, moving, fault, posted, history>>

\* What comes after OsFutexNodeDeleteFromFutexHash: the task is woken, or its control block
\* becomes free.
Finish(t, status) ==
    /\ taskStatus' = [taskStatus EXCEPT ![t] = status]
    /\ LeaveWait(t)
    /\ UNCHANGED <<params, word, firstNode, listLock, fault, posted, ordered>>

DeleteAtOnce(t, status) ==
    /\ ~MustBlock(t)
    /\ \/ LastOnTheWay(t) /\ Fault
       \/ /\ ~LastOnTheWay(t)
          /\ DeleteKeyNodeFromHash(t)
          /\ Finish(t, status)
          /\ UNCHANGED <<deleting, skipped>>

\* OsPendingTaskWake for SIGKILL: a waiting task is unlinked and woken, and will exit on its
\* way back to user space.  The status of the task is looked at before the lock of its
\* bucket is taken, which may block.
OsPendingTaskWake(t) ==
    /\ IsPending(t)
    /\ \/ DeleteAtOnce(t, "KILLED")
       \/ Block(t, "KILLED")

\* Mutant: only the mutexes of the task are released.
OsTaskReleaseHoldLockMutexesOnly(t) ==
    /\ taskStatus[t] \in {"PENDING", "PEND_TIME", "WOKEN", "TIMEOUT", "KILLED"}
    /\ Finish(t, "UNUSED")
    /\ UNCHANGED <<ring, moving, deleting, skipped>>

\* OsTaskReleaseHoldLock of a task that is deleted in a wait or exits after SIGKILL.
OsTaskReleaseHoldLock(t) ==
    /\ taskStatus[t] \in {"PENDING", "PEND_TIME", "WOKEN", "TIMEOUT", "KILLED"}
    /\ \/ DeleteAtOnce(t, "UNUSED")
       \/ Block(t, "UNUSED")

\* The rest of OsFutexNodeDeleteFromFutexHash for who had to wait for the lock.  A node that
\* went to another bucket meanwhile stays linked.  The status of the task is not looked at
\* again: one that is no longer waiting would be taken out of its ready queue and woken, one
\* that runs again would be freed.
OsFutexNodeDeleteFromFutexHash ==
    LET t == deleting.task
        here == Linked(t) /\ Bucket[NodeKey(t)] = deleting.index
        expected == IF deleting.then = "KILLED" THEN {"PENDING", "PEND_TIME"}
                    ELSE {"PENDING", "PEND_TIME", "WOKEN", "TIMEOUT", "KILLED"}
    IN
    /\ deleting # NULL
    /\ listLock[deleting.index] = NULL
    /\ \/ (taskStatus[t] \notin expected \/ (here /\ LastOnTheWay(t))) /\ Fault
       \/ /\ taskStatus[t] \in expected /\ ~(here /\ LastOnTheWay(t))
          /\ IF here THEN DeleteKeyNodeFromHash(t) ELSE UNCHANGED <<ring, moving>>
          /\ skipped' = IF Linked(t) /\ ~here /\ deleting.then = "UNUSED" THEN skipped \cup {t} ELSE skipped
          /\ Finish(t, deleting.then)
          /\ deleting' = NULL

\* HPFSchedParamModify: a sleeping task keeps its place in the ring.
HPFSchedParamModify(t, pol, prio) ==
    /\ taskStatus[t] # "UNUSED"
    /\ policy' = [policy EXCEPT ![t] = pol]
    /\ priority' = [priority EXCEPT ![t] = prio]
    /\ ordered' = (ordered /\ pol = policy[t] /\ ~Linked(t))
    /\ UNCHANGED <<taskStatus, word, nodes, fault, posted, stranded, skipped>>

Next ==
    /\ ~fault
    /\ \/ \E k \in Stored, changed \in BOOLEAN : Store(k, changed)
       \/ \E k \in Keys, n \in WakeNumbers : OsFutexWake(k, n)
       \/ \E kk \in Requeues : \E n \in {0, 1}, count \in 1..Len(ring[kk[1]]) :
             OsFutexRequeue(kk[1], n, count, kk[2])
       \/ OsFutexRequeueInsertNewKey
       \/ OsFutexNodeDeleteFromFutexHash
       \/ \E c \in ParamChanges : HPFSchedParamModify(c[1], c[2], c[3])
       \/ \E t \in Tasks :
             \/ \E k \in Keys : OsFutexWaitTask(t, k)
             \/ OsFindAndInsertToHash(t)
             \/ \E timeout \in WaitTimeouts : FutexSleep(t, timeout)
             \/ FutexTimeout(t)
             \/ FutexWaitReturn(t)
             \/ OsFutexDeleteTimeoutTaskNode(t)
             \/ OsPendingTaskWake(t)
             \/ OsTaskReleaseHoldLock(t)

Spec == Init /\ [][Next]_vars

-----------------------------------------------------------------------------
\* No lost wake up: once the word has changed and a wake of everybody is through, a task
\* whose OsFutexWaitTask was called for this key sleeps only if a requeue took it to another
\* key, or if it was unlinked before it slept.  The comparison of the word, the insertion
\* and the sleep are one critical section of the bucket lock.
NoLostWakeup ==
    \A k \in Keys : posted[k] =>
        \A t \in Tasks : IsPending(t) /\ waitKey[t] = k /\ t \notin stranded =>
            OnTheWay(t) \/ \E kk \in Requeues : kk[1] = k /\ t \in ToSet(ring[kk[2]])

\* A sleeping task can be found: its node is in the ring of exactly one key, once, or in
\* the one ring that is on its way between two keys.  The one way to sleep in no ring is to
\* be unlinked before the sleep.
SleeperIsFindable ==
    \A t \in Tasks : IsPending(t) =>
        LET places == {<<k, i>> \in Keys \X (1..Cardinality(Tasks)) :
                          i \in DOMAIN ring[k] /\ ring[k][i] = t}
            onTheWay == IF moving = NULL THEN {} ELSE {i \in DOMAIN moving.ring : moving.ring[i] = t}
        IN Cardinality(places) + Cardinality(onTheWay) = IF t \in stranded THEN 0 ELSE 1

\* As long as all tasks have one policy and no task's priority was changed while its node
\* was linked, the tasks of a ring that still sleep are sorted by priority, so a wake of n
\* tasks wakes the n highest ones, also after a requeue into a ring that has waiters.
RingSorted ==
    ordered => \A k \in Keys : LET live == LiveNodes(ring[k]) IN
        \A i, j \in DOMAIN live : i < j => priority[live[i]] <= priority[live[j]]

\* A task that has left its wait, or is gone, leaves no node behind: the next wait, or the
\* next owner of the control block, would link a node that is linked already.  The one way
\* to leave a node is to be deleted by somebody who waited for the lock of the bucket while
\* a requeue took the node to another one.
NoNodeLeftBehind ==
    \A t \in Tasks : taskStatus[t] \in {"RUN", "UNUSED"} /\ t \notin skipped => ~Linked(t)

=============================================================================

------------------------------- MODULE LosQueue -------------------------------
(***************************************************************************)
(* Message queues (kernel/base/ipc/los_queue.c): a ring of queueLen nodes  *)
(* with a count of readable and one of writable nodes.                     *)
(*                                                                         *)
(* A read or write that finds a task waiting for the node it freed or      *)
(* filled does not count the node: it wakes the task, which owns the node  *)
(* until it runs and finishes its own OsQueueOperate.                      *)
(***************************************************************************)
EXTENDS LosTaskPend, FiniteSets

CONSTANTS Queues,      \* the control blocks of g_allQueue
          Msgs,        \* message contents
          NoMsg,       \* a node that holds no message
          MaxLen,      \* bound: the largest queueLen
          MaxGen       \* bound: deletions of one control block; 2^16 - 1 in the code

ASSUME QueueAssumption ==
    /\ NoMsg \notin Msgs
    /\ MaxLen \in Nat \ {0}
    /\ MaxGen \in Nat
    /\ IsFiniteSet(Tasks)
    /\ IsFiniteSet(Queues) /\ Queues # {}

\* SET_QUEUE_ID(count, index)
QueueIDs == (0..MaxGen) \X Queues

\* OS_QUEUE_OPERATE_TYPE
Operations == {"READ_HEAD", "WRITE_HEAD", "WRITE_TAIL"}
RW == {"READ", "WRITE"}
ReadWrite(type) == IF type = "READ_HEAD" THEN "READ" ELSE "WRITE"
Other(rw) == IF rw = "READ" THEN "WRITE" ELSE "READ"

VARIABLES FREE_QUEUE_LIST,
          queueState, queueGen, queueLen, queueHead, queueTail,
          queueHandle,        \* the nodes of the ring
          readWriteableCnt,   \* readWriteableCnt[q][rw]: nodes that can be read or written
          readWriteList,      \* readWriteList[q][rw]: tasks pending to read or to write
          call,               \* call[t]: the arguments of t's last OsQueueOperate
          abandoned           \* history: tasks deleted between their wake up and their return

ringVars == <<queueHead, queueTail, queueHandle>>
vars == <<taskStatus, FREE_QUEUE_LIST, queueState, queueGen, queueLen, ringVars,
          readWriteableCnt, readWriteList, call, abandoned>>

\* What an operation copies into the ring: a read copies nothing.
Payload(type) == IF type = "READ_HEAD" THEN {NoMsg} ELSE Msgs

Calls == [id : QueueIDs, type : Operations, msg : Msgs \cup {NoMsg}]

QueueID(q) == <<queueGen[q], q>>

\* OsQueueOperateParamCheck
IsValid(h) == queueState[h[2]] = "INUSED" /\ QueueID(h[2]) = h

Running(t) == taskStatus[t] = "RUN"

TypeOK ==
    /\ taskStatus \in [Tasks -> TaskStatus]
    /\ FREE_QUEUE_LIST \in Seq(Queues)
    /\ queueState \in [Queues -> {"UNUSED", "INUSED"}]
    /\ queueGen \in [Queues -> 0..MaxGen]
    /\ queueLen \in [Queues -> 1..MaxLen]
    /\ queueHead \in [Queues -> 0..MaxLen - 1]
    /\ queueTail \in [Queues -> 0..MaxLen - 1]
    /\ queueHandle \in [Queues -> [0..MaxLen - 1 -> Msgs \cup {NoMsg}]]
    /\ readWriteableCnt \in [Queues -> [RW -> 0..MaxLen]]
    /\ readWriteList \in [Queues -> [RW -> Seq(Tasks)]]
    /\ call \in [Tasks -> Calls]
    /\ abandoned \subseteq Tasks

-----------------------------------------------------------------------------
\* OsAllQueueCBInit
Init ==
    /\ taskStatus = [t \in Tasks |-> "RUN"]
    /\ FREE_QUEUE_LIST \in {l \in [1..Cardinality(Queues) -> Queues] : IsInjective(l)}
    /\ queueState = [q \in Queues |-> "UNUSED"]
    /\ queueGen = [q \in Queues |-> 0]
    /\ queueLen = [q \in Queues |-> 1]
    /\ queueHead = [q \in Queues |-> 0]
    /\ queueTail = [q \in Queues |-> 0]
    /\ queueHandle = [q \in Queues |-> [i \in 0..MaxLen - 1 |-> NoMsg]]
    /\ readWriteableCnt = [q \in Queues |-> [rw \in RW |-> 0]]
    /\ readWriteList = [q \in Queues |-> [rw \in RW |-> <<>>]]
    /\ call = [t \in Tasks |-> CHOOSE c \in Calls : TRUE]
    /\ abandoned = {}

\* Mutant: Head and Tail of the block's last life are kept.
LOS_QueueCreateStaleRing(t, len) ==
    LET q == Head(FREE_QUEUE_LIST) IN
    /\ Running(t)
    /\ FREE_QUEUE_LIST # <<>>
    /\ FREE_QUEUE_LIST' = Tail(FREE_QUEUE_LIST)
    /\ queueLen' = [queueLen EXCEPT ![q] = len]
    /\ queueHandle' = [queueHandle EXCEPT ![q] = [i \in 0..MaxLen - 1 |-> NoMsg]]
    /\ queueState' = [queueState EXCEPT ![q] = "INUSED"]
    /\ readWriteableCnt' = [readWriteableCnt EXCEPT ![q] = [READ |-> 0, WRITE |-> len]]
    /\ readWriteList' = [readWriteList EXCEPT ![q] = [rw \in RW |-> <<>>]]
    /\ UNCHANGED <<taskStatus, queueGen, queueHead, queueTail, call>>

\* The ring is allocated before the lock is taken, everything else is under the lock.
LOS_QueueCreate(t, len) ==
    LET q == Head(FREE_QUEUE_LIST) IN
    /\ Running(t)
    /\ FREE_QUEUE_LIST # <<>>
    /\ FREE_QUEUE_LIST' = Tail(FREE_QUEUE_LIST)
    /\ queueLen' = [queueLen EXCEPT ![q] = len]
    /\ queueHandle' = [queueHandle EXCEPT ![q] = [i \in 0..MaxLen - 1 |-> NoMsg]]
    /\ queueState' = [queueState EXCEPT ![q] = "INUSED"]
    /\ readWriteableCnt' = [readWriteableCnt EXCEPT ![q] = [READ |-> 0, WRITE |-> len]]
    /\ queueHead' = [queueHead EXCEPT ![q] = 0]
    /\ queueTail' = [queueTail EXCEPT ![q] = 0]
    /\ readWriteList' = [readWriteList EXCEPT ![q] = [rw \in RW |-> <<>>]]
    /\ UNCHANGED <<taskStatus, queueGen, call>>

\* OsQueueBufferOperate: move Head or Tail round the ring and copy the message.  The
\* content of a node that has been read is forgotten.
OsQueueBufferOperate(q, type, msg) ==
    LET next(i) == IF i + 1 = queueLen[q] THEN 0 ELSE i + 1
        prev(i) == IF i = 0 THEN queueLen[q] - 1 ELSE i - 1
    IN
    \/ /\ type = "READ_HEAD"
       /\ queueHandle' = [queueHandle EXCEPT ![q][queueHead[q]] = NoMsg]
       /\ queueHead' = [queueHead EXCEPT ![q] = next(@)]
       /\ UNCHANGED queueTail
    \/ /\ type = "WRITE_HEAD"
       /\ queueHead' = [queueHead EXCEPT ![q] = prev(@)]
       /\ queueHandle' = [queueHandle EXCEPT ![q][queueHead'[q]] = msg]
       /\ UNCHANGED queueTail
    \/ /\ type = "WRITE_TAIL"
       /\ queueHandle' = [queueHandle EXCEPT ![q][queueTail[q]] = msg]
       /\ queueTail' = [queueTail EXCEPT ![q] = next(@)]
       /\ UNCHANGED queueHead

\* Mutant: the node is counted although a task was woken for it.
FinishCountsTwice(q, type, msg, status, cnt) ==
    LET rw == Other(ReadWrite(type))
        waiting == readWriteList[q][rw]
    IN
    /\ OsQueueBufferOperate(q, type, msg)
    /\ readWriteableCnt' = [cnt EXCEPT ![q][rw] = @ + 1]
    /\ \/ /\ waiting # <<>>
          /\ readWriteList' = [readWriteList EXCEPT ![q][rw] = Tail(@)]
          /\ taskStatus' = [status EXCEPT ![Head(waiting)] = "WOKEN"]
       \/ /\ waiting = <<>>
          /\ taskStatus' = status
          /\ UNCHANGED readWriteList

\* Mutant: nobody is woken.
FinishNeverWakes(q, type, msg, status, cnt) ==
    /\ OsQueueBufferOperate(q, type, msg)
    /\ readWriteableCnt' = [cnt EXCEPT ![q][Other(ReadWrite(type))] = @ + 1]
    /\ taskStatus' = status
    /\ UNCHANGED readWriteList

\* The end of OsQueueOperate: operate on the ring, then wake the first task that waits
\* for the opposite operation or count the node for it.  status and cnt are the task
\* states and counts the operation has reached so far.
Finish(q, type, msg, status, cnt) ==
    LET rw == Other(ReadWrite(type))
        waiting == readWriteList[q][rw]
    IN
    /\ OsQueueBufferOperate(q, type, msg)
    /\ \/ /\ waiting # <<>>
          /\ readWriteList' = [readWriteList EXCEPT ![q][rw] = Tail(@)]
          /\ taskStatus' = [status EXCEPT ![Head(waiting)] = "WOKEN"]
          /\ readWriteableCnt' = cnt
       \/ /\ waiting = <<>>
          /\ readWriteableCnt' = [cnt EXCEPT ![q][rw] = @ + 1]
          /\ taskStatus' = status
          /\ UNCHANGED readWriteList

\* OsQueueOperate (LOS_QueueReadCopy, LOS_QueueWriteCopy, LOS_QueueWriteHeadCopy and
\* their variants) up to its end, or to ops->wait().
OsQueueOperate(t, h, type, msg, timeout) ==
    LET q == h[2]
        rw == ReadWrite(type)
    IN
    /\ Running(t)
    /\ IsValid(h)
    /\ call' = [call EXCEPT ![t] = [id |-> h, type |-> type, msg |-> msg]]
    /\ \/ /\ readWriteableCnt[q][rw] > 0
          /\ Finish(q, type, msg, taskStatus, [readWriteableCnt EXCEPT ![q][rw] = @ - 1])
       \/ /\ readWriteableCnt[q][rw] = 0
          /\ timeout # "NO_WAIT"
          /\ taskStatus' = HPFWait(t, timeout)
          /\ readWriteList' = [readWriteList EXCEPT ![q][rw] = Append(@, t)]
          /\ UNCHANGED <<ringVars, readWriteableCnt>>
    /\ UNCHANGED <<FREE_QUEUE_LIST, queueState, queueGen, queueLen>>

\* A woken task runs and finishes its operation; the handle is not checked again.
QueueOperateWoken(t) ==
    /\ taskStatus[t] = "WOKEN"
    /\ Finish(call[t].id[2], call[t].type, call[t].msg, HPFWaitReturn(t), readWriteableCnt)
    /\ UNCHANGED <<FREE_QUEUE_LIST, queueState, queueGen, queueLen, call>>

\* LOS_ERRNO_QUEUE_TIMEOUT
QueueOperateTimedOut(t) ==
    /\ taskStatus[t] = "TIMEOUT"
    /\ taskStatus' = HPFWaitReturn(t)
    /\ UNCHANGED <<FREE_QUEUE_LIST, queueState, queueGen, queueLen, ringVars, readWriteableCnt,
                   readWriteList, call>>

Unlink(t) ==
    readWriteList' = [q \in Queues |-> [rw \in RW |-> LOS_ListDelete(readWriteList[q][rw], t)]]

\* The tick finds that a bounded wait is over.
QueueTimeout(t) ==
    /\ SchedTimeoutTaskWake(t)
    /\ Unlink(t)
    /\ UNCHANGED <<FREE_QUEUE_LIST, queueState, queueGen, queueLen, ringVars, readWriteableCnt, call>>

\* Mutant: only the wait lists are tested.
LOS_QueueDeleteInUse(t, h) ==
    LET q == h[2] IN
    /\ Running(t)
    /\ IsValid(h)
    /\ \A rw \in RW : readWriteList[q][rw] = <<>>
    /\ queueGen[q] < MaxGen
    /\ queueState' = [queueState EXCEPT ![q] = "UNUSED"]
    /\ queueGen' = [queueGen EXCEPT ![q] = @ + 1]
    /\ FREE_QUEUE_LIST' = Append(FREE_QUEUE_LIST, q)
    /\ UNCHANGED <<taskStatus, queueLen, ringVars, readWriteableCnt, readWriteList, call>>

\* Refused (LOS_ERRNO_QUEUE_IN_TSKUSE, LOS_ERRNO_QUEUE_IN_TSKWRITE) while a task waits
\* or the counts do not add up to queueLen.
LOS_QueueDelete(t, h) ==
    LET q == h[2] IN
    /\ Running(t)
    /\ IsValid(h)
    /\ \A rw \in RW : readWriteList[q][rw] = <<>>
    /\ readWriteableCnt[q]["WRITE"] + readWriteableCnt[q]["READ"] = queueLen[q]
    /\ queueGen[q] < MaxGen
    /\ queueState' = [queueState EXCEPT ![q] = "UNUSED"]
    /\ queueGen' = [queueGen EXCEPT ![q] = @ + 1]
    /\ FREE_QUEUE_LIST' = Append(FREE_QUEUE_LIST, q)
    /\ UNCHANGED <<taskStatus, queueLen, ringVars, readWriteableCnt, readWriteList, call>>

\* LOS_TaskDelete as far as queues are concerned: HPFExit unlinks a pending task, and
\* nothing is done for a task that was woken for a node: the node is never counted again.
LOS_TaskDelete(t) ==
    /\ taskStatus[t] # "UNUSED"
    /\ abandoned' = IF taskStatus[t] = "WOKEN" THEN abandoned \cup {t} ELSE abandoned
    /\ taskStatus' = [taskStatus EXCEPT ![t] = "UNUSED"]
    /\ Unlink(t)
    /\ UNCHANGED <<FREE_QUEUE_LIST, queueState, queueGen, queueLen, ringVars, readWriteableCnt, call>>

Next ==
    \E t \in Tasks :
        \/ /\ \/ \E len \in 1..MaxLen : LOS_QueueCreate(t, len)
              \/ \E h \in QueueIDs, type \in Operations, timeout \in Timeouts :
                    \E msg \in Payload(type) : OsQueueOperate(t, h, type, msg, timeout)
              \/ QueueOperateWoken(t)
              \/ QueueOperateTimedOut(t)
              \/ QueueTimeout(t)
              \/ \E h \in QueueIDs : LOS_QueueDelete(t, h)
           /\ UNCHANGED abandoned
        \/ LOS_TaskDelete(t)

Spec == Init /\ [][Next]_vars

-----------------------------------------------------------------------------
\* Tasks that were woken to read (write) a node of q and have not done so: they will, or
\* they were deleted first and never will.
Promised(q, rw) == {t \in Tasks : /\ taskStatus[t] = "WOKEN" \/ t \in abandoned
                                  /\ call[t].id[2] = q
                                  /\ ReadWrite(call[t].type) = rw}

InUse == {q \in Queues : queueState[q] = "INUSED"}

\* Every node is readable, writable, or owned by one woken task: the hand-over between
\* readers and writers neither loses nor invents a node, so the sum that
\* LOS_QueueDelete tests is short exactly while a woken task still has to touch the ring -
\* and for ever after such a task has been deleted.
NodesConserved ==
    \A q \in InUse :
        readWriteableCnt[q]["READ"] + readWriteableCnt[q]["WRITE"]
          + Cardinality(Promised(q, "READ")) + Cardinality(Promised(q, "WRITE")) = queueLen[q]

\* A woken task finishes its operation without looking at the queue id again: the queue
\* must still be the one it was called for, and its memory must not have been freed.
WokenHandleIsCurrent ==
    \A t \in Tasks : taskStatus[t] = "WOKEN" => IsValid(call[t].id)

\* The messages from Head on: the readable ones and those promised to a woken reader.
Contents(q) ==
    [i \in 1..readWriteableCnt[q]["READ"] + Cardinality(Promised(q, "READ")) |->
        queueHandle[q][(queueHead[q] + i - 1) % queueLen[q]]]

\* The queue description: "when there is a new message, the suspended reader is woken",
\* and likewise for writers.  A task waits only while every message (free node) is
\* promised to a task that has been woken; a woken task that is deleted keeps its node,
\* and that is the only way in which a message can lie beside a waiting reader.
NobodyWaitsBesideNode ==
    \A q \in InUse :
        /\ readWriteList[q]["READ"] # <<>> => Len(Contents(q)) = Cardinality(Promised(q, "READ"))
        /\ readWriteList[q]["WRITE"] # <<>> =>
              queueLen[q] - Len(Contents(q)) = Cardinality(Promised(q, "WRITE"))

-----------------------------------------------------------------------------
Capacity == [h \in QueueIDs |-> IF IsValid(h) THEN queueLen[h[2]] ELSE 0]
Messages == [h \in QueueIDs |-> IF IsValid(h) THEN Contents(h[2]) ELSE <<>>]

Abs == INSTANCE AbsQueue WITH Handles <- QueueIDs, capacity <- Capacity, contents <- Messages

\* Seen through its messages, a queue is a bounded double-ended queue: OsQueueOperate,
\* whether it runs straight through or finishes after a wake up, adds or removes exactly
\* one message at one end.
ImplementsQueue == Abs!Spec

=============================================================================

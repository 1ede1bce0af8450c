--------------------------- MODULE LosQueue_proofs ---------------------------
(***************************************************************************)
(* Proofs that the message queue invariants hold, and that LosQueue        *)
(* implements AbsQueue, for every number of tasks and control blocks and   *)
(* every queue length.                                                     *)
(*                                                                         *)
(* The invariants depend on each other in a circle.  A block is deleted    *)
(* only while its counts add up to queueLen; by NodesConserved nobody has  *)
(* then been woken for one of its nodes, so that a woken task's handle     *)
(* stays current; and that is what NodesConserved needs to survive the     *)
(* reuse of the block.                                                     *)
(***************************************************************************)
EXTENDS LosQueue, LosListLemmas, FiniteSetTheorems

\* A control block on the free list is not in use, and is there once.
FreeListExact ==
    /\ IsInjective(FREE_QUEUE_LIST)
    /\ \A q \in ToSet(FREE_QUEUE_LIST) : queueState[q] = "UNUSED"

\* The arguments of t name this side of this queue, as it is now.
CallsFor(t, q, rw) ==
    IsValid(call[t].id) /\ call[t].id[2] = q /\ ReadWrite(call[t].type) = rw

\* A pending task is on the list its arguments name, once, and on no other; a task that
\* is not pending is on none.
Linked ==
    /\ \A q \in Queues, rw \in RW :
          /\ IsInjective(readWriteList[q][rw])
          /\ \A t \in ToSet(readWriteList[q][rw]) : CallsFor(t, q, rw)
    /\ \A t \in Tasks :
          IsPending(t) <=> \E q \in Queues, rw \in RW : t \in ToSet(readWriteList[q][rw])

\* A task woken for a node still has a current handle, and so has one that was deleted
\* before it touched the node: its queue can never be deleted again.
PromiseHandles ==
    /\ \A t \in Tasks : taskStatus[t] = "WOKEN" \/ t \in abandoned => IsValid(call[t].id)
    /\ \A t \in abandoned : taskStatus[t] = "UNUSED"

\* A task waits for a node only while none is counted for it.
NoWaiterBesideCount ==
    \A q \in Queues, rw \in RW : readWriteList[q][rw] # <<>> => readWriteableCnt[q][rw] = 0

\* Head and Tail are inside the ring.
RingBounds == \A q \in Queues : queueHead[q] < queueLen[q] /\ queueTail[q] < queueLen[q]

IInv == /\ TypeOK
        /\ FreeListExact
        /\ Linked
        /\ PromiseHandles
        /\ NoWaiterBesideCount
        /\ RingBounds
        /\ NodesConserved

-----------------------------------------------------------------------------
\* The nodes a side of the queue may use: the counted ones and the promised ones.
Nodes(q, rw) == readWriteableCnt[q][rw] + Cardinality(Promised(q, rw))

LEMMA HandleFacts ==
    \A h \in QueueIDs : h[1] \in 0..MaxGen /\ h[2] \in Queues /\ h = <<h[1], h[2]>>
BY DEF QueueIDs

LEMMA OtherFacts ==
    ASSUME NEW type \in Operations
    PROVE  /\ ReadWrite(type) \in RW /\ Other(ReadWrite(type)) \in RW
           /\ Other(ReadWrite(type)) # ReadWrite(type)
           /\ RW = {ReadWrite(type), Other(ReadWrite(type))}
BY DEF Operations, ReadWrite, Other, RW

LEMMA CallFacts ==
    ASSUME TypeOK, NEW t \in Tasks
    PROVE  /\ call[t].id \in QueueIDs /\ call[t].id[2] \in Queues
           /\ call[t].type \in Operations /\ call[t].msg \in Msgs \cup {NoMsg}
<1>1. call[t] \in Calls
  BY DEF TypeOK
<1> QED BY <1>1, HandleFacts DEF Calls

LEMMA NodeFacts ==
    ASSUME TypeOK, NEW q \in Queues, NEW rw \in RW
    PROVE  /\ IsFiniteSet(Promised(q, rw)) /\ Cardinality(Promised(q, rw)) \in Nat
           /\ readWriteableCnt[q][rw] \in 0..MaxLen
           /\ Nodes(q, rw) \in Nat
<1>1. IsFiniteSet(Promised(q, rw)) /\ Cardinality(Promised(q, rw)) \in Nat
  BY QueueAssumption, FS_Subset, FS_CardinalityType DEF Promised
<1>2. readWriteableCnt[q][rw] \in 0..MaxLen
  BY DEF TypeOK
<1> QED BY <1>1, <1>2, QueueAssumption DEF Nodes

\* NodesConserved, in terms of Nodes.
LEMMA ConservedSum ==
    ASSUME TypeOK
    PROVE  NodesConserved <=> \A q \in InUse : Nodes(q, "READ") + Nodes(q, "WRITE") = queueLen[q]
<1>1. ASSUME NEW q \in InUse
      PROVE  /\ readWriteableCnt[q]["READ"] \in Nat /\ readWriteableCnt[q]["WRITE"] \in Nat
             /\ Cardinality(Promised(q, "READ")) \in Nat /\ Cardinality(Promised(q, "WRITE")) \in Nat
  BY NodeFacts, QueueAssumption DEF InUse, RW
<1> QED BY <1>1 DEF NodesConserved, Nodes

LEMMA InitIInv == Init => IInv
<1> SUFFICES ASSUME Init PROVE IInv
  OBVIOUS
<1> USE QueueAssumption
<1>1. Calls # {}
  <2>1. PICK q : q \in Queues
    OBVIOUS
  <2>2. [id |-> <<0, q>>, type |-> "READ_HEAD", msg |-> NoMsg] \in Calls
    BY <2>1 DEF Calls, QueueIDs, Operations
  <2> QED BY <2>2
<1>2. FREE_QUEUE_LIST \in Seq(Queues) /\ IsInjective(FREE_QUEUE_LIST)
  <2>1. Cardinality(Queues) \in Nat
    BY FS_CardinalityType
  <2>2. FREE_QUEUE_LIST \in [1..Cardinality(Queues) -> Queues] /\ IsInjective(FREE_QUEUE_LIST)
    BY DEF Init
  <2> QED BY <2>1, <2>2
<1>3. TypeOK
  <2>1. (CHOOSE c \in Calls : TRUE) \in Calls
    BY <1>1
  <2>2. call \in [Tasks -> Calls]
    BY <2>1 DEF Init
  <2>3. 0 \in 0..MaxLen - 1 /\ 1 \in 1..MaxLen /\ 0 \in 0..MaxGen /\ 0 \in 0..MaxLen
    OBVIOUS
  <2> QED BY <1>2, <2>2, <2>3 DEF Init, TypeOK, TaskStatus
<1>4. \A q \in Queues, rw \in RW : /\ readWriteList[q][rw] = <<>>
                                   /\ ToSet(readWriteList[q][rw]) = {}
                                   /\ IsInjective(readWriteList[q][rw])
  BY DEF Init, ToSet, IsInjective
<1>5. FreeListExact
  BY <1>2, ToSetIn DEF Init, FreeListExact
<1>6. Linked
  BY <1>4 DEF Init, Linked, IsPending
<1>7. PromiseHandles /\ NoWaiterBesideCount /\ RingBounds
  BY <1>4 DEF Init, PromiseHandles, NoWaiterBesideCount, RingBounds
<1>8. NodesConserved
  BY DEF Init, NodesConserved, InUse
<1> QED BY <1>3, <1>5, <1>6, <1>7, <1>8 DEF IInv

\* The tasks of R leave the lists they pend on and stop being pending; nobody else's wait
\* and nobody's handle is touched.
LEMMA LinkedStep ==
    ASSUME TypeOK, Linked, NEW R,
           \A q \in Queues, rw \in RW :
               /\ IsInjective(readWriteList'[q][rw])
               /\ ToSet(readWriteList'[q][rw]) = ToSet(readWriteList[q][rw]) \ R,
           \A t \in Tasks : IsPending(t)' <=> IsPending(t) /\ t \notin R,
           \A t \in Tasks : IsPending(t) => call'[t] = call[t],
           UNCHANGED <<queueState, queueGen>>
    PROVE  Linked'
<1>1. ASSUME NEW q \in Queues, NEW rw \in RW, NEW t \in ToSet(readWriteList'[q][rw])
      PROVE  CallsFor(t, q, rw)'
  <2>0. t \in ToSet(readWriteList[q][rw])
    BY <1>1
  <2>1. t \in ToSet(readWriteList[q][rw]) /\ readWriteList[q][rw] \in Seq(Tasks)
    BY <2>0 DEF TypeOK
  <2>2. t \in Tasks
    BY <2>1, ToSetIn
  <2>3. CallsFor(t, q, rw) /\ IsPending(t)
    BY <2>1, <2>2 DEF Linked
  <2> QED BY <2>2, <2>3 DEF CallsFor, IsValid, QueueID
<1>2. ASSUME NEW t \in Tasks
      PROVE  IsPending(t)' <=> \E q \in Queues, rw \in RW : t \in ToSet(readWriteList'[q][rw])
  <2>1. IsPending(t) <=> \E q \in Queues, rw \in RW : t \in ToSet(readWriteList[q][rw])
    BY DEF Linked
  <2>2. \A q \in Queues, rw \in RW :
            t \in ToSet(readWriteList'[q][rw]) <=> t \in ToSet(readWriteList[q][rw]) /\ t \notin R
    OBVIOUS
  <2>3. IsPending(t)' <=> IsPending(t) /\ t \notin R
    OBVIOUS
  <2> QED BY <2>1, <2>2, <2>3
<1> QED BY <1>1, <1>2 DEF Linked

LEMMA RingStep ==
    ASSUME TypeOK, RingBounds, NEW q \in Queues, NEW type \in Operations,
           NEW msg \in Msgs \cup {NoMsg}, OsQueueBufferOperate(q, type, msg), queueLen' = queueLen
    PROVE  /\ queueHead' \in [Queues -> 0..MaxLen - 1]
           /\ queueTail' \in [Queues -> 0..MaxLen - 1]
           /\ queueHandle' \in [Queues -> [0..MaxLen - 1 -> Msgs \cup {NoMsg}]]
           /\ RingBounds'
<1> DEFINE n == queueLen[q]
           next(i) == IF i + 1 = n THEN 0 ELSE i + 1
           prev(i) == IF i = 0 THEN n - 1 ELSE i - 1
<1>1. n \in 1..MaxLen /\ MaxLen \in Nat
  BY QueueAssumption DEF TypeOK
<1>2. /\ queueHead[q] \in 0..n - 1 /\ queueTail[q] \in 0..n - 1
      /\ queueHead \in [Queues -> 0..MaxLen - 1] /\ queueTail \in [Queues -> 0..MaxLen - 1]
      /\ queueHandle \in [Queues -> [0..MaxLen - 1 -> Msgs \cup {NoMsg}]]
  <2>1. queueHead[q] \in Nat /\ queueTail[q] \in Nat /\ queueHead[q] < n /\ queueTail[q] < n
    BY DEF TypeOK, RingBounds
  <2> QED BY <1>1, <2>1 DEF TypeOK
<1>3. ASSUME NEW i \in 0..n - 1 PROVE next(i) \in 0..n - 1 /\ prev(i) \in 0..n - 1
  BY <1>1
<1>4. 0..n - 1 \subseteq 0..MaxLen - 1
  BY <1>1
<1>5. ASSUME NEW i \in 0..n - 1,
             \/ queueHead' = [queueHead EXCEPT ![q] = i] /\ queueTail' = queueTail
             \/ queueTail' = [queueTail EXCEPT ![q] = i] /\ queueHead' = queueHead
      PROVE  /\ queueHead' \in [Queues -> 0..MaxLen - 1]
             /\ queueTail' \in [Queues -> 0..MaxLen - 1]
             /\ RingBounds'
  <2>1. i \in 0..MaxLen - 1 /\ i < n
    BY <1>1, <1>4
  <2> QED BY <1>2, <1>5, <2>1 DEF RingBounds
<1>6. ASSUME NEW i \in 0..n - 1, NEW m \in Msgs \cup {NoMsg},
             queueHandle' = [queueHandle EXCEPT ![q][i] = m]
      PROVE  queueHandle' \in [Queues -> [0..MaxLen - 1 -> Msgs \cup {NoMsg}]]
  BY <1>2, <1>4, <1>6
<1>7. next(queueHead[q]) \in 0..n - 1 /\ prev(queueHead[q]) \in 0..n - 1
      /\ next(queueTail[q]) \in 0..n - 1
  BY <1>2, <1>3
<1>8. CASE type = "READ_HEAD"
  <2>1. /\ queueHandle' = [queueHandle EXCEPT ![q][queueHead[q]] = NoMsg]
        /\ queueHead' = [queueHead EXCEPT ![q] = next(queueHead[q])]
        /\ queueTail' = queueTail
    BY <1>8 DEF OsQueueBufferOperate
  <2> HIDE DEF n, next, prev
  <2> QED BY <1>2, <1>5, <1>6, <1>7, <2>1
<1>9. CASE type = "WRITE_HEAD"
  <2>1. /\ queueHead' = [queueHead EXCEPT ![q] = prev(queueHead[q])]
        /\ queueHandle' = [queueHandle EXCEPT ![q][queueHead'[q]] = msg]
        /\ queueTail' = queueTail
    BY <1>9 DEF OsQueueBufferOperate
  <2> HIDE DEF n, next, prev
  <2>2. queueHead'[q] \in 0..n - 1
    BY <1>2, <1>7, <2>1
  <2> QED BY <1>5, <1>6, <1>7, <2>1, <2>2
<1>10. CASE type = "WRITE_TAIL"
  <2>1. /\ queueHandle' = [queueHandle EXCEPT ![q][queueTail[q]] = msg]
        /\ queueTail' = [queueTail EXCEPT ![q] = next(queueTail[q])]
        /\ queueHead' = queueHead
    BY <1>10 DEF OsQueueBufferOperate
  <2> HIDE DEF n, next, prev
  <2> QED BY <1>2, <1>5, <1>6, <1>7, <2>1
<1> QED BY <1>8, <1>9, <1>10 DEF Operations

\* The first task of a wait list: it pends there, and no node is promised to it yet.
LEMMA FirstWaiter ==
    ASSUME IInv, NEW q \in Queues, NEW rw \in RW, readWriteList[q][rw] # <<>>
    PROVE  /\ Head(readWriteList[q][rw]) \in Tasks
           /\ Head(readWriteList[q][rw]) \in ToSet(readWriteList[q][rw])
           /\ IsPending(Head(readWriteList[q][rw]))
           /\ CallsFor(Head(readWriteList[q][rw]), q, rw)
           /\ Head(readWriteList[q][rw]) \notin abandoned
           /\ Tail(readWriteList[q][rw]) \in Seq(Tasks)
           /\ IsInjective(Tail(readWriteList[q][rw]))
           /\ ToSet(Tail(readWriteList[q][rw]))
                = ToSet(readWriteList[q][rw]) \ {Head(readWriteList[q][rw])}
<1> DEFINE l == readWriteList[q][rw]
           w == Head(l)
<1>1. l \in Seq(Tasks) /\ IsInjective(l)
  BY DEF IInv, TypeOK, Linked
<1>2. /\ Tail(l) \in Seq(Tasks) /\ w \in Tasks /\ ToSet(l) = ToSet(Tail(l)) \cup {w}
      /\ IsInjective(Tail(l)) /\ w \notin ToSet(Tail(l))
  BY <1>1, TailList
<1>3. IsPending(w) /\ CallsFor(w, q, rw)
  BY <1>2 DEF IInv, Linked
<1>4. w \notin abandoned
  BY <1>3 DEF IInv, PromiseHandles, IsPending
<1> QED BY <1>2, <1>3, <1>4

\* What a pending task waits for is fixed by the arguments of its call, so it is on one
\* list only.
LEMMA OneList ==
    ASSUME IInv, NEW q \in Queues, NEW rw \in RW, NEW t \in ToSet(readWriteList[q][rw]),
           NEW p \in Queues, NEW x \in RW, t \in ToSet(readWriteList[p][x])
    PROVE  p = q /\ x = rw
BY DEF IInv, Linked, CallsFor

(***************************************************************************)
(* The end of OsQueueOperate.  Task t operates on queue q, with a node it  *)
(* has just taken from the count or was promised when it was woken; the    *)
(* node moves to the other side of the queue.                              *)
(***************************************************************************)
FinishContext(t, q, type, msg, cnt) ==
    LET rw == ReadWrite(type) IN
    /\ taskStatus[t] \in {"RUN", "WOKEN"}
    /\ queueState[q] = "INUSED"
    /\ Finish(q, type, msg, [taskStatus EXCEPT ![t] = "RUN"], cnt)
    /\ call' \in [Tasks -> Calls]
    /\ \A u \in Tasks : u # t => call'[u] = call[u]
    /\ UNCHANGED <<FREE_QUEUE_LIST, queueState, queueGen, queueLen, abandoned>>
    /\ cnt \in [Queues -> [RW -> 0..MaxLen]]
    /\ \A p \in Queues, x \in RW : p # q \/ x # rw => cnt[p][x] = readWriteableCnt[p][x]
    /\ \/ taskStatus[t] = "RUN" /\ cnt[q][rw] = readWriteableCnt[q][rw] - 1
       \/ /\ taskStatus[t] = "WOKEN" /\ cnt[q][rw] = readWriteableCnt[q][rw]
          /\ call[t].id[2] = q /\ ReadWrite(call[t].type) = rw

\* The tasks W that t wakes, and who owns a promised node after t has finished.
FinishEffect(t, q, type, W) ==
    LET rw == ReadWrite(type)
        waiting == readWriteList[q][Other(rw)]
    IN
    /\ W = IF waiting # <<>> THEN {Head(waiting)} ELSE {}
    /\ t \notin W /\ t \notin abandoned
    /\ \A u \in W : IsPending(u) /\ u \notin abandoned /\ CallsFor(u, q, Other(rw))
    /\ \A u \in Tasks : taskStatus'[u] = IF u \in W THEN "WOKEN"
                                         ELSE IF u = t THEN "RUN" ELSE taskStatus[u]
    /\ \A p \in Queues, x \in RW :
          Promised(p, x)' = IF p = q /\ x = rw THEN Promised(p, x) \ {t}
                            ELSE IF p = q THEN Promised(p, x) \cup W
                            ELSE Promised(p, x)

LEMMA FinishPromised ==
    ASSUME IInv, NEW t \in Tasks, NEW q \in Queues, NEW type \in Operations,
           NEW msg \in Msgs \cup {NoMsg}, NEW cnt, FinishContext(t, q, type, msg, cnt)
    PROVE  \E W \in SUBSET Tasks : FinishEffect(t, q, type, W)
<1> DEFINE rw == ReadWrite(type)
           o == Other(rw)
           l == readWriteList[q][o]
<1>0. TypeOK /\ rw \in RW /\ o \in RW /\ o # rw /\ RW = {rw, o}
  BY OtherFacts DEF IInv
<1>w. PICK W : W = IF l # <<>> THEN {Head(l)} ELSE {}
  OBVIOUS
<1>1. l # <<>> => W = {Head(l)}
  BY <1>w
<1>2. l = <<>> => W = {}
  BY <1>w
<1>3. /\ W \subseteq Tasks
      /\ \A u \in W : IsPending(u) /\ u \notin abandoned /\ CallsFor(u, q, o)
  <2>1. CASE l # <<>>
    BY <2>1, <1>0, <1>1, FirstWaiter
  <2>2. CASE l = <<>>
    BY <2>2, <1>2
  <2> QED BY <2>1, <2>2
<1>4. t \notin W /\ t \notin abandoned
  BY <1>3 DEF IInv, PromiseHandles, IsPending, FinishContext
<1>5. ASSUME NEW u \in Tasks
      PROVE  taskStatus'[u] = IF u \in W THEN "WOKEN" ELSE IF u = t THEN "RUN" ELSE taskStatus[u]
  <2>1. CASE l # <<>>
    <3>1. taskStatus' = [[taskStatus EXCEPT ![t] = "RUN"] EXCEPT ![Head(l)] = "WOKEN"]
      BY <2>1 DEF FinishContext, Finish
    <3> HIDE DEF l
    <3> QED BY <3>1, <2>1, <1>0, <1>1, <1>3 DEF TypeOK
  <2>2. CASE l = <<>>
    <3>1. taskStatus' = [taskStatus EXCEPT ![t] = "RUN"]
      BY <2>2 DEF FinishContext, Finish
    <3> QED BY <3>1, <2>2, <1>0, <1>2 DEF TypeOK
  <2> QED BY <2>1, <2>2
<1> HIDE DEF l
<1>6. ASSUME NEW p \in Queues, NEW x \in RW, NEW u \in Tasks, u # t
      PROVE  u \in Promised(p, x)' <=> u \in Promised(p, x) \/ (u \in W /\ p = q /\ x = o)
  <2>1. call'[u] = call[u] /\ abandoned' = abandoned
    BY <1>6 DEF FinishContext
  <2>2. taskStatus'[u] = "WOKEN" <=> u \in W \/ taskStatus[u] = "WOKEN"
    BY <1>5, <1>6
  <2>3. u \in W => call[u].id[2] = q /\ ReadWrite(call[u].type) = o
    BY <1>3 DEF CallsFor
  <2> QED BY <2>1, <2>2, <2>3 DEF Promised
<1>7. ASSUME NEW p \in Queues, NEW x \in RW PROVE t \notin Promised(p, x)'
  BY <1>4, <1>5 DEF Promised, FinishContext
<1>8. ASSUME NEW p \in Queues, NEW x \in RW, p # q \/ x # rw PROVE t \notin Promised(p, x)
  BY <1>4, <1>8 DEF Promised, FinishContext
<1>9. ASSUME NEW p \in Queues, NEW x \in RW
      PROVE  Promised(p, x)' = IF p = q /\ x = rw THEN Promised(p, x) \ {t}
                               ELSE IF p = q THEN Promised(p, x) \cup W
                               ELSE Promised(p, x)
  <2>1. Promised(p, x) \subseteq Tasks /\ Promised(p, x)' \subseteq Tasks
    BY DEF Promised
  <2>2. CASE p = q /\ x = rw
    BY <2>1, <2>2, <1>0, <1>6, <1>7
  <2>3. CASE p = q /\ x # rw
    BY <2>1, <2>3, <1>0, <1>3, <1>4, <1>6, <1>7, <1>8
  <2>4. CASE p # q
    <3>1. \A u \in Tasks : u \in Promised(p, x)' <=> u \in Promised(p, x)
      BY <2>4, <1>6, <1>7, <1>8
    <3>2. Promised(p, x)' = Promised(p, x)
      BY <2>1, <3>1
    <3> QED BY <3>2, <2>4
  <2> QED BY <2>2, <2>3, <2>4
<1> QED BY <1>w, <1>3, <1>4, <1>5, <1>9 DEF FinishEffect, l

\* A node of q moves from side rw to the other one, counted or promised.
NodeMoves(q, rw) ==
    \A p \in Queues, x \in RW :
        /\ readWriteableCnt'[p][x] \in Nat /\ Cardinality(Promised(p, x)') \in Nat
        /\ Nodes(p, x)' = IF p # q THEN Nodes(p, x)
                          ELSE IF x = rw THEN Nodes(p, x) - 1 ELSE Nodes(p, x) + 1

LEMMA FinishNodes ==
    ASSUME IInv, NEW t \in Tasks, NEW q \in Queues, NEW type \in Operations,
           NEW msg \in Msgs \cup {NoMsg}, NEW cnt, FinishContext(t, q, type, msg, cnt)
    PROVE  NodeMoves(q, ReadWrite(type))
<1>w. PICK W \in SUBSET Tasks : FinishEffect(t, q, type, W)
  BY FinishPromised
<1> DEFINE rw == ReadWrite(type)
           o == Other(rw)
           l == readWriteList[q][o]
<1>0. TypeOK /\ rw \in RW /\ o \in RW /\ o # rw /\ RW = {rw, o}
  BY OtherFacts DEF IInv
<1>1. /\ W = IF l # <<>> THEN {Head(l)} ELSE {}
      /\ t \notin abandoned
      /\ \A u \in W : IsPending(u) /\ u \notin abandoned
      /\ \A p \in Queues, x \in RW :
            Promised(p, x)' = IF p = q /\ x = rw THEN Promised(p, x) \ {t}
                              ELSE IF p = q THEN Promised(p, x) \cup W
                              ELSE Promised(p, x)
  BY <1>w DEF FinishEffect
<1>2. cnt \in [Queues -> [RW -> 0..MaxLen]] /\ MaxLen \in Nat
  BY QueueAssumption DEF FinishContext
<1>3. SUFFICES ASSUME NEW p \in Queues, NEW x \in RW
               PROVE  /\ readWriteableCnt'[p][x] \in Nat /\ Cardinality(Promised(p, x)') \in Nat
                      /\ Nodes(p, x)' = IF p # q THEN Nodes(p, x)
                                        ELSE IF x = rw THEN Nodes(p, x) - 1
                                        ELSE Nodes(p, x) + 1
  BY DEF NodeMoves
<1>4. /\ IsFiniteSet(Promised(p, x)) /\ Cardinality(Promised(p, x)) \in Nat
      /\ readWriteableCnt[p][x] \in Nat
  BY <1>0, <1>2, NodeFacts
<1>5. /\ cnt[p][x] \in Nat
      /\ readWriteableCnt'[p][x] = IF p = q /\ x = o /\ l = <<>> THEN cnt[p][x] + 1 ELSE cnt[p][x]
  <2>1. cnt[p][x] \in Nat
    BY <1>2
  <2>2. CASE l # <<>>
    <3>1. readWriteableCnt' = cnt
      BY <2>2 DEF FinishContext, Finish
    <3> QED BY <3>1, <2>1, <2>2
  <2>3. CASE l = <<>>
    <3>1. readWriteableCnt' = [cnt EXCEPT ![q][o] = @ + 1]
      BY <2>3 DEF FinishContext, Finish
    <3> HIDE DEF l, o
    <3> QED BY <3>1, <2>1, <2>3, <1>0, <1>2
  <2> QED BY <2>2, <2>3
<1>6. Nodes(p, x)' = readWriteableCnt'[p][x] + Cardinality(Promised(p, x)')
  BY DEF Nodes
<1>7. CASE p # q
  <2>1. Promised(p, x)' = Promised(p, x) /\ readWriteableCnt'[p][x] = readWriteableCnt[p][x]
    BY <1>1, <1>5, <1>7 DEF FinishContext
  <2> QED BY <2>1, <1>4, <1>6, <1>7 DEF Nodes
<1>8. CASE p = q /\ x = rw
  <2>1. Promised(p, x)' = Promised(p, x) \ {t} /\ readWriteableCnt'[p][x] = cnt[p][x]
    BY <1>0, <1>1, <1>5, <1>8
  <2>2. Cardinality(Promised(p, x)') = IF t \in Promised(p, x) THEN Cardinality(Promised(p, x)) - 1
                                       ELSE Cardinality(Promised(p, x))
    BY <2>1, <1>4, FS_RemoveElement
  <2>3. IsFiniteSet(Promised(p, x)')
    BY <2>1, <1>4, FS_RemoveElement
  <2>4. Cardinality(Promised(p, x)') \in Nat
    BY <2>3, FS_CardinalityType
  <2>5. t \in Promised(p, x) <=> taskStatus[t] = "WOKEN"
    BY <1>1, <1>8 DEF Promised, FinishContext
  <2>6. cnt[p][x] = IF taskStatus[t] = "WOKEN" THEN readWriteableCnt[p][x]
                    ELSE readWriteableCnt[p][x] - 1
    BY <1>8 DEF FinishContext
  <2> QED BY <2>1, <2>2, <2>4, <2>5, <2>6, <1>4, <1>5, <1>6, <1>8 DEF Nodes
<1>9. CASE p = q /\ x # rw
  <2>0. x = o /\ cnt[p][x] = readWriteableCnt[p][x]
    BY <1>0, <1>9 DEF FinishContext
  <2>1. Promised(p, x)' = Promised(p, x) \cup W
    BY <1>1, <1>9
  <2>2. CASE l # <<>>
    <3>1. W = {Head(l)} /\ Head(l) \notin Promised(p, x)
      BY <2>2, <1>1 DEF Promised, IsPending
    <3>2. Cardinality(Promised(p, x)') = Cardinality(Promised(p, x)) + 1
      BY <3>1, <2>1, <1>4, FS_AddElement
    <3> QED BY <3>2, <2>0, <2>2, <1>4, <1>5, <1>6, <1>9 DEF Nodes
  <2>3. CASE l = <<>>
    <3>1. Promised(p, x)' = Promised(p, x)
      BY <2>1, <2>3, <1>1
    <3> QED BY <3>1, <2>0, <2>3, <1>4, <1>5, <1>6, <1>9 DEF Nodes
  <2> QED BY <2>2, <2>3
<1> QED BY <1>7, <1>8, <1>9

LEMMA FinishStep ==
    ASSUME IInv, NEW t \in Tasks, NEW q \in Queues, NEW type \in Operations,
           NEW msg \in Msgs \cup {NoMsg}, NEW cnt, FinishContext(t, q, type, msg, cnt)
    PROVE  IInv'
<1>w. PICK W \in SUBSET Tasks : FinishEffect(t, q, type, W)
  BY FinishPromised
<1>n. \A p \in Queues, x \in RW :
          /\ readWriteableCnt'[p][x] \in Nat /\ Cardinality(Promised(p, x)') \in Nat
          /\ Nodes(p, x)' = IF p # q THEN Nodes(p, x)
                            ELSE IF x = ReadWrite(type) THEN Nodes(p, x) - 1
                            ELSE Nodes(p, x) + 1
  <2>1. NodeMoves(q, ReadWrite(type))
    BY FinishNodes
  <2> QED BY <2>1 DEF NodeMoves
<1> DEFINE rw == ReadWrite(type)
           o == Other(rw)
           l == readWriteList[q][o]
<1>0. TypeOK /\ rw \in RW /\ o \in RW /\ o # rw /\ RW = {rw, o}
  BY OtherFacts DEF IInv
<1>1. /\ W = IF l # <<>> THEN {Head(l)} ELSE {}
      /\ t \notin W /\ t \notin abandoned
      /\ \A u \in W : IsPending(u) /\ u \notin abandoned /\ CallsFor(u, q, o)
      /\ \A u \in Tasks : taskStatus'[u] = IF u \in W THEN "WOKEN"
                                           ELSE IF u = t THEN "RUN" ELSE taskStatus[u]
  BY <1>w DEF FinishEffect
<1>2. /\ taskStatus[t] \in {"RUN", "WOKEN"} /\ queueState[q] = "INUSED"
      /\ call' \in [Tasks -> Calls] /\ \A u \in Tasks : u # t => call'[u] = call[u]
      /\ UNCHANGED <<FREE_QUEUE_LIST, queueState, queueGen, queueLen, abandoned>>
      /\ cnt \in [Queues -> [RW -> 0..MaxLen]]
  BY DEF FinishContext
<1>3. OsQueueBufferOperate(q, type, msg)
  BY DEF FinishContext, Finish
<1>4. /\ queueHead' \in [Queues -> 0..MaxLen - 1]
      /\ queueTail' \in [Queues -> 0..MaxLen - 1]
      /\ queueHandle' \in [Queues -> [0..MaxLen - 1 -> Msgs \cup {NoMsg}]]
      /\ RingBounds'
  BY <1>2, <1>3, RingStep DEF IInv
<1>5. ASSUME NEW p \in Queues, NEW x \in RW
      PROVE  /\ readWriteList'[p][x] \in Seq(Tasks)
             /\ IsInjective(readWriteList'[p][x])
             /\ ToSet(readWriteList'[p][x]) = ToSet(readWriteList[p][x]) \ W
             /\ readWriteList'[p][x] # <<>> => readWriteList[p][x] # <<>>
             /\ readWriteList' \in [Queues -> [RW -> Seq(Tasks)]]
  <2>0. readWriteList[p][x] \in Seq(Tasks) /\ IsInjective(readWriteList[p][x])
    BY DEF IInv, TypeOK, Linked
  <2>1. CASE l # <<>>
    <3>1. /\ W = {Head(l)} /\ Head(l) \in ToSet(l) /\ Tail(l) \in Seq(Tasks)
          /\ IsInjective(Tail(l)) /\ ToSet(Tail(l)) = ToSet(l) \ {Head(l)}
      BY <2>1, <1>0, <1>1, FirstWaiter
    <3>2. readWriteList' = [readWriteList EXCEPT ![q][o] = Tail(l)]
      BY <2>1 DEF FinishContext, Finish
    <3>3. p # q \/ x # o => Head(l) \notin ToSet(readWriteList[p][x])
      BY <3>1, <1>0, OneList
    <3> HIDE DEF l, o
    <3>4. readWriteList' \in [Queues -> [RW -> Seq(Tasks)]]
      BY <3>1, <3>2, <1>0 DEF TypeOK
    <3>5. CASE p = q /\ x = o
      <4>1. readWriteList'[p][x] = Tail(l) /\ readWriteList[p][x] = l
        BY <3>2, <3>5, <1>0 DEF TypeOK, l
      <4> QED BY <4>1, <3>1, <3>4, <2>1
    <3>6. CASE p # q \/ x # o
      <4>1. readWriteList'[p][x] = readWriteList[p][x]
        BY <3>2, <3>6, <1>0 DEF TypeOK
      <4> QED BY <4>1, <3>1, <3>3, <3>4, <3>6, <2>0
    <3> QED BY <3>5, <3>6
  <2>2. CASE l = <<>>
    <3>1. readWriteList' = readWriteList
      BY <2>2 DEF FinishContext, Finish
    <3> QED BY <3>1, <2>0, <2>2, <1>0, <1>1 DEF TypeOK
  <2> QED BY <2>1, <2>2
<1>6. readWriteableCnt' \in [Queues -> [RW -> Nat]]
  <2>1. cnt \in [Queues -> [RW -> Nat]]
    BY <1>2, QueueAssumption
  <2>2. CASE l # <<>>
    BY <2>1, <2>2 DEF FinishContext, Finish
  <2>3. CASE l = <<>>
    <3>1. readWriteableCnt' = [cnt EXCEPT ![q][o] = @ + 1]
      BY <2>3 DEF FinishContext, Finish
    <3>2. cnt[q][o] + 1 \in Nat
      BY <2>1, <1>0
    <3> HIDE DEF o
    <3> QED BY <2>1, <3>1, <3>2, <1>0
  <2> QED BY <2>2, <2>3
<1> HIDE DEF l
<1>7. \A p \in InUse' : p \in InUse /\ Nodes(p, "READ")' + Nodes(p, "WRITE")' = queueLen[p]
  <2>1. SUFFICES ASSUME NEW p \in InUse' PROVE p \in InUse /\ Nodes(p, "READ")' + Nodes(p, "WRITE")' = queueLen[p]
    OBVIOUS
  <2>2. p \in InUse /\ p \in Queues
    BY <2>1, <1>2 DEF InUse
  <2>3. Nodes(p, "READ") + Nodes(p, "WRITE") = queueLen[p]
    BY <1>0, <2>2, ConservedSum DEF IInv
  <2>4. Nodes(p, "READ") \in Nat /\ Nodes(p, "WRITE") \in Nat
    BY <1>0, <2>2, NodeFacts DEF RW
  <2>5. \/ Nodes(p, "READ")' = Nodes(p, "READ") /\ Nodes(p, "WRITE")' = Nodes(p, "WRITE")
        \/ Nodes(p, "READ")' = Nodes(p, "READ") - 1 /\ Nodes(p, "WRITE")' = Nodes(p, "WRITE") + 1
        \/ Nodes(p, "READ")' = Nodes(p, "READ") + 1 /\ Nodes(p, "WRITE")' = Nodes(p, "WRITE") - 1
    BY <1>n, <2>2 DEF RW, ReadWrite
  <2> QED BY <2>2, <2>3, <2>4, <2>5
<1>8. readWriteableCnt' \in [Queues -> [RW -> 0..MaxLen]]
  <2>1. SUFFICES ASSUME NEW p \in Queues, NEW x \in RW PROVE readWriteableCnt'[p][x] \in 0..MaxLen
    BY <1>6
  <2>2. CASE p = q
    <3>1. p \in InUse' /\ queueLen[p] \in 0..MaxLen /\ MaxLen \in Nat
      <4>1. p \in InUse'
        BY <1>2, <2>2 DEF InUse
      <4>2. queueLen[p] \in 1..MaxLen
        BY <1>0 DEF TypeOK
      <4> QED BY <4>1, <4>2, QueueAssumption
    <3>2. Nodes(p, "READ")' + Nodes(p, "WRITE")' = queueLen[p]
      BY <3>1, <1>7
    <3>3. /\ readWriteableCnt'[p]["READ"] \in Nat /\ Cardinality(Promised(p, "READ")') \in Nat
          /\ readWriteableCnt'[p]["WRITE"] \in Nat /\ Cardinality(Promised(p, "WRITE")') \in Nat
      BY <1>n DEF RW
    <3>4. readWriteableCnt'[p]["READ"] <= queueLen[p] /\ readWriteableCnt'[p]["WRITE"] <= queueLen[p]
      BY <3>1, <3>2, <3>3 DEF Nodes
    <3> QED BY <3>1, <3>3, <3>4 DEF RW
  <2>3. CASE p # q
    <3>1. readWriteableCnt'[p] = cnt[p]
      BY <1>2, <2>3 DEF FinishContext, Finish
    <3> QED BY <3>1, <1>2
  <2> QED BY <2>2, <2>3
<1>9. TypeOK'
  <2>1. taskStatus' \in [Tasks -> TaskStatus]
    <3>1. taskStatus \in [Tasks -> TaskStatus] /\ "RUN" \in TaskStatus /\ "WOKEN" \in TaskStatus
      BY <1>0 DEF TypeOK, TaskStatus
    <3>2. \E w : \/ taskStatus' = [[taskStatus EXCEPT ![t] = "RUN"] EXCEPT ![w] = "WOKEN"]
                 \/ taskStatus' = [taskStatus EXCEPT ![t] = "RUN"]
      BY DEF FinishContext, Finish
    <3> QED BY <3>1, <3>2
  <2>2. readWriteList' \in [Queues -> [RW -> Seq(Tasks)]]
    BY <1>0, <1>5
  <2> QED BY <2>1, <2>2, <1>0, <1>2, <1>4, <1>8 DEF TypeOK
<1>10. FreeListExact'
  BY <1>2 DEF IInv, FreeListExact
<1>11. Linked'
  <2>1. \A p \in Queues, x \in RW : /\ IsInjective(readWriteList'[p][x])
                                    /\ ToSet(readWriteList'[p][x]) = ToSet(readWriteList[p][x]) \ W
    BY <1>5
  <2>2. \A u \in Tasks : IsPending(u)' <=> IsPending(u) /\ u \notin W
    BY <1>1, <1>2 DEF IsPending
  <2>3. \A u \in Tasks : IsPending(u) => call'[u] = call[u]
    BY <1>2 DEF IsPending
  <2> QED BY <2>1, <2>2, <2>3, <1>0, <1>2, LinkedStep DEF IInv
<1>12. PromiseHandles'
  <2>1. \A h : IsValid(h)' = IsValid(h)
    BY <1>2 DEF IsValid, QueueID
  <2>2. ASSUME NEW u \in Tasks, taskStatus'[u] = "WOKEN" \/ u \in abandoned'
        PROVE  IsValid(call[u].id)'
    <3>1. u # t /\ (u \in W \/ taskStatus[u] = "WOKEN" \/ u \in abandoned)
      BY <2>2, <1>1, <1>2
    <3>2. IsValid(call[u].id)
      BY <3>1, <1>1 DEF IInv, PromiseHandles, CallsFor
    <3>3. call'[u] = call[u]
      BY <3>1, <1>2
    <3> QED BY <3>2, <3>3, <1>2 DEF IsValid, QueueID
  <2>3. ASSUME NEW u \in abandoned' PROVE taskStatus'[u] = "UNUSED"
    <3>1. u \in abandoned /\ u \in Tasks /\ u # t /\ u \notin W
      BY <2>3, <1>0, <1>1, <1>2 DEF TypeOK
    <3> QED BY <3>1, <1>1 DEF IInv, PromiseHandles
  <2> QED BY <2>2, <2>3 DEF PromiseHandles
<1>13. NoWaiterBesideCount'
  <2>1. SUFFICES ASSUME NEW p \in Queues, NEW x \in RW, readWriteList'[p][x] # <<>>
                 PROVE  readWriteableCnt'[p][x] = 0
    BY DEF NoWaiterBesideCount
  <2>2. readWriteList[p][x] # <<>>
    BY <2>1, <1>5
  <2>3. readWriteableCnt[p][x] = 0
    BY <2>2 DEF IInv, NoWaiterBesideCount
  <2>4. cnt[p][x] = 0
    <3>1. CASE p = q /\ x = rw
      <4>1. cnt[p][x] \in Nat /\ (cnt[p][x] = 0 \/ cnt[p][x] = 0 - 1)
        BY <3>1, <2>3, <1>2, QueueAssumption DEF FinishContext
      <4> QED BY <4>1
    <3>2. CASE p # q \/ x # rw
      BY <3>2, <2>3 DEF FinishContext
    <3> QED BY <3>1, <3>2
  <2>5. readWriteableCnt'[p][x] = cnt[p][x]
    <3>1. CASE p = q /\ x = o
      <4>1. l # <<>>
        BY <3>1, <2>2 DEF l
      <4>2. readWriteableCnt' = cnt
        BY <4>1 DEF FinishContext, Finish, l
      <4> QED BY <4>2
    <3>2. CASE p # q \/ x # o
      <4> HIDE DEF o
      <4>1. readWriteableCnt' = cnt \/ readWriteableCnt' = [cnt EXCEPT ![q][o] = @ + 1]
        BY DEF FinishContext, Finish, o
      <4> QED BY <4>1, <3>2, <1>0, <1>2
    <3> QED BY <3>1, <3>2
  <2> QED BY <2>4, <2>5
<1>14. NodesConserved'
  <2>1. \A p \in InUse' : Nodes(p, "READ")' + Nodes(p, "WRITE")' = queueLen'[p]
    BY <1>2, <1>7
  <2>2. ASSUME NEW p \in InUse'
        PROVE  /\ readWriteableCnt'[p]["READ"] \in Nat /\ Cardinality(Promised(p, "READ")') \in Nat
               /\ readWriteableCnt'[p]["WRITE"] \in Nat /\ Cardinality(Promised(p, "WRITE")') \in Nat
    BY <1>n DEF RW, InUse
  <2> QED BY <2>1, <2>2 DEF NodesConserved, Nodes
<1> QED BY <1>4, <1>9, <1>10, <1>11, <1>12, <1>13, <1>14 DEF IInv

\* A step that leaves the control blocks and the rings alone and changes neither who has
\* been promised a node nor what a waiting task waits for: a timeout, a deletion of a task,
\* a return after a timeout.  R are the tasks that leave their wait list.
LEMMA QuietStep ==
    ASSUME IInv, NEW R \in SUBSET Tasks,
           taskStatus' \in [Tasks -> TaskStatus], abandoned' \in SUBSET Tasks,
           readWriteList' \in [Queues -> [RW -> Seq(Tasks)]],
           UNCHANGED <<FREE_QUEUE_LIST, queueState, queueGen, queueLen, ringVars,
                       readWriteableCnt, call>>,
           \A q \in Queues, rw \in RW :
               /\ IsInjective(readWriteList'[q][rw])
               /\ ToSet(readWriteList'[q][rw]) = ToSet(readWriteList[q][rw]) \ R,
           \A t \in Tasks : IsPending(t)' <=> IsPending(t) /\ t \notin R,
           \A t \in Tasks : (taskStatus'[t] = "WOKEN" \/ t \in abandoned')
                              <=> (taskStatus[t] = "WOKEN" \/ t \in abandoned),
           \A t \in abandoned' : taskStatus'[t] = "UNUSED"
    PROVE  IInv'
<1>0. TypeOK
  BY DEF IInv
<1>1. TypeOK'
  BY <1>0 DEF TypeOK, ringVars
<1>2. FreeListExact' /\ RingBounds'
  BY DEF IInv, FreeListExact, RingBounds, ringVars
<1>3. Linked'
  BY <1>0, LinkedStep DEF IInv
<1>4. PromiseHandles'
  BY DEF IInv, PromiseHandles, IsValid, QueueID
<1>5. NoWaiterBesideCount'
  <2>1. SUFFICES ASSUME NEW q \in Queues, NEW rw \in RW, readWriteList'[q][rw] # <<>>
                 PROVE  readWriteableCnt[q][rw] = 0
    BY DEF NoWaiterBesideCount
  <2>2. readWriteList[q][rw] \in Seq(Tasks) /\ readWriteList'[q][rw] \in Seq(Tasks)
    BY <1>0 DEF TypeOK
  <2>3. ToSet(readWriteList'[q][rw]) # {}
    BY <2>1, <2>2, ToSetIn
  <2>4. ToSet(readWriteList[q][rw]) # {}
    BY <2>3
  <2>5. readWriteList[q][rw] # <<>>
    BY <2>2, <2>4, ToSetIn
  <2> QED BY <2>5 DEF IInv, NoWaiterBesideCount
<1>6. NodesConserved'
  <2>1. \A q \in Queues, rw \in RW : Promised(q, rw)' = Promised(q, rw)
    BY DEF Promised
  <2> QED BY <2>1 DEF IInv, NodesConserved, InUse, RW
<1> QED BY <1>1, <1>2, <1>3, <1>4, <1>5, <1>6 DEF IInv

\* Unlinking a task from every wait list removes it from the one it is on.
LEMMA UnlinkLists ==
    ASSUME IInv, NEW t \in Tasks, Unlink(t)
    PROVE  /\ readWriteList' \in [Queues -> [RW -> Seq(Tasks)]]
           /\ \A q \in Queues, rw \in RW :
                 /\ IsInjective(readWriteList'[q][rw])
                 /\ ToSet(readWriteList'[q][rw]) = ToSet(readWriteList[q][rw]) \ {t}
<1>1. ASSUME NEW q \in Queues, NEW rw \in RW
      PROVE  /\ LOS_ListDelete(readWriteList[q][rw], t) \in Seq(Tasks)
             /\ IsInjective(LOS_ListDelete(readWriteList[q][rw], t))
             /\ ToSet(LOS_ListDelete(readWriteList[q][rw], t)) = ToSet(readWriteList[q][rw]) \ {t}
  <2>1. readWriteList[q][rw] \in Seq(Tasks) /\ IsInjective(readWriteList[q][rw])
    BY DEF IInv, TypeOK, Linked
  <2> QED BY <2>1, DeleteList
<1>2. ASSUME NEW q \in Queues, NEW rw \in RW
      PROVE  readWriteList'[q][rw] = LOS_ListDelete(readWriteList[q][rw], t)
  BY DEF Unlink
<1>3. readWriteList' \in [Queues -> [RW -> Seq(Tasks)]]
  BY <1>1 DEF Unlink
<1> QED BY <1>1, <1>2, <1>3

LEMMA TimeoutStep ==
    ASSUME IInv, NEW t \in Tasks, QueueTimeout(t), UNCHANGED abandoned
    PROVE  IInv'
<1>0. TypeOK
  BY DEF IInv
<1>1. taskStatus[t] = "PEND_TIME" /\ taskStatus' = [taskStatus EXCEPT ![t] = "TIMEOUT"]
  BY DEF QueueTimeout, SchedTimeoutTaskWake
<1>2. taskStatus' \in [Tasks -> TaskStatus]
  BY <1>0, <1>1 DEF TypeOK, TaskStatus
<1>3. \A u \in Tasks : IsPending(u)' <=> IsPending(u) /\ u \notin {t}
  BY <1>0, <1>1 DEF TypeOK, IsPending
<1>4. \A u \in Tasks : taskStatus'[u] = "WOKEN" <=> taskStatus[u] = "WOKEN"
  BY <1>0, <1>1 DEF TypeOK
<1>5. \A u \in abandoned' : taskStatus'[u] = "UNUSED"
  BY <1>0, <1>1 DEF IInv, PromiseHandles, TypeOK
<1>6. Unlink(t) /\ UNCHANGED <<FREE_QUEUE_LIST, queueState, queueGen, queueLen, ringVars,
                               readWriteableCnt, call>>
  BY DEF QueueTimeout
<1>7. {t} \in SUBSET Tasks /\ abandoned' \in SUBSET Tasks
  BY <1>0 DEF TypeOK
<1> QED BY <1>2, <1>3, <1>4, <1>5, <1>6, <1>7, UnlinkLists, QuietStep

LEMMA TaskDeleteStep ==
    ASSUME IInv, NEW t \in Tasks, LOS_TaskDelete(t)
    PROVE  IInv'
<1>0. TypeOK
  BY DEF IInv
<1>1. /\ taskStatus' = [taskStatus EXCEPT ![t] = "UNUSED"]
      /\ abandoned' = IF taskStatus[t] = "WOKEN" THEN abandoned \cup {t} ELSE abandoned
  BY DEF LOS_TaskDelete
<1>2. taskStatus' \in [Tasks -> TaskStatus]
  BY <1>0, <1>1 DEF TypeOK, TaskStatus
<1>3. \A u \in Tasks : IsPending(u)' <=> IsPending(u) /\ u \notin {t}
  BY <1>0, <1>1 DEF TypeOK, IsPending
<1>4. \A u \in Tasks : (taskStatus'[u] = "WOKEN" \/ u \in abandoned')
                         <=> (taskStatus[u] = "WOKEN" \/ u \in abandoned)
  BY <1>0, <1>1 DEF TypeOK
<1>5. \A u \in abandoned' : taskStatus'[u] = "UNUSED"
  BY <1>0, <1>1 DEF IInv, PromiseHandles, TypeOK
<1>6. Unlink(t) /\ UNCHANGED <<FREE_QUEUE_LIST, queueState, queueGen, queueLen, ringVars,
                               readWriteableCnt, call>>
  BY DEF LOS_TaskDelete
<1>7. {t} \in SUBSET Tasks /\ abandoned' \in SUBSET Tasks
  BY <1>0, <1>1 DEF TypeOK
<1> QED BY <1>2, <1>3, <1>4, <1>5, <1>6, <1>7, UnlinkLists, QuietStep

LEMMA TimedOutStep ==
    ASSUME IInv, NEW t \in Tasks, QueueOperateTimedOut(t), UNCHANGED abandoned
    PROVE  IInv'
<1>0. TypeOK
  BY DEF IInv
<1>1. taskStatus[t] = "TIMEOUT" /\ taskStatus' = [taskStatus EXCEPT ![t] = "RUN"]
  BY DEF QueueOperateTimedOut, HPFWaitReturn
<1>2. taskStatus' \in [Tasks -> TaskStatus]
  BY <1>0, <1>1 DEF TypeOK, TaskStatus
<1>3. \A u \in Tasks : IsPending(u)' <=> IsPending(u) /\ u \notin {}
  BY <1>0, <1>1 DEF TypeOK, IsPending
<1>4. \A u \in Tasks : taskStatus'[u] = "WOKEN" <=> taskStatus[u] = "WOKEN"
  BY <1>0, <1>1 DEF TypeOK
<1>5. \A u \in abandoned' : taskStatus'[u] = "UNUSED"
  BY <1>0, <1>1 DEF IInv, PromiseHandles, TypeOK
<1>6. UNCHANGED <<FREE_QUEUE_LIST, queueState, queueGen, queueLen, ringVars,
                  readWriteableCnt, readWriteList, call>>
  BY DEF QueueOperateTimedOut
<1>7. {} \in SUBSET Tasks /\ abandoned' \in SUBSET Tasks
  BY <1>0 DEF TypeOK
<1>8. /\ readWriteList' \in [Queues -> [RW -> Seq(Tasks)]]
      /\ \A q \in Queues, rw \in RW :
            /\ IsInjective(readWriteList'[q][rw])
            /\ ToSet(readWriteList'[q][rw]) = ToSet(readWriteList[q][rw]) \ {}
  BY <1>0, <1>6 DEF IInv, TypeOK, Linked
<1> QED BY <1>2, <1>3, <1>4, <1>5, <1>6, <1>7, <1>8, QuietStep

\* A woken task finishes with the node it was promised.
LEMMA WokenContext ==
    ASSUME IInv, NEW t \in Tasks, QueueOperateWoken(t), UNCHANGED abandoned
    PROVE  /\ IsValid(call[t].id) /\ call[t].id \in QueueIDs /\ call[t].id[2] \in Queues
           /\ call[t].type \in Operations /\ call[t].msg \in Msgs \cup {NoMsg}
           /\ FinishContext(t, call[t].id[2], call[t].type, call[t].msg, readWriteableCnt)
<1>0. TypeOK
  BY DEF IInv
<1>1. /\ call[t].id \in QueueIDs /\ call[t].id[2] \in Queues
      /\ call[t].type \in Operations /\ call[t].msg \in Msgs \cup {NoMsg}
  BY <1>0, CallFacts
<1>2. taskStatus[t] = "WOKEN" /\ IsValid(call[t].id)
  BY DEF IInv, PromiseHandles, QueueOperateWoken
<1>3. Finish(call[t].id[2], call[t].type, call[t].msg, [taskStatus EXCEPT ![t] = "RUN"],
             readWriteableCnt)
  BY DEF QueueOperateWoken, HPFWaitReturn
<1>4. UNCHANGED <<FREE_QUEUE_LIST, queueState, queueGen, queueLen, call>>
  BY DEF QueueOperateWoken
<1> QED BY <1>0, <1>1, <1>2, <1>3, <1>4 DEF FinishContext, TypeOK, IsValid

\* A task that finds a node operates with it at once.
LEMMA OperateContext ==
    ASSUME IInv, NEW t \in Tasks, NEW h \in QueueIDs, NEW type \in Operations,
           NEW timeout \in Timeouts, NEW msg \in Payload(type),
           OsQueueOperate(t, h, type, msg, timeout), UNCHANGED abandoned,
           readWriteableCnt[h[2]][ReadWrite(type)] > 0
    PROVE  /\ msg \in Msgs \cup {NoMsg} /\ h[2] \in Queues
           /\ FinishContext(t, h[2], type, msg,
                            [readWriteableCnt EXCEPT ![h[2]][ReadWrite(type)] = @ - 1])
<1> DEFINE q == h[2]
           rw == ReadWrite(type)
           cnt == [readWriteableCnt EXCEPT ![q][rw] = @ - 1]
<1>0. TypeOK /\ q \in Queues /\ rw \in RW /\ msg \in Msgs \cup {NoMsg}
  BY HandleFacts, OtherFacts DEF IInv, Payload
<1>1. taskStatus[t] = "RUN" /\ queueState[q] = "INUSED"
  BY DEF OsQueueOperate, Running, IsValid
<1>2. readWriteableCnt \in [Queues -> [RW -> 0..MaxLen]] /\ MaxLen \in Nat
      /\ readWriteableCnt[q][rw] \in 0..MaxLen
  BY <1>0, QueueAssumption DEF TypeOK
<1>3. readWriteableCnt[q][rw] - 1 \in 0..MaxLen
  BY <1>2
<1>4. /\ Finish(q, type, msg, taskStatus, cnt)
      /\ call' = [call EXCEPT ![t] = [id |-> h, type |-> type, msg |-> msg]]
      /\ UNCHANGED <<FREE_QUEUE_LIST, queueState, queueGen, queueLen>>
  BY <1>2 DEF OsQueueOperate
<1> HIDE DEF q, rw
<1>5. /\ cnt \in [Queues -> [RW -> 0..MaxLen]] /\ cnt[q][rw] = readWriteableCnt[q][rw] - 1
      /\ \A p \in Queues, x \in RW : p # q \/ x # rw => cnt[p][x] = readWriteableCnt[p][x]
  BY <1>0, <1>2, <1>3
<1> HIDE DEF cnt
<1>6. [taskStatus EXCEPT ![t] = "RUN"] = taskStatus
  BY <1>0, <1>1 DEF TypeOK
<1>7. [id |-> h, type |-> type, msg |-> msg] \in Calls
  BY <1>0 DEF Calls
<1>8. call' \in [Tasks -> Calls] /\ \A u \in Tasks : u # t => call'[u] = call[u]
  BY <1>0, <1>4, <1>7 DEF TypeOK
<1>9. FinishContext(t, q, type, msg, cnt)
  BY <1>1, <1>4, <1>5, <1>6, <1>8 DEF FinishContext, rw
<1> QED BY <1>0, <1>9 DEF q, rw, cnt

LEMMA OperateStep ==
    ASSUME IInv, NEW t \in Tasks, NEW h \in QueueIDs, NEW type \in Operations,
           NEW timeout \in Timeouts, NEW msg \in Payload(type),
           OsQueueOperate(t, h, type, msg, timeout), UNCHANGED abandoned
    PROVE  IInv'
<1>1. PICK q \in Queues : q = h[2]
  BY HandleFacts
<1>2. PICK rw \in RW : rw = ReadWrite(type)
  BY OtherFacts
<1>0. TypeOK /\ msg \in Msgs \cup {NoMsg}
  BY DEF IInv, Payload
<1>3. CASE readWriteableCnt[q][rw] > 0
  <2>1. /\ msg \in Msgs \cup {NoMsg} /\ h[2] \in Queues
        /\ FinishContext(t, h[2], type, msg,
                         [readWriteableCnt EXCEPT ![h[2]][ReadWrite(type)] = @ - 1])
    BY <1>1, <1>2, <1>3, OperateContext
  <2>2. PICK cnt : FinishContext(t, q, type, msg, cnt)
    BY <2>1, <1>1
  <2> QED BY <2>2, <1>0, FinishStep
<1>4. CASE ~(readWriteableCnt[q][rw] > 0)
  <2>1. /\ Running(t) /\ IsValid(h)
        /\ call' = [call EXCEPT ![t] = [id |-> h, type |-> type, msg |-> msg]]
        /\ readWriteableCnt[q][rw] = 0
        /\ taskStatus' = HPFWait(t, timeout)
        /\ readWriteList' = [readWriteList EXCEPT ![q][rw] = Append(@, t)]
        /\ UNCHANGED <<FREE_QUEUE_LIST, queueState, queueGen, queueLen, ringVars,
                       readWriteableCnt, abandoned>>
    BY <1>1, <1>2, <1>4 DEF OsQueueOperate
  <2>2. /\ taskStatus[t] = "RUN" /\ taskStatus' \in [Tasks -> TaskStatus]
        /\ taskStatus'[t] \in {"PENDING", "PEND_TIME"}
        /\ \A u \in Tasks : u # t => taskStatus'[u] = taskStatus[u]
    BY <2>1, <1>0 DEF Running, HPFWait, TypeOK, TaskStatus
  <2>3. [id |-> h, type |-> type, msg |-> msg] \in Calls
    BY <1>0 DEF Calls
  <2>4. /\ call' \in [Tasks -> Calls] /\ \A u \in Tasks : u # t => call'[u] = call[u]
        /\ call'[t].id = h /\ call'[t].type = type
    BY <2>1, <2>3, <1>0 DEF TypeOK
  <2>5. t \notin abandoned
    BY <2>2 DEF IInv, PromiseHandles
  <2>6. \A p \in Queues, x \in RW : t \notin ToSet(readWriteList[p][x])
    BY <2>2 DEF IInv, Linked, IsPending
  <2>7. readWriteList[q][rw] \in Seq(Tasks) /\ IsInjective(readWriteList[q][rw])
    BY <1>0 DEF IInv, TypeOK, Linked
  <2> DEFINE l == Append(readWriteList[q][rw], t)
  <2>8. l \in Seq(Tasks) /\ ToSet(l) = ToSet(readWriteList[q][rw]) \cup {t} /\ IsInjective(l)
    BY <2>6, <2>7, AppendList
  <2>9. readWriteList' = [readWriteList EXCEPT ![q][rw] = l]
    BY <2>1
  <2> HIDE DEF l
  <2>10. /\ readWriteList' \in [Queues -> [RW -> Seq(Tasks)]]
         /\ readWriteList'[q][rw] = l
         /\ \A p \in Queues, x \in RW : p # q \/ x # rw => readWriteList'[p][x] = readWriteList[p][x]
    BY <2>8, <2>9, <1>0 DEF TypeOK
  <2>11. TypeOK'
    BY <2>1, <2>2, <2>4, <2>10, <1>0 DEF TypeOK, ringVars
  <2>12. FreeListExact' /\ RingBounds'
    BY <2>1 DEF IInv, FreeListExact, RingBounds, ringVars
  <2>13. Linked'
    <3>0. ASSUME NEW p \in Queues, NEW x \in RW
          PROVE  ToSet(readWriteList'[p][x]) = IF p = q /\ x = rw
                                               THEN ToSet(readWriteList[p][x]) \cup {t}
                                               ELSE ToSet(readWriteList[p][x])
      <4>1. CASE p = q /\ x = rw
        BY <4>1, <2>8, <2>10
      <4>2. CASE p # q \/ x # rw
        BY <4>2, <2>10
      <4> QED BY <4>1, <4>2
    <3>1. ASSUME NEW p \in Queues, NEW x \in RW, NEW u \in ToSet(readWriteList'[p][x])
          PROVE  CallsFor(u, p, x)'
      <4>1. CASE u = t
        <5>1. p = q /\ x = rw
          BY <4>1, <3>1, <2>6, <2>10
        <5> QED BY <5>1, <4>1, <2>1, <2>4, <1>1, <1>2 DEF CallsFor, IsValid, QueueID
      <4>2. CASE u # t
        <5>1. u \in ToSet(readWriteList[p][x])
          BY <4>2, <3>0, <3>1
        <5>2. u \in Tasks /\ CallsFor(u, p, x)
          BY <5>1, <1>0, ToSetIn, SMTT(40) DEF IInv, TypeOK, Linked
        <5> QED BY <5>2, <4>2, <2>1, <2>4 DEF CallsFor, IsValid, QueueID
      <4> QED BY <4>1, <4>2
    <3>2. \A p \in Queues, x \in RW : IsInjective(readWriteList'[p][x])
      BY <2>8, <2>10 DEF IInv, Linked
    <3>3. ASSUME NEW u \in Tasks
          PROVE  IsPending(u)' <=> \E p \in Queues, x \in RW : u \in ToSet(readWriteList'[p][x])
      <4>1. CASE u = t
        <5>1. IsPending(t)'
          BY <2>2 DEF IsPending
        <5>2. t \in ToSet(readWriteList'[q][rw])
          BY <2>8, <2>10
        <5> QED BY <5>1, <5>2, <4>1
      <4>2. CASE u # t
        <5>1. IsPending(u)' <=> IsPending(u)
          BY <4>2, <2>2 DEF IsPending
        <5>2. \A p \in Queues, x \in RW :
                 u \in ToSet(readWriteList'[p][x]) <=> u \in ToSet(readWriteList[p][x])
          BY <4>2, <3>0
        <5> QED BY <5>1, <5>2 DEF IInv, Linked
      <4> QED BY <4>1, <4>2
    <3> QED BY <3>1, <3>2, <3>3 DEF Linked
  <2>14. PromiseHandles'
    <3>1. ASSUME NEW u \in Tasks, taskStatus'[u] = "WOKEN" \/ u \in abandoned'
          PROVE  IsValid(call[u].id)'
      <4>1. u # t /\ (taskStatus[u] = "WOKEN" \/ u \in abandoned)
        BY <3>1, <2>1, <2>2, <2>5
      <4>2. IsValid(call[u].id)
        BY <4>1 DEF IInv, PromiseHandles
      <4> QED BY <4>1, <4>2, <2>1, <2>4 DEF IsValid, QueueID
    <3>2. \A u \in abandoned' : taskStatus'[u] = "UNUSED"
      BY <2>1, <2>2, <2>5, <1>0 DEF IInv, PromiseHandles, TypeOK
    <3> QED BY <3>1, <3>2 DEF PromiseHandles
  <2>15. NoWaiterBesideCount'
    BY <2>1, <2>10 DEF IInv, NoWaiterBesideCount
  <2>16. NodesConserved'
    <3>1. \A p \in Queues, x \in RW : Promised(p, x)' = Promised(p, x)
      BY <2>1, <2>2, <2>4, <2>5 DEF Promised
    <3> QED BY <3>1, <2>1 DEF IInv, NodesConserved, InUse, RW
  <2> QED BY <2>11, <2>12, <2>13, <2>14, <2>15, <2>16 DEF IInv
<1> QED BY <1>3, <1>4

LEMMA WokenStep ==
    ASSUME IInv, NEW t \in Tasks, QueueOperateWoken(t), UNCHANGED abandoned
    PROVE  IInv'
<1>1. PICK q \in Queues, type \in Operations, msg \in Msgs \cup {NoMsg} :
          FinishContext(t, q, type, msg, readWriteableCnt)
  BY WokenContext
<1> QED BY <1>1, FinishStep

LEMMA CreateStep ==
    ASSUME IInv, NEW t \in Tasks, NEW len \in 1..MaxLen, LOS_QueueCreate(t, len),
           UNCHANGED abandoned
    PROVE  IInv'
<1>0. TypeOK /\ FREE_QUEUE_LIST \in Seq(Queues) /\ FREE_QUEUE_LIST # <<>>
  BY DEF IInv, TypeOK, LOS_QueueCreate
<1>q. PICK q \in Queues : q = Head(FREE_QUEUE_LIST)
  BY <1>0, TailList
<1>1. /\ FREE_QUEUE_LIST' \in Seq(Queues)
      /\ ToSet(FREE_QUEUE_LIST) = ToSet(FREE_QUEUE_LIST') \cup {q}
      /\ IsInjective(FREE_QUEUE_LIST') /\ q \notin ToSet(FREE_QUEUE_LIST')
  BY <1>0, <1>q, TailList DEF IInv, FreeListExact, LOS_QueueCreate
<1>2. queueState[q] = "UNUSED"
  BY <1>1 DEF IInv, FreeListExact
<1>3. /\ queueLen' = [queueLen EXCEPT ![q] = len]
      /\ queueHandle' = [queueHandle EXCEPT ![q] = [i \in 0..MaxLen - 1 |-> NoMsg]]
      /\ queueState' = [queueState EXCEPT ![q] = "INUSED"]
      /\ readWriteableCnt' = [readWriteableCnt EXCEPT ![q] = [READ |-> 0, WRITE |-> len]]
      /\ queueHead' = [queueHead EXCEPT ![q] = 0]
      /\ queueTail' = [queueTail EXCEPT ![q] = 0]
      /\ readWriteList' = [readWriteList EXCEPT ![q] = [rw \in RW |-> <<>>]]
      /\ UNCHANGED <<taskStatus, queueGen, call, abandoned>>
  BY <1>q DEF LOS_QueueCreate
<1>4. [READ |-> 0, WRITE |-> len] \in [RW -> 0..MaxLen]
  <2>1. 0 \in 0..MaxLen /\ len \in 0..MaxLen
    BY QueueAssumption
  <2> QED BY <2>1 DEF RW
<1>5. TypeOK'
  <2>1. readWriteableCnt' \in [Queues -> [RW -> 0..MaxLen]]
    BY <1>0, <1>3, <1>4 DEF TypeOK
  <2>2. readWriteList' \in [Queues -> [RW -> Seq(Tasks)]]
    BY <1>0, <1>3 DEF TypeOK
  <2>3. /\ queueHead' \in [Queues -> 0..MaxLen - 1] /\ queueTail' \in [Queues -> 0..MaxLen - 1]
        /\ queueLen' \in [Queues -> 1..MaxLen]
    <3>1. 0 \in 0..MaxLen - 1
      BY QueueAssumption
    <3>2. /\ queueHead \in [Queues -> 0..MaxLen - 1] /\ queueTail \in [Queues -> 0..MaxLen - 1]
          /\ queueLen \in [Queues -> 1..MaxLen]
      BY <1>0 DEF TypeOK
    <3> QED BY <3>1, <3>2, <1>3
  <2>4. queueHandle' \in [Queues -> [0..MaxLen - 1 -> Msgs \cup {NoMsg}]]
    BY <1>0, <1>3 DEF TypeOK
  <2> QED BY <2>1, <2>2, <2>3, <2>4, <1>0, <1>1, <1>3 DEF TypeOK
<1>6. FreeListExact'
  BY <1>0, <1>1, <1>3 DEF IInv, FreeListExact, TypeOK
<1>7. \A h : IsValid(h) => h[2] # q
  BY <1>2 DEF IsValid
<1>8. \A p \in Queues, rw \in RW :
         /\ p # q => readWriteList'[p][rw] = readWriteList[p][rw]
         /\ p = q => /\ readWriteList'[p][rw] = <<>> /\ ToSet(readWriteList'[p][rw]) = {}
                     /\ IsInjective(readWriteList'[p][rw])
         /\ p = q => ToSet(readWriteList[p][rw]) = {}
  <2>1. \A rw \in RW : ToSet(readWriteList[q][rw]) = {}
    BY <1>7 DEF IInv, Linked, CallsFor
  <2>2. ToSet(<<>>) = {} /\ IsInjective(<<>>)
    BY DEF ToSet, IsInjective
  <2> QED BY <2>1, <2>2, <1>0, <1>3 DEF TypeOK
<1>9. ASSUME NEW u \in Tasks, IsValid(call[u].id) PROVE call[u].id[2] # q /\ IsValid(call[u].id)'
  BY <1>0, <1>3, <1>7, <1>9, CallFacts DEF IsValid, QueueID, TypeOK
<1>10. Linked'
  <2>1. ASSUME NEW p \in Queues, NEW rw \in RW
        PROVE  ToSet(readWriteList'[p][rw]) = ToSet(readWriteList[p][rw])
               /\ IsInjective(readWriteList'[p][rw])
    BY <1>8 DEF IInv, Linked
  <2>2. ASSUME NEW p \in Queues, NEW rw \in RW, NEW u \in ToSet(readWriteList'[p][rw])
        PROVE  CallsFor(u, p, rw)'
    <3>1. u \in ToSet(readWriteList[p][rw]) /\ readWriteList[p][rw] \in Seq(Tasks)
      BY <2>1, <2>2, <1>0 DEF TypeOK
    <3>2. u \in Tasks /\ CallsFor(u, p, rw)
      BY <3>1, ToSetIn DEF IInv, Linked
    <3>3. IsValid(call[u].id)'
      BY <3>2, <1>9 DEF CallsFor
    <3> QED BY <3>2, <3>3, <1>3 DEF CallsFor
  <2>3. \A u \in Tasks : IsPending(u)' <=> IsPending(u)
    BY <1>3 DEF IsPending
  <2> QED BY <2>1, <2>2, <2>3 DEF IInv, Linked
<1>11. PromiseHandles'
  BY <1>3, <1>9 DEF IInv, PromiseHandles
<1>12. NoWaiterBesideCount'
  <2>1. \A p \in Queues : p # q => readWriteableCnt'[p] = readWriteableCnt[p]
    BY <1>0, <1>3 DEF TypeOK
  <2> QED BY <2>1, <1>8 DEF IInv, NoWaiterBesideCount
<1>13. RingBounds'
  BY <1>0, <1>3 DEF IInv, RingBounds, TypeOK
<1>14. NodesConserved'
  <2>1. \A p \in Queues, rw \in RW : Promised(p, rw)' = Promised(p, rw)
    BY <1>3 DEF Promised
  <2>2. \A rw \in RW : Promised(q, rw) = {}
    BY <1>7 DEF IInv, PromiseHandles, Promised
  <2>3. SUFFICES ASSUME NEW p \in InUse'
                 PROVE  readWriteableCnt'[p]["READ"] + readWriteableCnt'[p]["WRITE"]
                          + Cardinality(Promised(p, "READ")') + Cardinality(Promised(p, "WRITE")')
                        = queueLen'[p]
    BY DEF NodesConserved
  <2>4. CASE p = q
    <3>1. Promised(p, "READ")' = {} /\ Promised(p, "WRITE")' = {}
      BY <2>1, <2>2, <2>4 DEF RW
    <3>2. readWriteableCnt'[p]["READ"] = 0 /\ readWriteableCnt'[p]["WRITE"] = len /\ queueLen'[p] = len
      BY <1>0, <1>3, <2>4 DEF TypeOK
    <3> QED BY <3>1, <3>2, FS_EmptySet
  <2>5. CASE p # q
    <3>1. p \in InUse
      BY <2>3, <2>5, <1>0, <1>3 DEF InUse, TypeOK
    <3>2. readWriteableCnt'[p] = readWriteableCnt[p] /\ queueLen'[p] = queueLen[p] /\ p \in Queues
      BY <3>1, <2>5, <1>0, <1>3 DEF TypeOK, InUse
    <3> QED BY <3>1, <3>2, <2>1 DEF IInv, NodesConserved, RW
  <2> QED BY <2>4, <2>5
<1> QED BY <1>5, <1>6, <1>10, <1>11, <1>12, <1>13, <1>14 DEF IInv

\* LOS_QueueDelete frees a ring only when no woken task still has to touch it: the counts
\* it adds up fall short of queueLen by the nodes that are promised.
LEMMA DeleteStep ==
    ASSUME IInv, NEW t \in Tasks, NEW h \in QueueIDs, LOS_QueueDelete(t, h), UNCHANGED abandoned
    PROVE  IInv'
<1>0. TypeOK /\ FREE_QUEUE_LIST \in Seq(Queues)
  BY DEF IInv, TypeOK
<1>q. PICK q \in Queues : q = h[2]
  BY HandleFacts
<1>1. /\ queueState[q] = "INUSED" /\ h = QueueID(q)
      /\ \A rw \in RW : readWriteList[q][rw] = <<>>
      /\ readWriteableCnt[q]["WRITE"] + readWriteableCnt[q]["READ"] = queueLen[q]
      /\ queueGen[q] < MaxGen
      /\ queueState' = [queueState EXCEPT ![q] = "UNUSED"]
      /\ queueGen' = [queueGen EXCEPT ![q] = @ + 1]
      /\ FREE_QUEUE_LIST' = Append(FREE_QUEUE_LIST, q)
      /\ UNCHANGED <<taskStatus, queueLen, ringVars, readWriteableCnt, readWriteList, call,
                     abandoned>>
  BY <1>q DEF LOS_QueueDelete, IsValid
<1>2. q \notin ToSet(FREE_QUEUE_LIST)
  BY <1>1 DEF IInv, FreeListExact
<1>3. /\ FREE_QUEUE_LIST' \in Seq(Queues)
      /\ ToSet(FREE_QUEUE_LIST') = ToSet(FREE_QUEUE_LIST) \cup {q}
      /\ IsInjective(FREE_QUEUE_LIST')
  BY <1>0, <1>1, <1>2, AppendList DEF IInv, FreeListExact
<1>4. Promised(q, "READ") = {} /\ Promised(q, "WRITE") = {}
  <2>1. /\ IsFiniteSet(Promised(q, "READ")) /\ Cardinality(Promised(q, "READ")) \in Nat
        /\ IsFiniteSet(Promised(q, "WRITE")) /\ Cardinality(Promised(q, "WRITE")) \in Nat
        /\ readWriteableCnt[q]["READ"] \in Nat /\ readWriteableCnt[q]["WRITE"] \in Nat
    BY <1>0, NodeFacts, QueueAssumption DEF RW
  <2>2. readWriteableCnt[q]["READ"] + readWriteableCnt[q]["WRITE"]
          + Cardinality(Promised(q, "READ")) + Cardinality(Promised(q, "WRITE")) = queueLen[q]
    BY <1>1 DEF IInv, NodesConserved, InUse
  <2>3. Cardinality(Promised(q, "READ")) = 0 /\ Cardinality(Promised(q, "WRITE")) = 0
    BY <2>1, <2>2, <1>1
  <2> QED BY <2>1, <2>3, FS_EmptySet
<1>5. \A u \in Tasks : taskStatus[u] = "WOKEN" \/ u \in abandoned => call[u].id[2] # q
  <2>1. SUFFICES ASSUME NEW u \in Tasks, taskStatus[u] = "WOKEN" \/ u \in abandoned,
                        call[u].id[2] = q
                 PROVE  FALSE
    OBVIOUS
  <2>2. ReadWrite(call[u].type) \in RW
    BY <1>0, CallFacts, OtherFacts
  <2>3. u \in Promised(q, ReadWrite(call[u].type))
    BY <2>1 DEF Promised
  <2> QED BY <2>2, <2>3, <1>4 DEF RW
<1>6. ASSUME NEW u \in Tasks, IsValid(call[u].id), call[u].id[2] # q PROVE IsValid(call[u].id)'
  BY <1>0, <1>1, <1>6, CallFacts DEF IsValid, QueueID, TypeOK
<1>7. TypeOK'
  <2>1. queueGen[q] + 1 \in 0..MaxGen
    <3>1. queueGen[q] \in 0..MaxGen
      BY <1>0 DEF TypeOK
    <3> QED BY <3>1, <1>1, QueueAssumption
  <2>2. queueGen' \in [Queues -> 0..MaxGen]
    BY <2>1, <1>0, <1>1 DEF TypeOK
  <2> QED BY <2>2, <1>0, <1>1, <1>3 DEF TypeOK, ringVars
<1>8. FreeListExact'
  BY <1>0, <1>1, <1>3 DEF IInv, FreeListExact, TypeOK
<1>9. Linked'
  <2>1. ASSUME NEW p \in Queues, NEW rw \in RW, NEW u \in ToSet(readWriteList[p][rw])
        PROVE  CallsFor(u, p, rw)'
    <3>1. readWriteList[p][rw] \in Seq(Tasks)
      BY <1>0 DEF TypeOK
    <3>2. u \in Tasks /\ CallsFor(u, p, rw) /\ p # q
      BY <3>1, <2>1, <1>1, ToSetIn DEF IInv, Linked
    <3> QED BY <3>2, <1>1, <1>6 DEF CallsFor
  <2>2. \A u \in Tasks : IsPending(u)' <=> IsPending(u)
    BY <1>1 DEF IsPending
  <2> QED BY <2>1, <2>2, <1>1 DEF IInv, Linked
<1>10. PromiseHandles'
  BY <1>1, <1>5, <1>6 DEF IInv, PromiseHandles
<1>11. NoWaiterBesideCount' /\ RingBounds'
  BY <1>1 DEF IInv, NoWaiterBesideCount, RingBounds, ringVars
<1>12. NodesConserved'
  <2>1. \A p \in Queues, rw \in RW : Promised(p, rw)' = Promised(p, rw)
    BY <1>1 DEF Promised
  <2>2. InUse' \subseteq InUse
    BY <1>0, <1>1 DEF InUse, TypeOK
  <2> QED BY <2>1, <2>2, <1>1 DEF IInv, NodesConserved, InUse, RW
<1> QED BY <1>7, <1>8, <1>9, <1>10, <1>11, <1>12 DEF IInv

LEMMA NextIInv == IInv /\ [Next]_vars => IInv'
<1> SUFFICES ASSUME IInv, [Next]_vars PROVE IInv'
  OBVIOUS
<1>1. CASE UNCHANGED vars
  <2>1. TypeOK' /\ FreeListExact' /\ NoWaiterBesideCount' /\ RingBounds'
    BY <1>1 DEF vars, ringVars, IInv, TypeOK, FreeListExact, NoWaiterBesideCount, RingBounds
  <2>2. Linked' /\ PromiseHandles'
    BY <1>1 DEF vars, IInv, Linked, CallsFor, PromiseHandles, IsPending, IsValid, QueueID
  <2>3. NodesConserved'
    BY <1>1 DEF vars, IInv, NodesConserved, InUse, Promised
  <2> QED BY <2>1, <2>2, <2>3 DEF IInv
<1>2. CASE Next
  BY <1>2, CreateStep, OperateStep, WokenStep, TimedOutStep, TimeoutStep, DeleteStep,
     TaskDeleteStep
  DEF Next
<1> QED BY <1>1, <1>2

-----------------------------------------------------------------------------
\* Queue state stays well typed: the counts never leave 0..queueLen, and Head and Tail
\* never leave the ring, although OsQueueBufferOperate tests no bound.
THEOREM TypeCorrect == Spec => [](TypeOK /\ RingBounds)
<1>1. IInv => TypeOK /\ RingBounds
  BY DEF IInv
<1> QED BY <1>1, InitIInv, NextIInv, PTL DEF Spec

\* The hand-over of nodes between readers and writers, with its timeouts, deletions and
\* reuse of control blocks, neither loses nor invents a node.
THEOREM NodesIntegrity == Spec => []NodesConserved
<1>1. IInv => NodesConserved
  BY DEF IInv
<1> QED BY <1>1, InitIInv, NextIInv, PTL DEF Spec

\* OsQueueOperate uses the control block again after its wait without a check, and the
\* queue is then still the one it was called for: LOS_QueueDelete never frees the ring
\* under a woken task.
THEOREM NoReuseUnderWoken == Spec => []WokenHandleIsCurrent
<1>1. IInv => WokenHandleIsCurrent
  BY DEF IInv, PromiseHandles, WokenHandleIsCurrent
<1> QED BY <1>1, InitIInv, NextIInv, PTL DEF Spec

\* The length of the contents, as the ring holds them.
LEMMA ContentsLen ==
    ASSUME TypeOK, NEW q \in Queues
    PROVE  Len(Contents(q)) = Nodes(q, "READ")
<1>1. /\ readWriteableCnt[q]["READ"] + Cardinality(Promised(q, "READ")) = Nodes(q, "READ")
      /\ Nodes(q, "READ") \in Nat
  BY NodeFacts DEF Nodes, RW
<1>2. PICK n \in Nat : n = readWriteableCnt[q]["READ"] + Cardinality(Promised(q, "READ"))
  BY <1>1
<1>3. Contents(q) = [i \in 1..n |-> queueHandle[q][(queueHead[q] + i - 1) % queueLen[q]]]
  BY <1>2 DEF Contents
<1>4. Len(Contents(q)) = n
  BY <1>3
<1> QED BY <1>1, <1>2, <1>4

\* A reader waits only while every message is promised to a woken task, a writer only
\* while every free node is.
THEOREM NoLostWakeup == Spec => []NobodyWaitsBesideNode
<1>1. IInv => NobodyWaitsBesideNode
  <2> SUFFICES ASSUME IInv, NEW q \in InUse
               PROVE  /\ readWriteList[q]["READ"] # <<>> =>
                           Len(Contents(q)) = Cardinality(Promised(q, "READ"))
                      /\ readWriteList[q]["WRITE"] # <<>> =>
                           queueLen[q] - Len(Contents(q)) = Cardinality(Promised(q, "WRITE"))
    BY DEF NobodyWaitsBesideNode
  <2>2. TypeOK /\ q \in Queues /\ "READ" \in RW /\ "WRITE" \in RW
    BY DEF IInv, InUse, RW
  <2>3. Len(Contents(q)) = Nodes(q, "READ")
    BY <2>2, ContentsLen
  <2>4. /\ Cardinality(Promised(q, "READ")) \in Nat /\ Cardinality(Promised(q, "WRITE")) \in Nat
        /\ readWriteableCnt[q]["READ"] \in Nat /\ readWriteableCnt[q]["WRITE"] \in Nat
    BY <2>2, NodeFacts, QueueAssumption
  <2>5. Nodes(q, "READ") + Nodes(q, "WRITE") = queueLen[q]
    BY <2>2, ConservedSum DEF IInv
  <2>6. \A rw \in RW : readWriteList[q][rw] # <<>> => readWriteableCnt[q][rw] = 0
    BY <2>2 DEF IInv, NoWaiterBesideCount
  <2> QED BY <2>2, <2>3, <2>4, <2>5, <2>6 DEF Nodes
<1> QED BY <1>1, InitIInv, NextIInv, PTL DEF Spec

-----------------------------------------------------------------------------
(***************************************************************************)
(* LosQueue implements AbsQueue.  The messages lie in the ring from Head   *)
(* on, as many as are counted as readable or promised to a woken reader.   *)
(* The mapping needs two more invariants: Tail is where Head and that      *)
(* number put it, and a task in a write call has a message to write.       *)
(***************************************************************************)
\* An index that has gone round the ring of n nodes at most once.
Wrap(i, n) == IF i < n THEN i ELSE i - n

TailPlace ==
    \A q \in InUse : queueTail[q] = Wrap(queueHead[q] + Nodes(q, "READ"), queueLen[q])

CallPayload ==
    \A t \in Tasks : IsPending(t) \/ taskStatus[t] = "WOKEN" => call[t].msg \in Payload(call[t].type)

RInv == IInv /\ TailPlace /\ CallPayload

LEMMA WrapMod ==
    ASSUME NEW n \in Nat \ {0}, NEW i \in 0..2 * n - 1
    PROVE  i % n = Wrap(i, n)
<1>1. CASE i < n
  BY <1>1 DEF Wrap
<1>2. CASE i >= n
  BY <1>2 DEF Wrap
<1> QED BY <1>1, <1>2

\* N messages in a ring f of n nodes, from node hd on.
RingSeq(f, hd, N, n) == [i \in 1..N |-> f[(hd + i - 1) % n]]

RingShape(r, f, hd, N, n, S) ==
    /\ r \in Seq(S)
    /\ Len(r) = N
    /\ \A i \in 1..N : /\ Wrap(hd + i - 1, n) \in 0..n - 1
                       /\ r[i] = f[Wrap(hd + i - 1, n)]

LEMMA RingAt ==
    ASSUME NEW m \in Nat, NEW n \in Nat \ {0}, n <= m, NEW hd \in 0..n - 1, NEW N \in 0..n,
           NEW S, NEW f \in [0..m - 1 -> S]
    PROVE  RingShape(RingSeq(f, hd, N, n), f, hd, N, n, S)
<1>1. ASSUME NEW i \in 1..N
      PROVE  /\ (hd + i - 1) % n = Wrap(hd + i - 1, n)
             /\ Wrap(hd + i - 1, n) \in 0..n - 1
             /\ f[Wrap(hd + i - 1, n)] \in S
  <2>1. hd + i - 1 \in 0..2 * n - 1
    OBVIOUS
  <2>2. Wrap(hd + i - 1, n) \in 0..n - 1
    BY <2>1 DEF Wrap
  <2>3. Wrap(hd + i - 1, n) \in 0..m - 1
    BY <2>2
  <2> QED BY <2>1, <2>2, <2>3, WrapMod
<1>2. RingSeq(f, hd, N, n) = [i \in 1..N |-> f[Wrap(hd + i - 1, n)]]
  BY <1>1 DEF RingSeq
<1>3. PICK r : r = RingSeq(f, hd, N, n)
  OBVIOUS
<1>4. r = [i \in 1..N |-> f[Wrap(hd + i - 1, n)]]
  BY <1>2, <1>3
<1>5. r \in Seq(S) /\ Len(r) = N
  <2>1. \A i \in 1..N : f[Wrap(hd + i - 1, n)] \in S
    BY <1>1
  <2>2. r \in [1..N -> S]
    BY <1>4, <2>1
  <2>3. N \in Nat
    OBVIOUS
  <2> QED BY <2>2, <2>3
<1>6. RingShape(r, f, hd, N, n, S)
  BY <1>1, <1>4, <1>5 DEF RingShape
<1> QED BY <1>3, <1>6

LEMMA SeqEqual ==
    ASSUME NEW S, NEW s \in Seq(S), NEW t \in Seq(S), Len(s) = Len(t),
           \A i \in 1..Len(s) : s[i] = t[i]
    PROVE  s = t
OBVIOUS

\* Reading the node at Head and moving Head on removes the first message.
ReadEffect(f, hd, N, n, e, nx) ==
    /\ RingSeq([f EXCEPT ![hd] = e], nx, N - 1, n) = Tail(RingSeq(f, hd, N, n))
    /\ RingSeq(f, hd, N, n) # <<>>
    /\ Wrap(nx + (N - 1), n) = Wrap(hd + N, n)

LEMMA RingRead ==
    ASSUME NEW m \in Nat, NEW n \in Nat \ {0}, n <= m, NEW hd \in 0..n - 1, NEW N \in 1..n,
           NEW S, NEW f \in [0..m - 1 -> S], NEW e \in S,
           NEW nx, nx = IF hd + 1 = n THEN 0 ELSE hd + 1
    PROVE  ReadEffect(f, hd, N, n, e, nx)
<1> DEFINE g == [f EXCEPT ![hd] = e]
           old == RingSeq(f, hd, N, n)
           new == RingSeq(g, nx, N - 1, n)
<1>1. nx \in 0..n - 1 /\ N \in 0..n /\ N - 1 \in 0..n /\ hd \in 0..m - 1
  OBVIOUS
<1>2. g \in [0..m - 1 -> S] /\ \A k \in 0..m - 1 : k # hd => g[k] = f[k]
  BY <1>1
<1>3. /\ old \in Seq(S) /\ Len(old) = N
      /\ \A i \in 1..N : Wrap(hd + i - 1, n) \in 0..n - 1 /\ old[i] = f[Wrap(hd + i - 1, n)]
  <2>1. RingShape(old, f, hd, N, n, S)
    BY <1>1, RingAt
  <2> HIDE DEF old
  <2> QED BY <2>1 DEF RingShape
<1> HIDE DEF g, old
<1>4. /\ new \in Seq(S) /\ Len(new) = N - 1
      /\ \A i \in 1..N - 1 : Wrap(nx + i - 1, n) \in 0..n - 1 /\ new[i] = g[Wrap(nx + i - 1, n)]
  <2>1. RingShape(new, g, nx, N - 1, n, S)
    BY <1>1, <1>2, RingAt
  <2> QED BY <2>1 DEF RingShape
<1> HIDE DEF new
<1>5. old # <<>> /\ Tail(old) \in Seq(S) /\ Len(Tail(old)) = N - 1
      /\ \A i \in 1..N - 1 : Tail(old)[i] = old[i + 1]
  BY <1>3
<1>6. ASSUME NEW i \in 1..N - 1 PROVE new[i] = Tail(old)[i]
  <2>1. Wrap(nx + i - 1, n) = Wrap(hd + (i + 1) - 1, n) /\ Wrap(nx + i - 1, n) # hd
    BY DEF Wrap
  <2>2. Wrap(nx + i - 1, n) \in 0..m - 1
    <3>1. Wrap(nx + i - 1, n) \in 0..n - 1
      BY <1>4
    <3> QED BY <3>1
  <2>3. new[i] = f[Wrap(hd + (i + 1) - 1, n)]
    BY <2>1, <2>2, <1>2, <1>4
  <2>4. old[i + 1] = f[Wrap(hd + (i + 1) - 1, n)]
    <3>1. i + 1 \in 1..N
      OBVIOUS
    <3> QED BY <3>1, <1>3
  <2> QED BY <2>3, <2>4, <1>5
<1>7. new = Tail(old)
  BY <1>4, <1>5, <1>6, SeqEqual
<1>8. Wrap(nx + (N - 1), n) = Wrap(hd + N, n)
  BY DEF Wrap
<1> QED BY <1>5, <1>7, <1>8 DEF ReadEffect, new, old, g

\* Writing the node at Tail and moving Tail on adds a last message.
WriteTailEffect(f, hd, N, n, e, tl) ==
    /\ RingSeq([f EXCEPT ![tl] = e], hd, N + 1, n) = Append(RingSeq(f, hd, N, n), e)
    /\ (IF tl + 1 = n THEN 0 ELSE tl + 1) = Wrap(hd + (N + 1), n)

LEMMA RingWriteTail ==
    ASSUME NEW m \in Nat, NEW n \in Nat \ {0}, n <= m, NEW hd \in 0..n - 1, NEW N \in 0..n - 1,
           NEW S, NEW f \in [0..m - 1 -> S], NEW e \in S,
           NEW tl, tl = Wrap(hd + N, n)
    PROVE  WriteTailEffect(f, hd, N, n, e, tl)
<1> DEFINE g == [f EXCEPT ![tl] = e]
           old == RingSeq(f, hd, N, n)
           new == RingSeq(g, hd, N + 1, n)
<1>1. N \in 0..n /\ N + 1 \in 0..n /\ tl \in 0..m - 1
  BY DEF Wrap
<1>2. g \in [0..m - 1 -> S] /\ g[tl] = e /\ \A k \in 0..m - 1 : k # tl => g[k] = f[k]
  BY <1>1
<1>3. /\ old \in Seq(S) /\ Len(old) = N
      /\ \A i \in 1..N : Wrap(hd + i - 1, n) \in 0..n - 1 /\ old[i] = f[Wrap(hd + i - 1, n)]
  <2>1. RingShape(old, f, hd, N, n, S)
    BY <1>1, RingAt
  <2> HIDE DEF old
  <2> QED BY <2>1 DEF RingShape
<1> HIDE DEF g, old
<1>4. /\ new \in Seq(S) /\ Len(new) = N + 1
      /\ \A i \in 1..N + 1 : Wrap(hd + i - 1, n) \in 0..n - 1 /\ new[i] = g[Wrap(hd + i - 1, n)]
  <2>1. RingShape(new, g, hd, N + 1, n, S)
    BY <1>1, <1>2, RingAt
  <2> QED BY <2>1 DEF RingShape
<1> HIDE DEF new
<1>5. /\ Append(old, e) \in Seq(S) /\ Len(Append(old, e)) = N + 1
      /\ \A i \in 1..N + 1 : Append(old, e)[i] = IF i = N + 1 THEN e ELSE old[i]
  BY <1>3
<1>6. ASSUME NEW i \in 1..N + 1 PROVE new[i] = Append(old, e)[i]
  <2>1. CASE i = N + 1
    <3>1. Wrap(hd + i - 1, n) = tl
      <4>1. hd + i - 1 = hd + N
        BY <2>1
      <4> QED BY <4>1
    <3> QED BY <3>1, <2>1, <1>2, <1>4, <1>5
  <2>2. CASE i # N + 1
    <3>1. i \in 1..N /\ Wrap(hd + i - 1, n) # tl /\ Wrap(hd + i - 1, n) \in 0..m - 1
      BY <2>2, <1>4 DEF Wrap
    <3> QED BY <3>1, <2>2, <1>2, <1>3, <1>4, <1>5
  <2> QED BY <2>1, <2>2
<1>7. new = Append(old, e)
  BY <1>4, <1>5, <1>6, SeqEqual
<1>8. (IF tl + 1 = n THEN 0 ELSE tl + 1) = Wrap(hd + (N + 1), n)
  BY DEF Wrap
<1> QED BY <1>7, <1>8 DEF WriteTailEffect, new, old, g

\* Moving Head back and writing the node there adds a first message.
WriteHeadEffect(f, hd, N, n, e, pv) ==
    /\ RingSeq([f EXCEPT ![pv] = e], pv, N + 1, n) = <<e>> \o RingSeq(f, hd, N, n)
    /\ Wrap(pv + (N + 1), n) = Wrap(hd + N, n)

LEMMA ConsSeq ==
    ASSUME NEW S, NEW l \in Seq(S), NEW e \in S
    PROVE  /\ <<e>> \o l \in Seq(S) /\ Len(<<e>> \o l) = Len(l) + 1
           /\ \A i \in 1..Len(l) + 1 : (<<e>> \o l)[i] = IF i = 1 THEN e ELSE l[i - 1]
<1>0. <<e>> \in Seq(S) /\ Len(<<e>>) = 1 /\ <<e>>[1] = e
  OBVIOUS
<1>1. PICK s \in Seq(S) : s = <<e>> /\ Len(s) = 1 /\ s[1] = e
  BY <1>0
<1>2. s \o l \in Seq(S) /\ Len(s \o l) = Len(l) + 1 /\ Len(l) \in Nat
  BY <1>1
<1>3. \A i \in 1..Len(l) + 1 : (s \o l)[i] = IF i <= 1 THEN s[i] ELSE l[i - 1]
  BY <1>1
<1>4. \A i \in 1..Len(l) + 1 : (s \o l)[i] = IF i = 1 THEN e ELSE l[i - 1]
  BY <1>1, <1>2, <1>3
<1> QED BY <1>1, <1>2, <1>4

LEMMA RingWriteHead ==
    ASSUME NEW m \in Nat, NEW n \in Nat \ {0}, n <= m, NEW hd \in 0..n - 1, NEW N \in 0..n - 1,
           NEW S, NEW f \in [0..m - 1 -> S], NEW e \in S,
           NEW pv, pv = IF hd = 0 THEN n - 1 ELSE hd - 1
    PROVE  WriteHeadEffect(f, hd, N, n, e, pv)
<1> DEFINE g == [f EXCEPT ![pv] = e]
           old == RingSeq(f, hd, N, n)
           new == RingSeq(g, pv, N + 1, n)
<1>1. N \in 0..n /\ N + 1 \in 0..n /\ pv \in 0..n - 1 /\ pv \in 0..m - 1
  OBVIOUS
<1>2. g \in [0..m - 1 -> S] /\ g[pv] = e /\ \A k \in 0..m - 1 : k # pv => g[k] = f[k]
  BY <1>1
<1>3. /\ old \in Seq(S) /\ Len(old) = N
      /\ \A i \in 1..N : Wrap(hd + i - 1, n) \in 0..n - 1 /\ old[i] = f[Wrap(hd + i - 1, n)]
  <2>1. RingShape(old, f, hd, N, n, S)
    BY <1>1, RingAt
  <2> HIDE DEF old
  <2> QED BY <2>1 DEF RingShape
<1> HIDE DEF g, old
<1>4. /\ new \in Seq(S) /\ Len(new) = N + 1
      /\ \A i \in 1..N + 1 : Wrap(pv + i - 1, n) \in 0..n - 1 /\ new[i] = g[Wrap(pv + i - 1, n)]
  <2>1. RingShape(new, g, pv, N + 1, n, S)
    BY <1>1, <1>2, RingAt
  <2> QED BY <2>1 DEF RingShape
<1> HIDE DEF new
<1>5. /\ <<e>> \o old \in Seq(S) /\ Len(<<e>> \o old) = N + 1
      /\ \A i \in 1..N + 1 : (<<e>> \o old)[i] = IF i = 1 THEN e ELSE old[i - 1]
  <2>1. PICK l \in Seq(S) : l = old
    BY <1>3
  <2>2. Len(l) = N
    BY <1>3, <2>1
  <2> QED BY <2>1, <2>2, ConsSeq
<1>6. ASSUME NEW i \in 1..N + 1 PROVE new[i] = (<<e>> \o old)[i]
  <2>1. CASE i = 1
    <3>1. Wrap(pv + i - 1, n) = pv
      BY <2>1, <1>1 DEF Wrap
    <3> QED BY <3>1, <2>1, <1>2, <1>4, <1>5, SMTT(40)
  <2>2. CASE i # 1
    <3>1. /\ i - 1 \in 1..N /\ Wrap(pv + i - 1, n) # pv /\ Wrap(pv + i - 1, n) \in 0..m - 1
          /\ Wrap(pv + i - 1, n) = Wrap(hd + (i - 1) - 1, n)
      BY <2>2, <1>4 DEF Wrap
    <3>2. new[i] = f[Wrap(hd + (i - 1) - 1, n)]
      BY <3>1, <1>2, <1>4
    <3>3. old[i - 1] = f[Wrap(hd + (i - 1) - 1, n)]
      BY <3>1, <1>3
    <3> QED BY <3>2, <3>3, <2>2, <1>5
  <2> QED BY <2>1, <2>2
<1>7. new = <<e>> \o old
  <2>1. PICK a \in Seq(S), b \in Seq(S) : a = new /\ b = <<e>> \o old
    BY <1>4, <1>5, Zenon
  <2>2. Len(a) = N + 1 /\ Len(b) = N + 1
    BY <1>4, <1>5, <2>1, Zenon
  <2>3. \A i \in 1..Len(a) : a[i] = b[i]
    BY <1>6, <2>1, <2>2, Zenon
  <2>4. a = b
    BY <2>2, <2>3, SeqEqual
  <2> QED BY <2>1, <2>4
<1>8. Wrap(pv + (N + 1), n) = Wrap(hd + N, n)
  <2>1. CASE hd = 0
    <3>1. pv + (N + 1) = N + n /\ hd + N = N /\ N < n
      BY <2>1
    <3> QED BY <3>1 DEF Wrap
  <2>2. CASE hd # 0
    <3>1. pv + (N + 1) = hd + N
      BY <2>2
    <3> QED BY <3>1
  <2> QED BY <2>1, <2>2
<1> QED BY <1>7, <1>8 DEF WriteHeadEffect, new, old, g

\* Head, Tail, the length of the ring and the number of messages of a queue in use.
LEMMA RingFacts ==
    ASSUME IInv, NEW q \in InUse
    PROVE  /\ q \in Queues /\ queueLen[q] \in Nat \ {0} /\ queueLen[q] <= MaxLen
           /\ queueHead[q] \in 0..queueLen[q] - 1 /\ queueTail[q] \in 0..queueLen[q] - 1
           /\ Nodes(q, "READ") \in 0..queueLen[q]
           /\ Nodes(q, "READ") + Nodes(q, "WRITE") = queueLen[q]
<1>1. TypeOK /\ q \in Queues
  BY DEF IInv, InUse
<1>2. queueLen[q] \in Nat \ {0} /\ queueLen[q] <= MaxLen
  BY <1>1, QueueAssumption DEF TypeOK
<1>3. queueHead[q] \in Nat /\ queueTail[q] \in Nat
  BY <1>1, QueueAssumption DEF TypeOK
<1>4. queueHead[q] < queueLen[q] /\ queueTail[q] < queueLen[q]
  BY <1>1 DEF IInv, RingBounds
<1>5. Nodes(q, "READ") \in Nat /\ Nodes(q, "WRITE") \in Nat
  BY <1>1, NodeFacts DEF RW
<1>6. Nodes(q, "READ") + Nodes(q, "WRITE") = queueLen[q]
  BY <1>1, ConservedSum DEF IInv
<1> QED BY <1>1, <1>2, <1>3, <1>4, <1>5, <1>6

LEMMA ContentsRing ==
    \A q \in Queues :
        /\ Contents(q) = RingSeq(queueHandle[q], queueHead[q], Nodes(q, "READ"), queueLen[q])
        /\ Contents(q)' = RingSeq(queueHandle'[q], queueHead'[q], Nodes(q, "READ")', queueLen'[q])
BY DEF Contents, RingSeq, Nodes

\* What OsQueueBufferOperate does, seen through the messages.
FinishSeen(q, type, msg) ==
    /\ type = "READ_HEAD" => Contents(q) # <<>> /\ Contents(q)' = Tail(Contents(q))
    /\ type = "WRITE_HEAD" => Contents(q)' = <<msg>> \o Contents(q)
    /\ type = "WRITE_TAIL" => Contents(q)' = Append(Contents(q), msg)
    /\ type # "READ_HEAD" => Len(Contents(q)) < queueLen[q]
    /\ \A p \in Queues : p # q => Contents(p)' = Contents(p)

LEMMA FinishContents ==
    ASSUME RInv, NEW t \in Tasks, NEW q \in Queues, NEW type \in Operations,
           NEW msg \in Msgs \cup {NoMsg}, NEW cnt, FinishContext(t, q, type, msg, cnt)
    PROVE  FinishSeen(q, type, msg) /\ TailPlace'
<1>i. IInv /\ TypeOK /\ TailPlace
  BY DEF RInv, IInv
<1>m. NodeMoves(q, ReadWrite(type))
  BY <1>i, FinishNodes
<1>1. /\ queueState[q] = "INUSED" /\ OsQueueBufferOperate(q, type, msg)
      /\ UNCHANGED <<queueState, queueLen>>
  BY DEF FinishContext, Finish
<1>2. q \in InUse
  BY <1>1 DEF InUse
<1>n. PICK n \in Nat \ {0} : n = queueLen[q] /\ n <= MaxLen
  BY <1>i, <1>2, RingFacts
<1>p. PICK hd \in 0..n - 1, tl \in 0..n - 1, N \in 0..n :
         hd = queueHead[q] /\ tl = queueTail[q] /\ N = Nodes(q, "READ")
  BY <1>i, <1>2, <1>n, RingFacts
<1>3. /\ n = queueLen[q] /\ n <= MaxLen /\ n \in Nat \ {0}
      /\ hd = queueHead[q] /\ tl = queueTail[q] /\ N = Nodes(q, "READ")
      /\ hd \in 0..n - 1 /\ tl \in 0..n - 1 /\ N \in 0..n
  BY <1>n, <1>p
<1>4. PICK f \in [0..MaxLen - 1 -> Msgs \cup {NoMsg}] : f = queueHandle[q]
  BY <1>i DEF TypeOK
<1>5. Contents(q) = RingSeq(f, hd, N, n)
  BY <1>3, <1>4, ContentsRing
<1>6. tl = Wrap(hd + N, n)
  BY <1>i, <1>2, <1>3 DEF TailPlace
<1>7. MaxLen \in Nat /\ NoMsg \in Msgs \cup {NoMsg}
  BY QueueAssumption
<1>8. /\ queueHead \in [Queues -> 0..MaxLen - 1] /\ queueTail \in [Queues -> 0..MaxLen - 1]
      /\ queueHandle \in [Queues -> [0..MaxLen - 1 -> Msgs \cup {NoMsg}]]
      /\ queueLen \in [Queues -> 1..MaxLen]
  BY <1>i DEF TypeOK
<1>9. Nodes(q, "READ")' = IF type = "READ_HEAD" THEN N - 1 ELSE N + 1
  BY <1>3, <1>m DEF NodeMoves, ReadWrite, Operations, RW
<1>10. Nodes(q, "READ") + Nodes(q, "WRITE") = n
  BY <1>i, <1>2, <1>3, RingFacts
<1>11. /\ type = "READ_HEAD" => N \in 1..n
       /\ type # "READ_HEAD" => N \in 0..n - 1
  <2>1. /\ readWriteableCnt'[q]["READ"] \in Nat /\ Cardinality(Promised(q, "READ")') \in Nat
        /\ readWriteableCnt'[q]["WRITE"] \in Nat /\ Cardinality(Promised(q, "WRITE")') \in Nat
    BY <1>m DEF NodeMoves, RW
  <2>2. Nodes(q, "READ")' \in Nat /\ Nodes(q, "WRITE")' \in Nat
    BY <2>1 DEF Nodes
  <2>3. Nodes(q, "WRITE") \in Nat
    BY <1>i, NodeFacts DEF RW
  <2>4. type # "READ_HEAD" => Nodes(q, "WRITE")' = Nodes(q, "WRITE") - 1
    BY <1>m DEF NodeMoves, ReadWrite, Operations, RW
  <2> QED BY <2>2, <2>3, <2>4, <1>3, <1>9, <1>10
<1>12. Len(Contents(q)) = N
  BY <1>i, <1>3, ContentsLen
<1>13. ASSUME NEW p \in Queues, p # q
       PROVE  /\ Contents(p)' = Contents(p)
              /\ queueTail'[p] = queueTail[p] /\ queueHead'[p] = queueHead[p]
              /\ Nodes(p, "READ")' = Nodes(p, "READ")
  <2>1. queueHandle'[p] = queueHandle[p] /\ queueHead'[p] = queueHead[p] /\ queueTail'[p] = queueTail[p]
    BY <1>1, <1>8, <1>13 DEF OsQueueBufferOperate
  <2>2. Nodes(p, "READ")' = Nodes(p, "READ")
    BY <1>m, <1>13 DEF NodeMoves, RW
  <2>3. Contents(p)' = Contents(p)
    BY <2>1, <2>2, <1>1, ContentsRing
  <2> QED BY <2>1, <2>2, <2>3
<1>14. Contents(q)' = RingSeq(queueHandle'[q], queueHead'[q], Nodes(q, "READ")', n)
  BY <1>1, <1>3, ContentsRing
<1>15. CASE type = "READ_HEAD"
  <2>1. PICK nx : nx = IF hd + 1 = n THEN 0 ELSE hd + 1
    OBVIOUS
  <2>2. queueHandle'[q] = [f EXCEPT ![hd] = NoMsg] /\ queueHead'[q] = nx /\ queueTail'[q] = tl
    BY <2>1, <1>1, <1>3, <1>4, <1>8, <1>15 DEF OsQueueBufferOperate
  <2>3. N \in 1..n
    BY <1>11, <1>15
  <2>4. /\ RingSeq([f EXCEPT ![hd] = NoMsg], nx, N - 1, n) = Tail(RingSeq(f, hd, N, n))
        /\ RingSeq(f, hd, N, n) # <<>>
        /\ Wrap(nx + (N - 1), n) = Wrap(hd + N, n)
    <3>1. ReadEffect(f, hd, N, n, NoMsg, nx)
      BY <2>1, <2>3, <1>3, <1>7, RingRead
    <3> QED BY <3>1 DEF ReadEffect
  <2>5. Contents(q)' = Tail(Contents(q)) /\ Contents(q) # <<>>
    BY <2>2, <2>4, <1>5, <1>9, <1>14, <1>15
  <2>6. queueTail'[q] = Wrap(queueHead'[q] + Nodes(q, "READ")', n)
    BY <2>2, <2>4, <1>6, <1>9, <1>15
  <2> QED BY <2>5, <2>6, <1>1, <1>3, <1>13, <1>15, <1>i DEF FinishSeen, TailPlace, InUse
<1>16. CASE type = "WRITE_HEAD"
  <2>1. PICK pv : pv = IF hd = 0 THEN n - 1 ELSE hd - 1
    OBVIOUS
  <2>2. queueHandle'[q] = [f EXCEPT ![pv] = msg] /\ queueHead'[q] = pv /\ queueTail'[q] = tl
    BY <2>1, <1>1, <1>3, <1>4, <1>8, <1>16 DEF OsQueueBufferOperate
  <2>3. N \in 0..n - 1
    BY <1>11, <1>16
  <2>4. /\ RingSeq([f EXCEPT ![pv] = msg], pv, N + 1, n) = <<msg>> \o RingSeq(f, hd, N, n)
        /\ Wrap(pv + (N + 1), n) = Wrap(hd + N, n)
    <3>1. WriteHeadEffect(f, hd, N, n, msg, pv)
      BY <2>1, <2>3, <1>3, <1>7, RingWriteHead
    <3> QED BY <3>1 DEF WriteHeadEffect
  <2>5. Contents(q)' = <<msg>> \o Contents(q)
    <3>1. Contents(q)' = RingSeq([f EXCEPT ![pv] = msg], pv, N + 1, n)
      BY <2>2, <1>9, <1>14, <1>16
    <3> QED BY <3>1, <2>4, <1>5
  <2>7. Len(Contents(q)) < n
    BY <2>3, <1>12
  <2>6. queueTail'[q] = Wrap(queueHead'[q] + Nodes(q, "READ")', n)
    BY <2>2, <2>4, <1>6, <1>9, <1>16
  <2> QED BY <2>5, <2>6, <2>7, <1>1, <1>3, <1>13, <1>16, <1>i DEF FinishSeen, TailPlace, InUse
<1>17. CASE type = "WRITE_TAIL"
  <2>2. /\ queueHandle'[q] = [f EXCEPT ![tl] = msg] /\ queueHead'[q] = hd
        /\ queueTail'[q] = IF tl + 1 = n THEN 0 ELSE tl + 1
    BY <1>1, <1>3, <1>4, <1>8, <1>17 DEF OsQueueBufferOperate
  <2>3. N \in 0..n - 1
    BY <1>11, <1>17
  <2>4. /\ RingSeq([f EXCEPT ![tl] = msg], hd, N + 1, n) = Append(RingSeq(f, hd, N, n), msg)
        /\ (IF tl + 1 = n THEN 0 ELSE tl + 1) = Wrap(hd + (N + 1), n)
    <3>1. WriteTailEffect(f, hd, N, n, msg, tl)
      BY <2>3, <1>3, <1>6, <1>7, RingWriteTail
    <3> QED BY <3>1 DEF WriteTailEffect
  <2>5. Contents(q)' = Append(Contents(q), msg)
    <3>1. Contents(q)' = RingSeq([f EXCEPT ![tl] = msg], hd, N + 1, n)
      BY <2>2, <1>9, <1>14, <1>17
    <3> QED BY <3>1, <2>4, <1>5
  <2>7. Len(Contents(q)) < n
    BY <2>3, <1>12
  <2>6. queueTail'[q] = Wrap(queueHead'[q] + Nodes(q, "READ")', n)
    BY <2>2, <2>4, <1>9, <1>17
  <2> QED BY <2>5, <2>6, <2>7, <1>1, <1>3, <1>13, <1>17, <1>i DEF FinishSeen, TailPlace, InUse
<1> QED BY <1>15, <1>16, <1>17 DEF Operations

\* Only the queue of the operation changes, and it keeps its handle: one read or write.
LEMMA FinishRefines ==
    ASSUME RInv, NEW t \in Tasks, NEW h \in QueueIDs, NEW type \in Operations,
           NEW msg \in Payload(type), NEW cnt, FinishContext(t, h[2], type, msg, cnt), IsValid(h)
    PROVE  Abs!Next
<1>1. PICK q \in Queues : q = h[2]
  BY HandleFacts
<1>2. msg \in Msgs \cup {NoMsg}
  BY DEF Payload
<1>3. FinishSeen(q, type, msg)
  BY <1>1, <1>2, FinishContents
<1>4. UNCHANGED <<queueState, queueGen, queueLen>>
  BY DEF FinishContext
<1>5. \A g \in QueueIDs : IsValid(g)' <=> IsValid(g)
  BY <1>4 DEF IsValid, QueueID
<1>6. Capacity' = Capacity
  BY <1>4, <1>5 DEF Capacity
<1>7. Messages[h] = Contents(q) /\ Messages'[h] = Contents(q)' /\ Capacity[h] = queueLen[q]
  BY <1>1, <1>5 DEF Messages, Capacity
<1>8. ASSUME NEW g \in QueueIDs, g # h PROVE Messages'[g] = Messages[g]
  <2>1. CASE IsValid(g)
    <3>1. g[2] # q /\ g[2] \in Queues
      BY <2>1, <1>1, <1>8, HandleFacts DEF IsValid
    <3>2. Contents(g[2])' = Contents(g[2])
      BY <3>1, <1>3 DEF FinishSeen
    <3> QED BY <3>2, <2>1, <1>5 DEF Messages
  <2>2. CASE ~IsValid(g)
    BY <2>2, <1>5 DEF Messages
  <2> QED BY <2>1, <2>2
<1>9. Messages' = [Messages EXCEPT ![h] = Contents(q)']
  <2>1. PICK c : c = Contents(q)'
    OBVIOUS
  <2>2. PICK M : M = Messages'
    OBVIOUS
  <2>3. DOMAIN M = QueueIDs /\ M = [g \in QueueIDs |-> M[g]]
    BY <2>2 DEF Messages
  <2>4. DOMAIN Messages = QueueIDs /\ Messages = [g \in QueueIDs |-> Messages[g]]
    BY DEF Messages
  <2>5. M = [Messages EXCEPT ![h] = c]
    BY <2>1, <2>2, <2>3, <2>4, <1>7, <1>8
  <2> QED BY <2>1, <2>2, <2>5
<1>10. Capacity[h] # 0
  BY <1>1, <1>7, QueueAssumption DEF RInv, IInv, TypeOK
<1>11. CASE type = "READ_HEAD"
  <2>1. Abs!Read(h)
    BY <1>3, <1>6, <1>7, <1>9, <1>10, <1>11 DEF FinishSeen, Abs!Read, Abs!Live
  <2> QED BY <2>1 DEF Abs!Next
<1>12. CASE type # "READ_HEAD"
  <2>1. msg \in Msgs
    BY <1>12 DEF Payload
  <2>2. Contents(q)' = <<msg>> \o Contents(q) \/ Contents(q)' = Append(Contents(q), msg)
    BY <1>3, <1>12 DEF FinishSeen, Operations
  <2>3. Len(Contents(q)) < queueLen[q]
    BY <1>3, <1>12 DEF FinishSeen
  <2>4. Abs!Write(h, msg)
    BY <2>2, <2>3, <1>6, <1>7, <1>9, <1>10 DEF Abs!Write, Abs!Live
  <2> QED BY <2>1, <2>4 DEF Abs!Next
<1> QED BY <1>11, <1>12

\* A step that leaves the rings, the counts and the promised nodes alone is not seen.
LEMMA QuietRefines ==
    ASSUME \A u \in Tasks : (taskStatus'[u] = "WOKEN" \/ u \in abandoned')
                              <=> (taskStatus[u] = "WOKEN" \/ u \in abandoned),
           \A u \in Tasks : taskStatus[u] = "WOKEN" \/ u \in abandoned => call'[u] = call[u],
           UNCHANGED <<queueState, queueGen, queueLen, ringVars, readWriteableCnt>>
    PROVE  UNCHANGED <<Capacity, Messages>> /\ (TailPlace => TailPlace')
<1>1. \A q \in Queues, rw \in RW : Promised(q, rw)' = Promised(q, rw)
  BY DEF Promised
<1>2. \A q \in Queues : Nodes(q, "READ")' = Nodes(q, "READ")
  BY <1>1 DEF Nodes, RW
<1>3. \A q \in Queues : Contents(q)' = Contents(q)
  BY <1>2, ContentsRing DEF ringVars
<1>4. \A g \in QueueIDs : IsValid(g)' <=> IsValid(g)
  BY DEF IsValid, QueueID
<1>5. UNCHANGED <<Capacity, Messages>>
  BY <1>3, <1>4, HandleFacts DEF Capacity, Messages
<1>6. TailPlace => TailPlace'
  BY <1>2 DEF TailPlace, InUse, ringVars
<1> QED BY <1>5, <1>6

\* Whoever is in a call after the step was in the same call before, or has just made it.
LEMMA PayloadStep ==
    ASSUME CallPayload,
           \A u \in Tasks : (IsPending(u) \/ taskStatus[u] = "WOKEN")' =>
               \/ call'[u] = call[u] /\ (IsPending(u) \/ taskStatus[u] = "WOKEN")
               \/ call'[u].msg \in Payload(call'[u].type)
    PROVE  CallPayload'
BY DEF CallPayload, Payload

\* What a step is in AbsQueue, and what the mapping needs of the next state.
Refines == /\ Abs!Next \/ UNCHANGED <<Capacity, Messages>>
           /\ TailPlace'
           /\ CallPayload'

LEMMA FinishAll ==
    ASSUME RInv, NEW t \in Tasks, NEW h \in QueueIDs, NEW type \in Operations,
           NEW msg \in Payload(type), NEW cnt, FinishContext(t, h[2], type, msg, cnt), IsValid(h)
    PROVE  Refines
<1>1. h[2] \in Queues /\ msg \in Msgs \cup {NoMsg} /\ IInv
  BY HandleFacts DEF Payload, RInv
<1>2. TailPlace'
  BY <1>1, FinishContents
<1>3. PICK W \in SUBSET Tasks : FinishEffect(t, h[2], type, W)
  BY <1>1, FinishPromised
<1>4. \A u \in Tasks : (IsPending(u) \/ taskStatus[u] = "WOKEN")' =>
                          call'[u] = call[u] /\ (IsPending(u) \/ taskStatus[u] = "WOKEN")
  BY <1>3 DEF FinishEffect, FinishContext, IsPending
<1>5. CallPayload'
  BY <1>4, PayloadStep DEF RInv
<1> QED BY <1>2, <1>5, FinishRefines DEF Refines

LEMMA OperateRefines ==
    ASSUME RInv, NEW t \in Tasks, NEW h \in QueueIDs, NEW type \in Operations,
           NEW timeout \in Timeouts, NEW msg \in Payload(type),
           OsQueueOperate(t, h, type, msg, timeout), UNCHANGED abandoned
    PROVE  Refines
<1>1. PICK q \in Queues : q = h[2]
  BY HandleFacts
<1>2. IInv /\ TypeOK /\ IsValid(h)
  BY DEF RInv, IInv, OsQueueOperate
<1>3. CASE readWriteableCnt[q][ReadWrite(type)] > 0
  <2>1. PICK cnt : FinishContext(t, h[2], type, msg, cnt)
    BY <1>1, <1>2, <1>3, OperateContext
  <2> QED BY <2>1, <1>2, FinishAll
<1>4. CASE ~(readWriteableCnt[q][ReadWrite(type)] > 0)
  <2>1. /\ taskStatus[t] = "RUN" /\ taskStatus' = HPFWait(t, timeout)
        /\ call' = [call EXCEPT ![t] = [id |-> h, type |-> type, msg |-> msg]]
        /\ UNCHANGED <<queueState, queueGen, queueLen, ringVars, readWriteableCnt, abandoned>>
    BY <1>1, <1>4 DEF OsQueueOperate, Running
  <2>2. t \notin abandoned
    BY <2>1, <1>2 DEF IInv, PromiseHandles
  <2>3. \A u \in Tasks : (taskStatus'[u] = "WOKEN" \/ u \in abandoned')
                           <=> (taskStatus[u] = "WOKEN" \/ u \in abandoned)
    BY <2>1, <1>2 DEF HPFWait, TypeOK
  <2>4. /\ \A u \in Tasks : u # t => call'[u] = call[u] /\ taskStatus'[u] = taskStatus[u]
        /\ call'[t].msg = msg /\ call'[t].type = type
    BY <2>1, <1>2 DEF HPFWait, TypeOK
  <2>5. UNCHANGED <<Capacity, Messages>> /\ TailPlace'
    BY <2>1, <2>2, <2>3, <2>4, QuietRefines DEF RInv
  <2>6. CallPayload'
    BY <2>4, PayloadStep DEF RInv, IsPending
  <2> QED BY <2>5, <2>6 DEF Refines
<1> QED BY <1>3, <1>4

LEMMA WokenRefines ==
    ASSUME RInv, NEW t \in Tasks, QueueOperateWoken(t), UNCHANGED abandoned
    PROVE  Refines
<1>1. /\ IsValid(call[t].id) /\ call[t].id \in QueueIDs /\ call[t].type \in Operations
      /\ FinishContext(t, call[t].id[2], call[t].type, call[t].msg, readWriteableCnt)
  BY WokenContext DEF RInv
<1>2. call[t].msg \in Payload(call[t].type)
  BY DEF QueueOperateWoken, RInv, CallPayload
<1> QED BY <1>1, <1>2, FinishAll

LEMMA QuietActions ==
    ASSUME RInv, NEW t \in Tasks,
           \/ QueueOperateTimedOut(t) /\ UNCHANGED abandoned
           \/ QueueTimeout(t) /\ UNCHANGED abandoned
           \/ LOS_TaskDelete(t)
    PROVE  Refines
<1>1. UNCHANGED <<queueState, queueGen, queueLen, ringVars, readWriteableCnt, call>>
  BY DEF QueueOperateTimedOut, QueueTimeout, LOS_TaskDelete
<1>2. /\ \A u \in Tasks : u # t => taskStatus'[u] = taskStatus[u]
      /\ taskStatus'[t] \in {"RUN", "TIMEOUT", "UNUSED"}
      /\ taskStatus[t] = "WOKEN" => t \in abandoned'
      /\ \A u \in Tasks : u \in abandoned' <=> u \in abandoned \/ (u = t /\ taskStatus[t] = "WOKEN")
  BY DEF QueueOperateTimedOut, QueueTimeout, LOS_TaskDelete, HPFWaitReturn, SchedTimeoutTaskWake,
         RInv, IInv, TypeOK
<1>3. \A u \in Tasks : (taskStatus'[u] = "WOKEN" \/ u \in abandoned')
                         <=> (taskStatus[u] = "WOKEN" \/ u \in abandoned)
  BY <1>2
<1>4. UNCHANGED <<Capacity, Messages>> /\ TailPlace'
  BY <1>1, <1>3, QuietRefines DEF RInv
<1>5. CallPayload'
  BY <1>1, <1>2, PayloadStep DEF RInv, IsPending
<1> QED BY <1>4, <1>5 DEF Refines

\* A function of the handles that a step changes at one handle.
LEMMA OneHandle ==
    ASSUME NEW h \in QueueIDs, NEW F, NEW G, NEW v,
           F = [g \in QueueIDs |-> F[g]], G = [g \in QueueIDs |-> G[g]],
           G[h] = v, \A g \in QueueIDs : g # h => G[g] = F[g]
    PROVE  G = [F EXCEPT ![h] = v]
OBVIOUS

LEMMA CreateRefines ==
    ASSUME RInv, NEW t \in Tasks, NEW len \in 1..MaxLen, LOS_QueueCreate(t, len),
           UNCHANGED abandoned
    PROVE  Refines
<1>0. TypeOK /\ IInv /\ FREE_QUEUE_LIST \in Seq(Queues) /\ FREE_QUEUE_LIST # <<>>
  BY DEF RInv, IInv, TypeOK, LOS_QueueCreate
<1>q. PICK q \in Queues : q = Head(FREE_QUEUE_LIST)
  BY <1>0, TailList
<1>1. queueState[q] = "UNUSED"
  <2>1. q \in ToSet(FREE_QUEUE_LIST)
    BY <1>0, <1>q, TailList DEF IInv, FreeListExact
  <2> QED BY <2>1, <1>0 DEF IInv, FreeListExact
<1>2. /\ queueState'[q] = "INUSED" /\ queueLen'[q] = len /\ queueHead'[q] = 0 /\ queueTail'[q] = 0
      /\ readWriteableCnt'[q]["READ"] = 0
      /\ UNCHANGED <<taskStatus, queueGen, call, abandoned>>
  BY <1>0, <1>q DEF LOS_QueueCreate, TypeOK
<1>3. ASSUME NEW p \in Queues, p # q
      PROVE  /\ queueState'[p] = queueState[p] /\ queueLen'[p] = queueLen[p]
             /\ queueHead'[p] = queueHead[p] /\ queueTail'[p] = queueTail[p]
             /\ queueHandle'[p] = queueHandle[p] /\ readWriteableCnt'[p] = readWriteableCnt[p]
  BY <1>0, <1>3, <1>q DEF LOS_QueueCreate, TypeOK
<1>4. \A p \in Queues : Promised(p, "READ")' = Promised(p, "READ")
  BY <1>2 DEF Promised
<1>5. Promised(q, "READ") = {}
  BY <1>0, <1>1 DEF IInv, PromiseHandles, Promised, IsValid
<1>6. Nodes(q, "READ")' = 0
  <2>1. Cardinality(Promised(q, "READ")') = 0
    BY <1>4, <1>5, FS_EmptySet
  <2> QED BY <2>1, <1>2 DEF Nodes
<1>7. \A p \in Queues : p # q => /\ Nodes(p, "READ")' = Nodes(p, "READ")
                                 /\ Contents(p)' = Contents(p)
  <2>1. ASSUME NEW p \in Queues, p # q PROVE Nodes(p, "READ")' = Nodes(p, "READ")
    BY <2>1, <1>3, <1>4 DEF Nodes
  <2> QED BY <2>1, <1>3, ContentsRing
<1>8. Contents(q)' = <<>>
  BY <1>6, ContentsRing DEF RingSeq
<1>9. TailPlace'
  <2>1. Wrap(0 + 0, len) = 0
    BY DEF Wrap
  <2>2. ASSUME NEW p \in InUse'
        PROVE  queueTail'[p] = Wrap(queueHead'[p] + Nodes(p, "READ")', queueLen'[p])
    <3>1. CASE p = q
      BY <2>1, <3>1, <1>2, <1>6
    <3>2. CASE p # q
      BY <2>2, <3>2, <1>3, <1>7 DEF InUse, RInv, TailPlace
    <3> QED BY <3>1, <3>2
  <2> QED BY <2>2 DEF TailPlace
<1>10. CallPayload'
  BY <1>2, PayloadStep DEF RInv, IsPending
<1>11. PICK h \in QueueIDs : h = <<queueGen[q], q>>
  BY <1>0 DEF TypeOK, QueueIDs
<1>12. ~IsValid(h) /\ IsValid(h)' /\ h[2] = q
  BY <1>1, <1>2, <1>11 DEF IsValid, QueueID
<1>13. ASSUME NEW g \in QueueIDs, g # h
       PROVE  Capacity'[g] = Capacity[g] /\ Messages'[g] = Messages[g]
  <2>1. CASE g[2] = q
    <3>1. ~IsValid(g) /\ ~IsValid(g)'
      BY <2>1, <1>2, <1>11, <1>13 DEF IsValid, QueueID
    <3> QED BY <3>1 DEF Capacity, Messages
  <2>2. CASE g[2] # q
    <3>1. g[2] \in Queues /\ (IsValid(g)' <=> IsValid(g))
      BY <2>2, <1>2, <1>3, HandleFacts DEF IsValid, QueueID
    <3> QED BY <3>1, <2>2, <1>3, <1>7 DEF Capacity, Messages
  <2> QED BY <2>1, <2>2
<1>14. Capacity[h] = 0 /\ Capacity'[h] = len /\ Messages[h] = <<>> /\ Messages'[h] = <<>>
  BY <1>2, <1>8, <1>12 DEF Capacity, Messages
<1>15. Capacity' = [Capacity EXCEPT ![h] = len]
  <2>1. PICK G : G = Capacity'
    OBVIOUS
  <2>2. Capacity = [g \in QueueIDs |-> Capacity[g]] /\ G = [g \in QueueIDs |-> G[g]]
    BY <2>1 DEF Capacity
  <2>3. G[h] = len /\ \A g \in QueueIDs : g # h => G[g] = Capacity[g]
    BY <2>1, <1>13, <1>14
  <2>4. G = [Capacity EXCEPT ![h] = len]
    BY <2>2, <2>3, OneHandle
  <2> QED BY <2>1, <2>4
<1>16. Messages' = Messages
  <2>1. \A g \in QueueIDs : Messages'[g] = Messages[g]
    BY <1>13, <1>14
  <2>2. PICK G : G = Messages'
    OBVIOUS
  <2>3. Messages = [g \in QueueIDs |-> Messages[g]] /\ G = [g \in QueueIDs |-> G[g]]
    BY <2>2 DEF Messages
  <2>4. G = Messages
    BY <2>1, <2>2, <2>3
  <2> QED BY <2>2, <2>4
<1>17. Abs!Create(h, len)
  BY <1>14, <1>15, <1>16 DEF Abs!Create, Abs!Live
<1>18. Abs!Next
  BY <1>17 DEF Abs!Next
<1> QED BY <1>9, <1>10, <1>18 DEF Refines

LEMMA DeleteRefines ==
    ASSUME RInv, NEW t \in Tasks, NEW h \in QueueIDs, LOS_QueueDelete(t, h), UNCHANGED abandoned
    PROVE  Refines
<1>0. TypeOK /\ IInv
  BY DEF RInv, IInv
<1>q. PICK q \in Queues : q = h[2]
  BY HandleFacts
<1>1. /\ IsValid(h) /\ queueState'[q] = "UNUSED"
      /\ \A p \in Queues : p # q => queueState'[p] = queueState[p] /\ queueGen'[p] = queueGen[p]
      /\ UNCHANGED <<taskStatus, queueLen, ringVars, readWriteableCnt, call, abandoned>>
  BY <1>0, <1>q DEF LOS_QueueDelete, TypeOK
<1>2. \A p \in Queues : Promised(p, "READ")' = Promised(p, "READ")
  BY <1>1 DEF Promised
<1>3. \A p \in Queues : Nodes(p, "READ")' = Nodes(p, "READ")
  BY <1>1, <1>2 DEF Nodes
<1>4. \A p \in Queues : Contents(p)' = Contents(p)
  BY <1>1, <1>3, ContentsRing DEF ringVars
<1>5. TailPlace'
  <2>1. InUse' \subseteq InUse /\ InUse \subseteq Queues
    BY <1>1 DEF InUse
  <2> QED BY <2>1, <1>1, <1>3 DEF TailPlace, RInv, ringVars
<1>6. CallPayload'
  BY <1>1, PayloadStep DEF RInv, IsPending
<1>7. ~IsValid(h)'
  BY <1>1, <1>q DEF IsValid
<1>8. ASSUME NEW g \in QueueIDs, g # h
      PROVE  Capacity'[g] = Capacity[g] /\ Messages'[g] = Messages[g]
  <2>1. CASE g[2] = q
    <3>1. ~IsValid(g) /\ ~IsValid(g)'
      BY <2>1, <1>1, <1>8, <1>q DEF IsValid
    <3> QED BY <3>1 DEF Capacity, Messages
  <2>2. CASE g[2] # q
    <3>1. g[2] \in Queues /\ (IsValid(g)' <=> IsValid(g))
      BY <2>2, <1>1, HandleFacts DEF IsValid, QueueID
    <3> QED BY <3>1, <1>1, <1>4 DEF Capacity, Messages
  <2> QED BY <2>1, <2>2
<1>9. Capacity[h] # 0 /\ Capacity'[h] = 0 /\ Messages'[h] = <<>>
  BY <1>0, <1>1, <1>7, <1>q, QueueAssumption DEF Capacity, Messages, TypeOK
<1>10. Capacity' = [Capacity EXCEPT ![h] = 0]
  <2>1. PICK G : G = Capacity'
    OBVIOUS
  <2>2. Capacity = [g \in QueueIDs |-> Capacity[g]] /\ G = [g \in QueueIDs |-> G[g]]
    BY <2>1 DEF Capacity
  <2>3. G[h] = 0 /\ \A g \in QueueIDs : g # h => G[g] = Capacity[g]
    BY <2>1, <1>8, <1>9
  <2>4. G = [Capacity EXCEPT ![h] = 0]
    BY <2>2, <2>3, OneHandle
  <2> QED BY <2>1, <2>4
<1>11. Messages' = [Messages EXCEPT ![h] = <<>>]
  <2>1. PICK G : G = Messages'
    OBVIOUS
  <2>2. Messages = [g \in QueueIDs |-> Messages[g]] /\ G = [g \in QueueIDs |-> G[g]]
    BY <2>1 DEF Messages
  <2>3. G[h] = <<>> /\ \A g \in QueueIDs : g # h => G[g] = Messages[g]
    BY <2>1, <1>8, <1>9
  <2>4. G = [Messages EXCEPT ![h] = <<>>]
    BY <2>2, <2>3, OneHandle
  <2> QED BY <2>1, <2>4
<1>12. Abs!Destroy(h)
  BY <1>9, <1>10, <1>11 DEF Abs!Destroy, Abs!Live
<1>13. Abs!Next
  BY <1>12 DEF Abs!Next
<1> QED BY <1>5, <1>6, <1>13 DEF Refines

LEMMA NextRefines == RInv /\ [Next]_vars => RInv' /\ [Abs!Next]_<<Capacity, Messages>>
<1> SUFFICES ASSUME RInv, [Next]_vars PROVE RInv' /\ [Abs!Next]_<<Capacity, Messages>>
  OBVIOUS
<1>1. IInv'
  BY NextIInv DEF RInv
<1>2. CASE UNCHANGED vars
  <2>1. UNCHANGED <<Capacity, Messages>> /\ TailPlace'
    BY <1>2, QuietRefines DEF vars, RInv
  <2>2. CallPayload'
    BY <1>2, PayloadStep DEF vars, RInv, IsPending
  <2> QED BY <2>1, <2>2, <1>1 DEF RInv
<1>3. CASE Next
  <2>1. Refines
    BY <1>3, CreateRefines, OperateRefines, WokenRefines, QuietActions, DeleteRefines DEF Next
  <2> QED BY <2>1, <1>1 DEF Refines, RInv
<1> QED BY <1>2, <1>3

\* The ring with its counts and hand-overs implements a bounded double-ended queue per
\* handle: no message is lost, duplicated, overwritten or read out of order, whatever
\* timeouts, deletions and reuse of control blocks come between.
THEOREM Refinement == Spec => ImplementsQueue
<1>1. Init => RInv /\ Abs!Init
  <2> SUFFICES ASSUME Init PROVE TailPlace /\ CallPayload /\ Abs!Init
    BY InitIInv DEF RInv
  <2>1. TailPlace /\ CallPayload
    BY DEF Init, TailPlace, InUse, CallPayload, IsPending
  <2>2. \A h \in QueueIDs : ~IsValid(h)
    BY HandleFacts DEF Init, IsValid
  <2>3. Abs!Init
    BY <2>2 DEF Capacity, Messages, Abs!Init
  <2> QED BY <2>1, <2>3
<1> QED BY <1>1, NextRefines, PTL DEF Spec, ImplementsQueue, Abs!Spec

=============================================================================

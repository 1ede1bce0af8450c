---------------------------- MODULE LosMux_proofs ----------------------------
(***************************************************************************)
(* Proofs about LosMux, for any tasks, mutexes, attributes and priorities: *)
(* owner, count and hold lists agree, no waiter is stranded, and no task   *)
(* forgets its original priority, however locks, unlocks, timeouts and     *)
(* deletions interleave; and what the comments promise about priorities,   *)
(* for the simple use of mutexes and tasks of one process priority.        *)
(***************************************************************************)
EXTENDS LosMux, LosListLemmas

-----------------------------------------------------------------------------
(* The inductive invariant                                                  *)

\* One task's priority p and saved priorities bits, when it started with init: the saved
\* ones are lower than p, and init is the lowest of them, or p itself when there is none.
PrioOne(p, bits, init) ==
    /\ p \in Nat /\ bits \subseteq Nat
    /\ \A b \in bits : p < b /\ b <= init
    /\ bits = {} => p = init
    /\ bits # {} => init \in bits

PrioOK ==
    /\ priority \in [Tasks -> Nat] /\ priBitmap \in [Tasks -> SUBSET Nat]
    /\ \A t \in Tasks : PrioOne(priority[t], priBitmap[t], InitPrio[t])

MuxTypeOK ==
    /\ taskStatus \in [Tasks -> TaskStatus]
    /\ magic \in [Muxes -> BOOLEAN]
    /\ attr \in [Muxes -> MuxAttrs \cup {ZeroAttr}]
    /\ muxCount \in [Muxes -> 0..MuxCountMax]
    /\ owner \in [Muxes -> Tasks \cup {NULL}]
    /\ muxList \in [Muxes -> Seq(Tasks)]
    /\ taskMux \in [Tasks -> Muxes \cup {NULL}]
    /\ lockList \in [Tasks -> Seq(Muxes)]
    /\ pendMux \in [Tasks -> Muxes \cup {NULL}]
    /\ deleting \in Tasks \cup {NULL}
    /\ fault \in BOOLEAN /\ disciplined \in BOOLEAN

\* Who waits for a mutex is in its list, once, and in no other list.
WaitOK ==
    \A m \in Muxes :
        /\ IsInjective(muxList[m])
        /\ \A t \in ToSet(muxList[m]) : IsPending(t) /\ taskMux[t] = m

\* A dead mutex is free, a mutex with waiters is not, its owner lives, and only a recursive
\* one is locked more than once.
LiveOK ==
    \A m \in Muxes :
        /\ muxCount[m] > 1 => attr[m].type = "RECURSIVE"
        /\ ~magic[m] => owner[m] = NULL
        /\ muxList[m] # <<>> => owner[m] # NULL
        /\ owner[m] # NULL => taskStatus[owner[m]] # "UNUSED"

\* A task in a lock knows the mutex.
PendOK == \A t \in Tasks : taskStatus[t] \in {"PENDING", "PEND_TIME", "WOKEN", "TIMEOUT"} =>
              pendMux[t] \in Muxes

Struct == MuxTypeOK /\ OwnerAgrees /\ WaitOK /\ LiveOK /\ PendOK

IInv == PrioOK /\ Struct

-----------------------------------------------------------------------------
(* The invariant of the simple use, for tasks of one class                  *)

Sorted(prio, l) == \A i, j \in 1..Len(l) : i < j => prio[l[i]] <= prio[l[j]]

\* A task owns one mutex at most, and waits for no other while it does.
OneMutex ==
    \A m \in Muxes, n \in Muxes :
        /\ owner[m] # NULL /\ owner[m] = owner[n] => m = n
        /\ \A t \in ToSet(muxList[m]) : owner[n] = t => n = m

NobodyLeaves == deleting = NULL /\ \A t \in Tasks : taskStatus[t] # "TIMEOUT"

\* The priorities that the owner o of m can have inherited.
Lent(m, o) == {priority[w] : w \in ToSet(muxList[m]) \ {o}}

\* What the owner o of m runs at and goes back to.
OwnerPrio(m, o) ==
    /\ attr[m].protocol = "PRIO_INHERIT" =>
          /\ priority[o] \in Lent(m, o) \cup {InitPrio[o]}
          /\ priBitmap[o] \subseteq Lent(m, o) \cup {InitPrio[o]}
          /\ \A w \in ToSet(muxList[m]) : priority[o] <= priority[w]
    /\ attr[m].protocol = "PRIO_NONE" => priority[o] = InitPrio[o]
    /\ attr[m].protocol = "PRIO_PROTECT" => priBitmap[o] \subseteq {InitPrio[o]}

\* The waiters are in order, unless the owner waits for itself and is raised in the list.
InOrder(m) ==
    /\ \A w \in ToSet(muxList[m]) : priority[Head(muxList[m])] <= priority[w]
    /\ owner[m] \notin ToSet(muxList[m]) => Sorted(priority, muxList[m])

Simple ==
    /\ NobodyLeaves
    /\ OneMutex
    /\ \A t \in Tasks : (\A m \in Muxes : owner[m] # t) => priority[t] = InitPrio[t]
    /\ \A m \in Muxes : owner[m] # NULL => OwnerPrio(m, owner[m])
    /\ \A m \in Muxes : InOrder(m)

DInv == disciplined => Simple /\ OneClass

-----------------------------------------------------------------------------
(* Priorities                                                               *)

\* Raising a task keeps its original priority among the saved ones.
LEMMA RaiseOne ==
    ASSUME NEW init \in Nat, NEW p, NEW bits, PrioOne(p, bits, init), NEW q \in Nat, q < p
    PROVE  PrioOne(q, bits \cup {p}, init)
<1>1. p \in Nat /\ bits \subseteq Nat /\ p <= init
  <2>1. CASE bits = {}
    BY <2>1 DEF PrioOne
  <2>2. CASE bits # {}
    BY <2>2 DEF PrioOne
  <2> QED BY <2>1, <2>2
<1>2. \A b \in bits \cup {p} : q < b /\ b <= init
  BY <1>1 DEF PrioOne
<1>3. init \in bits \cup {p}
  BY DEF PrioOne
<1> QED BY <1>1, <1>2, <1>3 DEF PrioOne

\* LOS_HighBitGet of the saved priorities is the original one.
LEMMA HighBit ==
    ASSUME NEW init \in Nat, NEW p, NEW bits, PrioOne(p, bits, init), bits # {}
    PROVE  LOS_HighBitGet(bits) = init
<1>1. init \in bits /\ \A b \in bits : b \in Nat /\ b <= init
  BY DEF PrioOne
<1>2. init \in bits /\ \A y \in bits : init >= y
  BY <1>1
<1>3. Max(bits) \in bits /\ \A y \in bits : Max(bits) >= y
  BY <1>2 DEF Max
<1>4. PICK x \in bits : x = Max(bits)
  BY <1>3
<1>5. x \in Nat /\ x <= init /\ x >= init
  BY <1>1, <1>3, <1>4
<1>6. x = init
  BY <1>5
<1> QED BY <1>4, <1>6 DEF LOS_HighBitGet

\* Forgetting saved priorities other than the original one, at the same priority ...
LEMMA DropOne ==
    ASSUME NEW init \in Nat, NEW p, NEW bits, PrioOne(p, bits, init),
           NEW kept \in SUBSET bits, bits # {} => init \in kept
    PROVE  PrioOne(p, kept, init)
BY DEF PrioOne

\* ... and going back to the highest of those that are kept.
LEMMA LowerOne ==
    ASSUME NEW init \in Nat, NEW p, NEW bits, PrioOne(p, bits, init), bits # {},
           NEW kept \in SUBSET bits, init \in kept
    PROVE  /\ LOS_LowBitGet(kept) \in kept
           /\ PrioOne(LOS_LowBitGet(kept), kept \ {LOS_LowBitGet(kept)}, init)
<1>1. kept \in SUBSET Nat /\ \A b \in kept : b <= init
  BY DEF PrioOne
<1>2. PICK x \in kept : \A y \in kept : x <= y
  BY <1>1, NatMin
<1>3. Min(kept) \in kept /\ \A y \in kept : Min(kept) <= y
  BY <1>2 DEF Min
<1>4. PICK low : low = LOS_LowBitGet(kept)
  OBVIOUS
<1>5. low \in kept /\ low \in Nat /\ \A y \in kept : low <= y
  BY <1>1, <1>3, <1>4 DEF LOS_LowBitGet
<1>6. \A b \in kept \ {low} : low < b /\ b <= init
  BY <1>1, <1>5
<1>7. kept \ {low} = {} => low = init
  BY <1>5
<1>8. ASSUME kept \ {low} # {} PROVE init \in kept \ {low}
  <2>1. PICK b \in kept : b # low
    BY <1>8
  <2>2. low < b /\ b <= init
    BY <1>6, <2>1
  <2>3. low # init
    BY <2>2, <1>1, <1>5
  <2> QED BY <2>3
<1>9. PrioOne(low, kept \ {low}, init)
  BY <1>1, <1>5, <1>6, <1>7, <1>8 DEF PrioOne
<1> QED BY <1>4, <1>5, <1>9

LEMMA PrioBut ==
    ASSUME PrioOK, NEW o \in Tasks, NEW p \in Nat, NEW bits \in SUBSET Nat,
           priority' = [priority EXCEPT ![o] = p], priBitmap' = [priBitmap EXCEPT ![o] = bits],
           PrioOne(p, bits, InitPrio[o])
    PROVE  PrioOK'
BY DEF PrioOK

LEMMA PrioSame == ASSUME PrioOK, UNCHANGED prioVars PROVE PrioOK'
BY DEF PrioOK, prioVars

LEMMA InheritKeeps ==
    ASSUME PrioOK, NEW o \in Tasks, NEW prio \in Nat, HPFPriorityInheritance(o, prio)
    PROVE  PrioOK'
<1>0. /\ priority \in [Tasks -> Nat] /\ priBitmap \in [Tasks -> SUBSET Nat] /\ InitPrio[o] \in Nat
      /\ PrioOne(priority[o], priBitmap[o], InitPrio[o])
  BY MuxAssumption DEF PrioOK
<1>1. CASE priority[o] <= prio
  BY <1>1, PrioSame DEF HPFPriorityInheritance
<1>2. CASE ~(priority[o] <= prio)
  <2>1. /\ priBitmap' = [priBitmap EXCEPT ![o] = priBitmap[o] \cup {priority[o]}]
        /\ priority' = [priority EXCEPT ![o] = prio]
    BY <1>2 DEF HPFPriorityInheritance
  <2>2. prio < priority[o] /\ priBitmap[o] \cup {priority[o]} \in SUBSET Nat
    BY <1>0, <1>2
  <2>3. PrioOne(prio, priBitmap[o] \cup {priority[o]}, InitPrio[o])
    BY <1>0, <2>2, RaiseOne
  <2> QED BY <2>1, <2>2, <2>3, PrioBut
<1> QED BY <1>1, <1>2

\* What HPFPriorityRestore does to the priority and the saved priorities of o.
Restored(o, list, prio) ==
    \/ /\ priority[o] < prio
       /\ UNCHANGED priority
       /\ priBitmap' = [priBitmap EXCEPT ![o] = @ \ IF InitPrio[o] = prio THEN {} ELSE {prio}]
    \/ /\ ~(priority[o] < prio) /\ priBitmap[o] = {} /\ UNCHANGED prioVars
    \/ /\ ~(priority[o] < prio) /\ priBitmap[o] # {}
       /\ \E kept \in SUBSET priBitmap[o] :
             /\ kept = {b \in priBitmap[o] : b = InitPrio[o] \/ \A w \in ToSet(list) : priority[w] # b}
             /\ priority' = [priority EXCEPT ![o] = LOS_LowBitGet(kept)]
             /\ priBitmap' = [priBitmap EXCEPT ![o] = kept \ {LOS_LowBitGet(kept)}]

LEMMA RestoreIs ==
    ASSUME PrioOK, NEW o \in Tasks, NEW list, NEW prio \in Nat, HPFPriorityRestore(o, list, prio)
    PROVE  Restored(o, list, prio)
<1>0. /\ priority \in [Tasks -> Nat] /\ priBitmap \in [Tasks -> SUBSET Nat] /\ InitPrio[o] \in Nat
      /\ PrioOne(priority[o], priBitmap[o], InitPrio[o])
  BY MuxAssumption DEF PrioOK
<1>1. priBitmap[o] # {} => LOS_HighBitGet(priBitmap[o]) = InitPrio[o]
  BY <1>0, HighBit
<1>2. CASE /\ priority[o] < prio
           /\ priBitmap' = IF LOS_HighBitGet(priBitmap[o]) # prio
                           THEN [priBitmap EXCEPT ![o] = @ \ {prio}] ELSE priBitmap
           /\ UNCHANGED priority
  <2>1. priBitmap[o] = {} => priBitmap' = priBitmap
    BY <1>0, <1>2
  <2>2. CASE priBitmap[o] = {}
    BY <1>0, <1>2, <2>1, <2>2 DEF Restored
  <2>3. CASE priBitmap[o] # {} /\ InitPrio[o] = prio
    BY <1>0, <1>1, <1>2, <2>3 DEF Restored
  <2>4. CASE priBitmap[o] # {} /\ InitPrio[o] # prio
    BY <1>0, <1>1, <1>2, <2>4 DEF Restored
  <2> QED BY <2>2, <2>3, <2>4
<1>3. CASE /\ priority[o] >= prio
           /\ priBitmap[o] = {}
           /\ UNCHANGED prioVars
  BY <1>0, <1>3 DEF Restored
<1>4. CASE /\ priority[o] >= prio
           /\ priBitmap[o] # {}
           /\ LET kept == BitsKept(o, list)
                  low == LOS_LowBitGet(kept)
              IN  /\ priBitmap' = [priBitmap EXCEPT ![o] = kept \ {low}]
                  /\ priority' = [priority EXCEPT ![o] = low]
  <2>1. PICK kept : kept = BitsKept(o, list)
    OBVIOUS
  <2>2. kept = {b \in priBitmap[o] : b = InitPrio[o] \/ \A w \in ToSet(list) : priority[w] # b}
    BY <1>1, <1>4, <2>1 DEF BitsKept
  <2>3. kept \in SUBSET priBitmap[o] /\ ~(priority[o] < prio)
    BY <1>0, <1>4, <2>2
  <2> QED BY <1>4, <2>1, <2>2, <2>3 DEF Restored
<1> QED BY <1>2, <1>3, <1>4 DEF HPFPriorityRestore

LEMMA RestoreKeeps ==
    ASSUME PrioOK, NEW o \in Tasks, NEW list, NEW prio \in Nat, HPFPriorityRestore(o, list, prio)
    PROVE  PrioOK'
<1>0. /\ priority \in [Tasks -> Nat] /\ priBitmap \in [Tasks -> SUBSET Nat] /\ InitPrio[o] \in Nat
      /\ PrioOne(priority[o], priBitmap[o], InitPrio[o])
  BY MuxAssumption DEF PrioOK
<1>1. CASE /\ UNCHANGED priority
           /\ priBitmap' = [priBitmap EXCEPT ![o] = @ \ IF InitPrio[o] = prio THEN {} ELSE {prio}]
  <2>1. PICK kept \in SUBSET priBitmap[o] :
            kept = priBitmap[o] \ IF InitPrio[o] = prio THEN {} ELSE {prio}
    OBVIOUS
  <2>2. priBitmap[o] # {} => InitPrio[o] \in kept
    BY <1>0, <2>1 DEF PrioOne
  <2>3. PrioOne(priority[o], kept, InitPrio[o])
    BY <1>0, <2>2, DropOne
  <2>4. priority' = [priority EXCEPT ![o] = priority[o]] /\ priBitmap' = [priBitmap EXCEPT ![o] = kept]
        /\ kept \in SUBSET Nat
    BY <1>0, <1>1, <2>1
  <2> QED BY <1>0, <2>3, <2>4, PrioBut
<1>2. CASE UNCHANGED prioVars
  BY <1>2, PrioSame
<1>3. ASSUME NEW kept \in SUBSET priBitmap[o], priBitmap[o] # {}, InitPrio[o] \in kept,
             priority' = [priority EXCEPT ![o] = LOS_LowBitGet(kept)],
             priBitmap' = [priBitmap EXCEPT ![o] = kept \ {LOS_LowBitGet(kept)}]
      PROVE  PrioOK'
  <2>1. /\ LOS_LowBitGet(kept) \in kept
        /\ PrioOne(LOS_LowBitGet(kept), kept \ {LOS_LowBitGet(kept)}, InitPrio[o])
    BY <1>0, <1>3, LowerOne
  <2>2. LOS_LowBitGet(kept) \in Nat /\ kept \ {LOS_LowBitGet(kept)} \in SUBSET Nat
    BY <1>0, <2>1
  <2> QED BY <1>3, <2>1, <2>2, PrioBut
<1>4. priBitmap[o] # {} => InitPrio[o] \in priBitmap[o]
  BY <1>0 DEF PrioOne
<1>5. Restored(o, list, prio)
  BY RestoreIs
<1> QED BY <1>1, <1>2, <1>3, <1>4, <1>5 DEF Restored

-----------------------------------------------------------------------------
(* Owners, hold lists and wait lists                                        *)

\* OwnerAgrees is kept if it is kept for m and the others are left alone.
LEMMA AgreesBut ==
    ASSUME OwnerAgrees, NEW m \in Muxes,
           \A n \in Muxes : n # m =>
               /\ owner'[n] = owner[n] /\ muxCount'[n] = muxCount[n]
               /\ \A t \in Tasks : n \in ToSet(lockList'[t]) <=> n \in ToSet(lockList[t]),
           \A t \in Tasks : IsInjective(lockList'[t]),
           owner'[m] = NULL <=> muxCount'[m] = 0,
           \A t \in Tasks : m \in ToSet(lockList'[t]) <=> owner'[m] = t
    PROVE  OwnerAgrees'
BY DEF OwnerAgrees

LEMMA StatusAfter ==
    ASSUME MuxTypeOK, NEW t \in Tasks, NEW s, taskStatus' = [taskStatus EXCEPT ![t] = s]
    PROVE  taskStatus'[t] = s /\ \A u \in Tasks : u # t => taskStatus'[u] = taskStatus[u]
BY DEF MuxTypeOK

\* A step that is about one task and changes no mutex but for its wait list.
LEMMA TaskOnly ==
    ASSUME Struct, NEW t \in Tasks, NEW s \in TaskStatus,
           taskStatus' = [taskStatus EXCEPT ![t] = s],
           UNCHANGED <<magic, attr, muxCount, owner, lockList>>,
           s = "UNUSED" => lockList[t] = <<>>,
           \/ UNCHANGED muxList /\ ~IsPending(t)
           \/ muxList' = [m \in Muxes |-> LOS_ListDelete(muxList[m], t)],
           taskMux' \in {taskMux, [taskMux EXCEPT ![t] = NULL]},
           \/ pendMux' = [pendMux EXCEPT ![t] = NULL] /\ s \in {"RUN", "UNUSED"}
           \/ UNCHANGED pendMux /\ IsPending(t),
           deleting' \in Tasks \cup {NULL}, fault' \in BOOLEAN, disciplined' \in BOOLEAN
    PROVE  Struct'
<1>0. MuxTypeOK
  BY DEF Struct
<1>1. taskStatus'[t] = s /\ \A u \in Tasks : u # t => taskStatus'[u] = taskStatus[u]
  BY <1>0, StatusAfter
<1>2. ASSUME NEW m \in Muxes
      PROVE  /\ muxList'[m] \in Seq(Tasks) /\ IsInjective(muxList'[m])
             /\ ToSet(muxList'[m]) \subseteq ToSet(muxList[m]) \ {t}
  <2>1. PICK l \in Seq(Tasks) : l = muxList[m]
    BY <1>0 DEF MuxTypeOK
  <2>2. IsInjective(l) /\ \A u \in ToSet(l) : IsPending(u)
    BY <2>1 DEF Struct, WaitOK
  <2>3. CASE UNCHANGED muxList /\ ~IsPending(t)
    BY <2>1, <2>2, <2>3
  <2>4. CASE muxList' = [n \in Muxes |-> LOS_ListDelete(muxList[n], t)]
    <3>1. muxList'[m] = LOS_ListDelete(l, t)
      BY <2>1, <2>4
    <3>2. LOS_ListDelete(l, t) \in Seq(Tasks) /\ IsInjective(LOS_ListDelete(l, t))
          /\ ToSet(LOS_ListDelete(l, t)) \subseteq ToSet(l) \ {t}
      BY <2>2, DeleteList
    <3> QED BY <2>1, <3>1, <3>2
  <2> QED BY <2>3, <2>4
<1>3. \A u \in Tasks : u # t => taskMux'[u] = taskMux[u]
  BY <1>0 DEF MuxTypeOK
<1>4. MuxTypeOK'
  <2>1. muxList' \in [Muxes -> Seq(Tasks)]
    BY <1>0, <1>2 DEF MuxTypeOK
  <2>2. taskStatus' \in [Tasks -> TaskStatus]
    BY <1>0 DEF MuxTypeOK
  <2>3. taskMux' \in [Tasks -> Muxes \cup {NULL}] /\ pendMux' \in [Tasks -> Muxes \cup {NULL}]
    BY <1>0 DEF MuxTypeOK
  <2> QED BY <1>0, <2>1, <2>2, <2>3 DEF MuxTypeOK
<1>5. OwnerAgrees'
  BY DEF Struct, OwnerAgrees
<1>6. WaitOK'
  <2> SUFFICES ASSUME NEW m \in Muxes
               PROVE  /\ IsInjective(muxList'[m])
                      /\ \A u \in ToSet(muxList'[m]) : IsPending(u)' /\ taskMux'[u] = m
    BY DEF WaitOK
  <2>1. ASSUME NEW u \in ToSet(muxList'[m]) PROVE IsPending(u)' /\ taskMux'[u] = m
    <3>1. u \in ToSet(muxList[m]) /\ u # t
      BY <1>2
    <3>2. u \in Tasks
      BY <3>1, <1>0, ToSetIn DEF MuxTypeOK
    <3>3. IsPending(u) /\ taskMux[u] = m
      BY <3>1 DEF Struct, WaitOK
    <3> QED BY <1>1, <1>3, <3>1, <3>2, <3>3 DEF IsPending
  <2> QED BY <1>2, <2>1
<1>7. LiveOK'
  <2> SUFFICES ASSUME NEW m \in Muxes
               PROVE  /\ muxCount[m] > 1 => attr[m].type = "RECURSIVE"
                      /\ ~magic[m] => owner[m] = NULL
                      /\ muxList'[m] # <<>> => owner[m] # NULL
                      /\ owner[m] # NULL => taskStatus'[owner[m]] # "UNUSED"
    BY DEF LiveOK
  <2>1. muxList[m] = <<>> => muxList'[m] = <<>>
    <3>1. muxList[m] \in Seq(Tasks)
      BY <1>0 DEF MuxTypeOK
    <3>2. PICK l : l = muxList'[m]
      OBVIOUS
    <3>3. l \in Seq(Tasks) /\ ToSet(l) \subseteq ToSet(muxList[m])
      BY <1>2, <3>2
    <3>4. (l = <<>> <=> ToSet(l) = {}) /\ (muxList[m] = <<>> <=> ToSet(muxList[m]) = {})
      BY <3>1, <3>3, ToSetIn
    <3> QED BY <3>2, <3>3, <3>4
  <2>2. ASSUME owner[m] # NULL PROVE taskStatus'[owner[m]] # "UNUSED"
    <3>1. owner[m] \in Tasks /\ taskStatus[owner[m]] # "UNUSED"
      BY <2>2, <1>0 DEF MuxTypeOK, Struct, LiveOK
    <3>2. CASE owner[m] = t
      <4>1. m \in ToSet(lockList[t])
        BY <3>2 DEF Struct, OwnerAgrees
      <4>2. lockList[t] # <<>>
        BY <4>1, <1>0, ToSetIn DEF MuxTypeOK
      <4> QED BY <1>1, <3>2, <4>2
    <3>3. CASE owner[m] # t
      BY <1>1, <3>1, <3>3
    <3> QED BY <3>2, <3>3
  <2> QED BY <2>1, <2>2 DEF Struct, LiveOK
<1>8. PendOK'
  <2> SUFFICES ASSUME NEW u \in Tasks, taskStatus'[u] \in {"PENDING", "PEND_TIME", "WOKEN", "TIMEOUT"}
               PROVE  pendMux'[u] \in Muxes
    BY DEF PendOK
  <2>1. CASE u = t
    <3>1. UNCHANGED pendMux /\ IsPending(t)
      BY <1>1, <2>1
    <3> QED BY <2>1, <3>1 DEF Struct, PendOK, IsPending
  <2>2. CASE u # t
    <3>1. pendMux'[u] = pendMux[u]
      BY <1>0, <2>2 DEF MuxTypeOK
    <3> QED BY <1>1, <2>2, <3>1 DEF Struct, PendOK
  <2> QED BY <2>1, <2>2
<1> QED BY <1>4, <1>5, <1>6, <1>7, <1>8 DEF Struct

\* LiveOK is kept if it is kept for m, and the others and who lives are left alone.
LEMMA LiveBut ==
    ASSUME Struct, NEW m \in Muxes,
           \A n \in Muxes : n # m =>
               /\ muxCount'[n] = muxCount[n] /\ attr'[n] = attr[n] /\ magic'[n] = magic[n]
               /\ owner'[n] = owner[n] /\ muxList'[n] = muxList[n],
           \A t \in Tasks : taskStatus[t] # "UNUSED" => taskStatus'[t] # "UNUSED",
           muxCount'[m] > 1 => attr'[m].type = "RECURSIVE",
           ~magic'[m] => owner'[m] = NULL,
           muxList'[m] # <<>> => owner'[m] # NULL,
           owner'[m] # NULL => taskStatus'[owner'[m]] # "UNUSED"
    PROVE  LiveOK'
<1> SUFFICES ASSUME NEW n \in Muxes
             PROVE  /\ muxCount'[n] > 1 => attr'[n].type = "RECURSIVE"
                    /\ ~magic'[n] => owner'[n] = NULL
                    /\ muxList'[n] # <<>> => owner'[n] # NULL
                    /\ owner'[n] # NULL => taskStatus'[owner'[n]] # "UNUSED"
  BY DEF LiveOK
<1>1. CASE n = m
  BY <1>1
<1>2. CASE n # m
  <2>1. owner[n] \in Tasks \cup {NULL}
    BY DEF Struct, MuxTypeOK
  <2> QED BY <1>2, <2>1 DEF Struct, LiveOK
<1> QED BY <1>1, <1>2

\* A free mutex is on no hold list and has no waiters.
LEMMA FreeMutex ==
    ASSUME Struct, NEW m \in Muxes, muxCount[m] = 0 \/ ~magic[m] \/ owner[m] = NULL
    PROVE  /\ owner[m] = NULL /\ muxCount[m] = 0 /\ muxList[m] = <<>>
           /\ \A t \in Tasks : m \notin ToSet(lockList[t])
<1>1. owner[m] = NULL /\ muxCount[m] = 0
  BY DEF Struct, OwnerAgrees, LiveOK
<1>2. \A t \in Tasks : t # NULL
  BY MuxAssumption
<1> QED BY <1>1, <1>2 DEF Struct, OwnerAgrees, LiveOK

\* LOS_MuxInit and LOS_MuxDestroy of a free mutex.
LEMMA InitDestroyKeep ==
    ASSUME Struct, NEW t \in Tasks, NEW m \in Muxes, NEW a \in MuxAttrs,
           LOS_MuxInit(t, m, a) \/ LOS_MuxDestroy(t, m), disciplined' \in BOOLEAN
    PROVE  Struct'
<1>0. MuxTypeOK
  BY DEF Struct
<1>1. owner[m] = NULL /\ muxCount[m] = 0 /\ muxList[m] = <<>>
  BY FreeMutex DEF LOS_MuxInit, LOS_MuxDestroy
<1>2. /\ UNCHANGED <<taskStatus, taskMux, lockList, pendMux, deleting, fault>>
      /\ muxCount' = muxCount /\ owner' = owner /\ muxList' = muxList
  BY <1>0, <1>1 DEF LOS_MuxInit, LOS_MuxDestroy, MuxTypeOK
<1>3. /\ magic' \in [Muxes -> BOOLEAN] /\ attr' \in [Muxes -> MuxAttrs \cup {ZeroAttr}]
      /\ \A n \in Muxes : n # m => magic'[n] = magic[n] /\ attr'[n] = attr[n]
  <2>1. CASE LOS_MuxInit(t, m, a)
    BY <1>0, <2>1 DEF LOS_MuxInit, MuxTypeOK
  <2>2. CASE LOS_MuxDestroy(t, m)
    BY <1>0, <2>2 DEF LOS_MuxDestroy, MuxTypeOK
  <2> QED BY <2>1, <2>2
<1>4. MuxTypeOK'
  BY <1>0, <1>2, <1>3 DEF MuxTypeOK
<1>5. OwnerAgrees' /\ WaitOK' /\ PendOK'
  BY <1>2 DEF Struct, OwnerAgrees, WaitOK, PendOK, IsPending
<1>6. LiveOK'
  <2>1. ~(muxCount'[m] > 1)
    BY <1>1, <1>2
  <2> QED BY <1>1, <1>2, <1>3, <2>1, LiveBut
<1> QED BY <1>4, <1>5, <1>6 DEF Struct

\* Only the count of a mutex that stays locked changes.
LEMMA CountKeeps ==
    ASSUME Struct, NEW m \in Muxes, NEW k \in 0..MuxCountMax, k # 0, owner[m] # NULL,
           attr[m].type = "RECURSIVE", muxCount' = [muxCount EXCEPT ![m] = k],
           UNCHANGED <<taskStatus, magic, attr, owner, muxList, taskMux, lockList, pendMux, deleting>>,
           fault' \in BOOLEAN, disciplined' \in BOOLEAN
    PROVE  Struct'
<1>0. MuxTypeOK
  BY DEF Struct
<1>1. muxCount'[m] = k /\ \A n \in Muxes : n # m => muxCount'[n] = muxCount[n]
  BY <1>0 DEF MuxTypeOK
<1>2. MuxTypeOK'
  BY <1>0 DEF MuxTypeOK
<1>3. OwnerAgrees'
  BY <1>1 DEF Struct, OwnerAgrees
<1>4. WaitOK' /\ PendOK'
  BY DEF Struct, WaitOK, PendOK, IsPending
<1>5. LiveOK'
  BY <1>1 DEF Struct, LiveOK
<1> QED BY <1>2, <1>3, <1>4, <1>5 DEF Struct

LEMMA TakeFreeKeeps ==
    ASSUME Struct, NEW t \in Tasks, NEW m \in Muxes, taskStatus[t] = "RUN", magic[m], TakeFree(t, m),
           UNCHANGED <<magic, attr, deleting, fault>>, disciplined' \in BOOLEAN
    PROVE  Struct'
<1>0. MuxTypeOK
  BY DEF Struct
<1>1. /\ owner[m] = NULL /\ muxCount[m] = 0 /\ muxList[m] = <<>>
      /\ \A u \in Tasks : m \notin ToSet(lockList[u])
  BY FreeMutex DEF TakeFree
<1>2. PICK l \in Seq(Muxes) : l = lockList[t]
  BY <1>0 DEF MuxTypeOK
<1>3. /\ Append(l, m) \in Seq(Muxes) /\ ToSet(Append(l, m)) = ToSet(l) \cup {m}
      /\ IsInjective(Append(l, m))
  <2>1. IsInjective(l) /\ m \notin ToSet(l)
    BY <1>1, <1>2 DEF Struct, OwnerAgrees
  <2> QED BY <2>1, AppendList
<1>4. /\ owner' = [owner EXCEPT ![m] = t] /\ muxCount' = [muxCount EXCEPT ![m] = 1]
      /\ lockList' = [lockList EXCEPT ![t] = Append(l, m)]
      /\ UNCHANGED <<taskStatus, muxList, taskMux, pendMux>>
  BY <1>2 DEF TakeFree
<1>5. /\ owner'[m] = t /\ muxCount'[m] = 1 /\ lockList'[t] = Append(l, m)
      /\ \A n \in Muxes : n # m => owner'[n] = owner[n] /\ muxCount'[n] = muxCount[n]
      /\ \A u \in Tasks : u # t => lockList'[u] = lockList[u]
  BY <1>0, <1>4 DEF MuxTypeOK
<1>6. MuxTypeOK'
  <2>1. 1 \in 0..MuxCountMax
    BY MuxAssumption
  <2> QED BY <1>0, <1>3, <1>4, <2>1 DEF MuxTypeOK
<1>7. OwnerAgrees'
  <2>1. \A u \in Tasks : \A n \in Muxes : n # m =>
            (n \in ToSet(lockList'[u]) <=> n \in ToSet(lockList[u]))
    BY <1>2, <1>3, <1>5
  <2>2. \A u \in Tasks : IsInjective(lockList'[u])
    BY <1>3, <1>5 DEF Struct, OwnerAgrees
  <2>3. \A u \in Tasks : m \in ToSet(lockList'[u]) <=> owner'[m] = u
    BY <1>1, <1>3, <1>5
  <2>4. t # NULL
    BY MuxAssumption
  <2> QED BY <1>5, <2>1, <2>2, <2>3, <2>4, AgreesBut DEF Struct
<1>8. WaitOK' /\ PendOK'
  BY <1>4 DEF Struct, WaitOK, PendOK, IsPending
<1>9. LiveOK'
  <2>1. ~(muxCount'[m] > 1) /\ taskStatus'[owner'[m]] # "UNUSED"
    BY <1>4, <1>5
  <2> QED BY <1>1, <1>4, <1>5, <2>1, LiveBut
<1> QED BY <1>6, <1>7, <1>8, <1>9 DEF Struct

LEMMA BlockKeeps ==
    ASSUME Struct, PrioOK', NEW t \in Tasks, NEW m \in Muxes, NEW timeout, taskStatus[t] = "RUN",
           Block(t, m, timeout), UNCHANGED <<magic, attr, deleting, fault>>, disciplined' \in BOOLEAN
    PROVE  Struct'
<1>0. MuxTypeOK
  BY DEF Struct
<1>1. PICK l \in Seq(Tasks) : l = muxList[m]
  BY <1>0 DEF MuxTypeOK
<1>2. PICK s : s = IF timeout = "FOREVER" THEN "PENDING" ELSE "PEND_TIME"
  OBVIOUS
<1>3. PICK k \in 1..Len(l) + 1 : k = OsSchedLockPendFindPos(t, l)
  <2>1. PICK prio \in [Tasks -> Nat] : prio = priority'
    BY DEF PrioOK
  <2> QED BY <2>1, MuxAssumption, FindPosInRange DEF OsSchedLockPendFindPos
<1>4. PICK r : r = InsertAt(l, k, t)
  OBVIOUS
<1>5. \A n \in Muxes : t \notin ToSet(muxList[n])
  BY DEF Struct, WaitOK, IsPending
<1>6. r \in Seq(Tasks) /\ ToSet(r) = ToSet(l) \cup {t} /\ IsInjective(r)
  <2>1. IsInjective(l) /\ t \notin ToSet(l)
    BY <1>1, <1>5 DEF Struct, WaitOK
  <2> QED BY <1>4, <2>1, InsertList
<1>7. /\ taskMux' = [taskMux EXCEPT ![t] = m] /\ pendMux' = [pendMux EXCEPT ![t] = m]
      /\ muxList' = [muxList EXCEPT ![m] = r] /\ taskStatus' = [taskStatus EXCEPT ![t] = s]
      /\ UNCHANGED <<muxCount, owner, lockList>> /\ muxCount[m] > 0
  BY <1>1, <1>2, <1>3, <1>4 DEF Block, HPFWait
<1>8. /\ s \in {"PENDING", "PEND_TIME"} /\ s \in TaskStatus /\ s # "UNUSED"
  BY <1>2 DEF TaskStatus
<1>9. /\ taskStatus'[t] = s /\ \A u \in Tasks : u # t => taskStatus'[u] = taskStatus[u]
      /\ muxList'[m] = r /\ \A n \in Muxes : n # m => muxList'[n] = muxList[n]
      /\ taskMux'[t] = m /\ \A u \in Tasks : u # t => taskMux'[u] = taskMux[u]
      /\ pendMux'[t] = m /\ \A u \in Tasks : u # t => pendMux'[u] = pendMux[u]
  BY <1>0, <1>7 DEF MuxTypeOK
<1>10. MuxTypeOK'
  BY <1>0, <1>6, <1>7, <1>8 DEF MuxTypeOK
<1>11. OwnerAgrees'
  BY <1>7 DEF Struct, OwnerAgrees
<1>12. WaitOK'
  <2> SUFFICES ASSUME NEW n \in Muxes
               PROVE  /\ IsInjective(muxList'[n])
                      /\ \A u \in ToSet(muxList'[n]) : IsPending(u)' /\ taskMux'[u] = n
    BY DEF WaitOK
  <2>1. IsInjective(muxList'[n])
    BY <1>6, <1>9 DEF Struct, WaitOK
  <2>2. ASSUME NEW u \in ToSet(muxList'[n]) PROVE IsPending(u)' /\ taskMux'[u] = n
    <3>1. (u = t /\ n = m) \/ u \in ToSet(muxList[n])
      BY <1>1, <1>6, <1>9
    <3>2. CASE u = t /\ n = m
      BY <1>8, <1>9, <3>2 DEF IsPending
    <3>3. CASE u \in ToSet(muxList[n])
      <4>1. u \in Tasks /\ u # t
        BY <3>3, <1>0, <1>5, ToSetIn DEF MuxTypeOK
      <4> QED BY <1>9, <3>3, <4>1 DEF Struct, WaitOK, IsPending
    <3> QED BY <3>1, <3>2, <3>3
  <2> QED BY <2>1, <2>2
<1>13. LiveOK'
  <2>1. owner[m] # NULL /\ owner[m] \in Tasks
    <3>1. muxCount[m] # 0
      BY <1>0, <1>7 DEF MuxTypeOK
    <3> QED BY <1>0, <3>1 DEF Struct, OwnerAgrees, MuxTypeOK
  <2>2. \A u \in Tasks : taskStatus[u] # "UNUSED" => taskStatus'[u] # "UNUSED"
    BY <1>8, <1>9
  <2>3. muxCount'[m] > 1 => attr'[m].type = "RECURSIVE"
    BY <1>7 DEF Struct, LiveOK
  <2>4. magic'[m] /\ taskStatus'[owner'[m]] # "UNUSED"
    BY <1>7, <2>1, <2>2 DEF Struct, LiveOK
  <2> QED BY <1>7, <1>9, <2>1, <2>2, <2>3, <2>4, LiveBut
<1>14. PendOK'
  BY <1>9 DEF Struct, PendOK
<1> QED BY <1>10, <1>11, <1>12, <1>13, <1>14 DEF Struct

\* The hold lists un are lockList without m.
Unheld(un, m) ==
    /\ un \in [Tasks -> Seq(Muxes)]
    /\ \A u \in Tasks : /\ IsInjective(un[u]) /\ m \notin ToSet(un[u])
                        /\ \A n \in Muxes : n # m => (n \in ToSet(un[u]) <=> n \in ToSet(lockList[u]))

\* A mutex leaves the hold list of its owner.
LEMMA Unhold ==
    ASSUME Struct, NEW t \in Tasks, NEW m \in Muxes, owner[m] = t,
           NEW un, un = [lockList EXCEPT ![t] = LOS_ListDelete(lockList[t], m)]
    PROVE  Unheld(un, m)
<1>1. lockList \in [Tasks -> Seq(Muxes)]
  BY DEF Struct, MuxTypeOK
<1>2. PICK l \in Seq(Muxes) : l = lockList[t]
  BY <1>1
<1>3. IsInjective(l)
  BY <1>2 DEF Struct, OwnerAgrees
<1>4. PICK r : r = LOS_ListDelete(l, m)
  OBVIOUS
<1>5. r \in Seq(Muxes) /\ IsInjective(r) /\ ToSet(r) = ToSet(l) \ {m}
  BY <1>3, <1>4, DeleteList
<1>6. un[t] = r /\ \A u \in Tasks : u # t => un[u] = lockList[u]
  BY <1>1, <1>2, <1>4
<1>7. un \in [Tasks -> Seq(Muxes)]
  BY <1>1, <1>2, <1>4, <1>5
<1>8. \A u \in Tasks : u # t => m \notin ToSet(lockList[u]) /\ IsInjective(lockList[u])
  BY DEF Struct, OwnerAgrees
<1> QED BY <1>2, <1>5, <1>6, <1>7, <1>8 DEF Unheld

\* A normal mutex, or a recursive one that is locked once, is released.
LEMMA ReleaseKeeps ==
    ASSUME Struct, NEW t \in Tasks, NEW m \in Muxes, owner[m] = t, muxCount[m] # 0,
           ~(muxCount[m] > 1 /\ attr[m].type = "RECURSIVE"), Release(t, m),
           UNCHANGED <<magic, attr, pendMux, deleting>>, disciplined' \in BOOLEAN
    PROVE  Struct'
<1>0. MuxTypeOK
  BY DEF Struct
<1>1. muxCount[m] = 1
  <2>1. muxCount[m] \in Nat /\ ~(muxCount[m] > 1)
    BY <1>0, MuxAssumption DEF Struct, LiveOK, MuxTypeOK
  <2> QED BY <2>1
<1>2. PICK un : un = [lockList EXCEPT ![t] = LOS_ListDelete(lockList[t], m)]
  OBVIOUS
<1>3. /\ owner' = [owner EXCEPT ![m] = NULL] /\ muxCount' = [muxCount EXCEPT ![m] = @ - 1]
      /\ lockList' = un /\ UNCHANGED <<taskStatus, muxList, taskMux, fault>> /\ muxList[m] = <<>>
  BY <1>2 DEF Release
<1>4. Unheld(un, m)
  BY <1>2, Unhold
<1>5. /\ owner'[m] = NULL /\ muxCount'[m] = 0
      /\ \A n \in Muxes : n # m => owner'[n] = owner[n] /\ muxCount'[n] = muxCount[n]
  BY <1>0, <1>1, <1>3 DEF MuxTypeOK
<1>6. MuxTypeOK'
  <2>1. muxCount' \in [Muxes -> 0..MuxCountMax]
    BY <1>0, <1>1, <1>3, MuxAssumption DEF MuxTypeOK
  <2> QED BY <1>0, <1>3, <1>4, <2>1 DEF MuxTypeOK, Unheld
<1>7. OwnerAgrees'
  <2>1. \A u \in Tasks : u # NULL
    BY MuxAssumption
  <2>2. PICK ll : ll = lockList'
    OBVIOUS
  <2>3. /\ \A u \in Tasks : IsInjective(ll[u]) /\ m \notin ToSet(ll[u])
        /\ \A u \in Tasks : \A n \in Muxes : n # m => (n \in ToSet(ll[u]) <=> n \in ToSet(lockList[u]))
    BY <1>3, <1>4, <2>2 DEF Unheld
  <2> QED BY <1>5, <2>1, <2>2, <2>3, AgreesBut DEF Struct
<1>8. WaitOK' /\ PendOK'
  BY <1>3 DEF Struct, WaitOK, PendOK, IsPending
<1>9. LiveOK'
  <2>1. ~(muxCount'[m] > 1) /\ muxList'[m] = <<>>
    BY <1>3, <1>5
  <2> QED BY <1>3, <1>5, <2>1, LiveBut
<1> QED BY <1>6, <1>7, <1>8, <1>9 DEF Struct

\* The first waiter is handed the mutex; it may be the task that is being deleted itself.
LEMMA HandOverKeeps ==
    ASSUME Struct, NEW t \in Tasks, NEW m \in Muxes, owner[m] = t, magic[m], HandOver(t, m),
           UNCHANGED <<magic, attr, pendMux, deleting>>, fault' \in BOOLEAN, disciplined' \in BOOLEAN
    PROVE  Struct'
<1>0. MuxTypeOK
  BY DEF Struct
<1>1. PICK l \in Seq(Tasks) : l = muxList[m]
  BY <1>0 DEF MuxTypeOK
<1>2. l # <<>> /\ IsInjective(l)
  BY <1>1 DEF HandOver, Struct, WaitOK
<1>3. PICK w \in Tasks : w = Head(l)
  BY <1>2, TailList
<1>4. PICK r : r = Tail(l)
  OBVIOUS
<1>5. /\ r \in Seq(Tasks) /\ ToSet(l) = ToSet(r) \cup {w}
      /\ IsInjective(r) /\ w \notin ToSet(r)
  BY <1>2, <1>3, <1>4, TailList
<1>6. PICK un : un = [lockList EXCEPT ![t] = LOS_ListDelete(lockList[t], m)]
  OBVIOUS
<1>7. Unheld(un, m)
  BY <1>6, Unhold
<1>8. PICK h \in Seq(Muxes) : h = un[w]
  BY <1>7 DEF Unheld
<1>9. PICK g : g = Append(h, m)
  OBVIOUS
<1>10. g \in Seq(Muxes) /\ ToSet(g) = ToSet(h) \cup {m} /\ IsInjective(g)
  <2>1. IsInjective(h) /\ m \notin ToSet(h)
    BY <1>7, <1>8 DEF Unheld
  <2> QED BY <1>9, <2>1, AppendList
<1>11. /\ owner' = [owner EXCEPT ![m] = w] /\ muxCount' = [muxCount EXCEPT ![m] = 1]
       /\ lockList' = [un EXCEPT ![w] = g] /\ muxList' = [muxList EXCEPT ![m] = r]
       /\ taskStatus' = [taskStatus EXCEPT ![w] = "WOKEN"] /\ taskMux' = [taskMux EXCEPT ![w] = NULL]
  BY <1>1, <1>3, <1>4, <1>6, <1>8, <1>9 DEF HandOver, HPFWake
<1>12. /\ owner'[m] = w /\ muxCount'[m] = 1 /\ muxList'[m] = r
       /\ \A n \in Muxes : n # m =>
             owner'[n] = owner[n] /\ muxCount'[n] = muxCount[n] /\ muxList'[n] = muxList[n]
       /\ taskStatus'[w] = "WOKEN" /\ taskMux'[w] = NULL
       /\ \A u \in Tasks : u # w => taskStatus'[u] = taskStatus[u] /\ taskMux'[u] = taskMux[u]
  BY <1>0, <1>11 DEF MuxTypeOK
<1>13. lockList'[w] = g /\ \A u \in Tasks : u # w => lockList'[u] = un[u]
  BY <1>7, <1>11 DEF Unheld
<1>14. MuxTypeOK'
  <2>1. 1 \in 0..MuxCountMax /\ "WOKEN" \in TaskStatus
    BY MuxAssumption DEF TaskStatus
  <2>2. lockList' \in [Tasks -> Seq(Muxes)]
    BY <1>7, <1>10, <1>11 DEF Unheld
  <2>3. /\ owner' \in [Muxes -> Tasks \cup {NULL}] /\ muxCount' \in [Muxes -> 0..MuxCountMax]
        /\ muxList' \in [Muxes -> Seq(Tasks)]
    BY <1>0, <1>5, <1>11, <2>1 DEF MuxTypeOK
  <2>4. taskStatus' \in [Tasks -> TaskStatus] /\ taskMux' \in [Tasks -> Muxes \cup {NULL}]
    BY <1>0, <1>11, <2>1 DEF MuxTypeOK
  <2> QED BY <1>0, <2>2, <2>3, <2>4 DEF MuxTypeOK
<1>15. OwnerAgrees'
  <2>1. w # NULL
    BY MuxAssumption
  <2>2. PICK ll : ll = lockList'
    OBVIOUS
  <2>3. \A u \in Tasks : IsInjective(ll[u])
    BY <1>7, <1>10, <1>13, <2>2 DEF Unheld
  <2>4. \A u \in Tasks : \A n \in Muxes : n # m => (n \in ToSet(ll[u]) <=> n \in ToSet(lockList[u]))
    BY <1>7, <1>8, <1>10, <1>13, <2>2 DEF Unheld
  <2>5. \A u \in Tasks : m \in ToSet(ll[u]) <=> u = w
    BY <1>7, <1>10, <1>13, <2>2 DEF Unheld
  <2>6. owner'[m] # NULL /\ muxCount'[m] # 0
    BY <1>12, <2>1
  <2> QED BY <1>12, <2>2, <2>3, <2>4, <2>5, <2>6, AgreesBut DEF Struct
<1>16. WaitOK'
  <2> SUFFICES ASSUME NEW n \in Muxes
               PROVE  /\ IsInjective(muxList'[n])
                      /\ \A u \in ToSet(muxList'[n]) : IsPending(u)' /\ taskMux'[u] = n
    BY DEF WaitOK
  <2>1. IsInjective(muxList'[n])
    BY <1>5, <1>12 DEF Struct, WaitOK
  <2>2. ASSUME NEW u \in ToSet(muxList'[n]) PROVE IsPending(u)' /\ taskMux'[u] = n
    <3>1. u \in ToSet(muxList[n])
      BY <1>1, <1>5, <1>12
    <3>2. u \in Tasks /\ IsPending(u) /\ taskMux[u] = n
      BY <1>0, <3>1, ToSetIn DEF MuxTypeOK, Struct, WaitOK
    <3>3. taskMux[w] = m
      BY <1>1, <1>5 DEF Struct, WaitOK
    <3>4. u # w
      BY <1>5, <1>12, <3>2, <3>3
    <3> QED BY <1>12, <3>2, <3>4 DEF IsPending
  <2> QED BY <2>1, <2>2
<1>17. LiveOK'
  <2>1. \A u \in Tasks : taskStatus[u] # "UNUSED" => taskStatus'[u] # "UNUSED"
    BY <1>12
  <2>2. ~(muxCount'[m] > 1) /\ magic'[m] /\ owner'[m] # NULL /\ taskStatus'[owner'[m]] # "UNUSED"
    BY <1>12, MuxAssumption
  <2> QED BY <1>12, <2>1, <2>2, LiveBut
<1>18. PendOK'
  <2>1. taskStatus[w] \in {"PENDING", "PEND_TIME"}
    BY <1>1, <1>5 DEF Struct, WaitOK, IsPending
  <2>2. pendMux[w] \in Muxes
    BY <2>1 DEF Struct, PendOK
  <2> QED BY <1>12, <2>2 DEF Struct, PendOK
<1> QED BY <1>14, <1>15, <1>16, <1>17, <1>18 DEF Struct

-----------------------------------------------------------------------------
(* The invariant is kept by every step                                      *)

LEMMA BitmapRestoreKeeps ==
    ASSUME PrioOK, MuxTypeOK, NEW m \in Muxes, NEW list, NEW t \in Tasks, OsMuxBitmapRestore(m, list, t)
    PROVE  PrioOK' /\ fault' \in BOOLEAN
<1>1. fault \in BOOLEAN /\ owner[m] \in Tasks \cup {NULL}
  BY DEF MuxTypeOK
<1>2. fault' \in BOOLEAN
  BY <1>1 DEF OsMuxBitmapRestore
<1>3. CASE UNCHANGED prioVars
  BY <1>2, <1>3, PrioSame
<1>4. CASE owner[m] # NULL /\ HPFPriorityRestore(owner[m], list, priority[t])
  <2>1. priority[t] \in Nat /\ owner[m] \in Tasks
    BY <1>1, <1>4 DEF PrioOK
  <2> QED BY <1>2, <1>4, <2>1, RestoreKeeps
<1> QED BY <1>3, <1>4 DEF OsMuxBitmapRestore

LEMMA BitmapSetKeeps ==
    ASSUME PrioOK, NEW m \in Muxes, owner[m] \in Tasks, NEW t \in Tasks, OsMuxBitmapSet(m, t)
    PROVE  PrioOK'
<1>1. priority[t] \in Nat
  BY DEF PrioOK
<1>2. CASE UNCHANGED prioVars
  BY <1>2, PrioSame
<1>3. CASE HPFPriorityInheritance(owner[m], priority[t])
  BY <1>1, <1>3, InheritKeeps
<1> QED BY <1>2, <1>3 DEF OsMuxBitmapSet

LEMMA UnlockKeeps ==
    ASSUME IInv, NEW t \in Tasks, NEW m \in Muxes, OsMuxUnlockUnsafe(t, m),
           UNCHANGED <<magic, attr, pendMux, deleting>>, disciplined' \in BOOLEAN
    PROVE  IInv'
<1>0. PrioOK /\ Struct /\ MuxTypeOK /\ owner[m] = t /\ muxCount[m] # 0 /\ magic[m] /\ fault \in BOOLEAN
      /\ priority[t] \in Nat /\ t # NULL
  BY MuxAssumption DEF IInv, Struct, OsMuxUnlockUnsafe, MuxTypeOK, PrioOK
<1>1. CASE /\ muxCount[m] > 1 /\ attr[m].type = "RECURSIVE"
           /\ muxCount' = [muxCount EXCEPT ![m] = @ - 1]
           /\ UNCHANGED <<taskStatus, owner, muxList, prioVars, taskMux, lockList, fault>>
  <2>1. PICK k : k = muxCount[m] - 1
    OBVIOUS
  <2>2. k \in 0..MuxCountMax /\ k # 0 /\ muxCount' = [muxCount EXCEPT ![m] = k]
    BY <1>0, <1>1, <2>1, MuxAssumption DEF MuxTypeOK
  <2>3. Struct'
    BY <1>0, <1>1, <2>2, CountKeeps
  <2> QED BY <1>0, <1>1, <2>3, PrioSame DEF IInv
<1>2. CASE ~(muxCount[m] > 1 /\ attr[m].type = "RECURSIVE") /\ Release(t, m)
  <2>1. Struct'
    BY <1>0, <1>2, ReleaseKeeps
  <2>2. CASE UNCHANGED prioVars
    BY <1>0, <2>1, <2>2, PrioSame DEF IInv
  <2>3. CASE HPFPriorityRestore(t, <<>>, priority[t])
    BY <1>0, <2>1, <2>3, RestoreKeeps DEF IInv
  <2> QED BY <1>2, <2>2, <2>3 DEF Release
<1>3. CASE HandOver(t, m)
  <2>1. PICK w \in Tasks : w = Head(muxList[m])
    <3>1. muxList[m] \in Seq(Tasks) /\ muxList[m] # <<>>
      BY <1>0, <1>3 DEF MuxTypeOK, HandOver
    <3> QED BY <3>1, TailList
  <2>2. PrioOK' /\ fault' \in BOOLEAN
    <3>1. CASE HPFPriorityRestore(t, <<>>, priority[t]) /\ UNCHANGED fault
      BY <1>0, <3>1, RestoreKeeps
    <3>2. CASE OsMuxBitmapRestore(m, muxList[m], w)
      BY <1>0, <3>2, BitmapRestoreKeeps
    <3> QED BY <1>3, <2>1, <3>1, <3>2 DEF HandOver
  <2>3. Struct'
    BY <1>0, <1>3, <2>2, HandOverKeeps
  <2> QED BY <2>2, <2>3 DEF IInv
<1> QED BY <1>1, <1>2, <1>3 DEF OsMuxUnlockUnsafe

\* LOS_MuxLock and LOS_MuxTrylock
LEMMA LockKeeps ==
    ASSUME IInv, NEW t \in Tasks, NEW m \in Muxes, NEW timeout,
           LOS_MuxLock(t, m, timeout) \/ LOS_MuxTrylock(t, m), disciplined' \in BOOLEAN
    PROVE  IInv'
<1>0. /\ PrioOK /\ Struct /\ MuxTypeOK /\ taskStatus[t] = "RUN" /\ magic[m]
      /\ UNCHANGED <<magic, attr, deleting, fault>> /\ fault \in BOOLEAN
  BY DEF IInv, Struct, LOS_MuxLock, LOS_MuxTrylock, Running, MuxTypeOK
<1>1. CASE TakeFree(t, m)
  <2>1. Struct'
    BY <1>0, <1>1, TakeFreeKeeps
  <2>2. CASE UNCHANGED prioVars
    BY <1>0, <2>1, <2>2, PrioSame DEF IInv
  <2>3. CASE HPFPriorityInheritance(t, attr[m].prioceiling)
    <3>1. attr[m].prioceiling \in Nat
      <4>1. attr[m] \in MuxAttrs \cup {ZeroAttr}
        BY <1>0 DEF MuxTypeOK
      <4> QED BY <4>1, MuxAssumption DEF ZeroAttr
    <3> QED BY <1>0, <2>1, <2>3, <3>1, InheritKeeps DEF IInv
  <2> QED BY <1>1, <2>2, <2>3 DEF TakeFree
<1>2. CASE TakeAgain(t, m)
  <2>1. PICK k : k = muxCount[m] + 1
    OBVIOUS
  <2>2. k \in 0..MuxCountMax /\ k # 0 /\ muxCount' = [muxCount EXCEPT ![m] = k]
    BY <1>0, <1>2, <2>1, MuxAssumption DEF MuxTypeOK, TakeAgain
  <2>3. owner[m] # NULL /\ attr[m].type = "RECURSIVE"
        /\ UNCHANGED <<taskStatus, owner, muxList, prioVars, taskMux, lockList, pendMux>>
    BY <1>2, MuxAssumption DEF TakeAgain
  <2>4. Struct'
    BY <1>0, <2>2, <2>3, CountKeeps
  <2> QED BY <1>0, <2>3, <2>4, PrioSame DEF IInv
<1>3. CASE Block(t, m, timeout)
  <2>1. owner[m] \in Tasks
    <3>1. muxCount[m] # 0
      BY <1>0, <1>3 DEF MuxTypeOK, Block
    <3> QED BY <1>0, <3>1 DEF Struct, OwnerAgrees, MuxTypeOK
  <2>2. PrioOK'
    BY <1>0, <1>3, <2>1, BitmapSetKeeps DEF Block
  <2>3. Struct'
    BY <1>0, <1>3, <2>2, BlockKeeps
  <2> QED BY <2>2, <2>3 DEF IInv
<1> QED BY <1>1, <1>2, <1>3 DEF LOS_MuxLock, LOS_MuxTrylock

\* The ends of a wait: return, return after a timeout, timeout, deletion.
LEMMA WaitEndKeeps ==
    ASSUME IInv, NEW t \in Tasks, disciplined' \in BOOLEAN,
           MuxLockReturn(t) \/ MuxLockTimedOut(t) \/ MuxTimeout(t) \/ OsInactiveTaskDelete(t)
    PROVE  IInv'
<1>0. PrioOK /\ Struct /\ MuxTypeOK /\ fault \in BOOLEAN /\ deleting \in Tasks \cup {NULL}
  BY DEF IInv, Struct, MuxTypeOK
<1>1. CASE MuxLockReturn(t)
  <2>1. ~IsPending(t) /\ "RUN" \in TaskStatus
    BY <1>1 DEF MuxLockReturn, IsPending, TaskStatus
  <2>2. Struct'
    BY <1>0, <1>1, <2>1, TaskOnly DEF MuxLockReturn, HPFWaitReturn, muxVars
  <2> QED BY <1>0, <1>1, <2>2, PrioSame DEF IInv, MuxLockReturn
<1>2. CASE MuxLockTimedOut(t)
  <2>1. ~IsPending(t) /\ "RUN" \in TaskStatus /\ pendMux[t] \in Muxes
    BY <1>0, <1>2 DEF MuxLockTimedOut, IsPending, TaskStatus, Struct, PendOK
  <2>2. PrioOK' /\ fault' \in BOOLEAN
    BY <1>0, <1>2, <2>1, BitmapRestoreKeeps DEF MuxLockTimedOut
  <2>3. Struct'
    BY <1>0, <1>2, <2>1, <2>2, TaskOnly DEF MuxLockTimedOut, HPFWaitReturn, muxVars
  <2> QED BY <2>2, <2>3 DEF IInv
<1>3. CASE MuxTimeout(t)
  <2>1. IsPending(t) /\ "TIMEOUT" \in TaskStatus
    BY <1>3 DEF MuxTimeout, SchedTimeoutTaskWake, IsPending, TaskStatus
  <2>2. Struct'
    BY <1>0, <1>3, <2>1, TaskOnly DEF MuxTimeout, SchedTimeoutTaskWake
  <2> QED BY <1>0, <1>3, <2>2, PrioSame DEF IInv, MuxTimeout
<1>4. CASE OsInactiveTaskDelete(t)
  <2>1. PrioOK' /\ fault' \in BOOLEAN
    <3>1. CASE UNCHANGED <<prioVars, fault>>
      BY <1>0, <3>1, PrioSame
    <3>2. CASE taskMux[t] # NULL /\ OsMuxBitmapRestore(taskMux[t], <<>>, t)
      <4>1. taskMux[t] \in Muxes
        BY <1>0, <3>2 DEF MuxTypeOK
      <4> QED BY <1>0, <3>2, <4>1, BitmapRestoreKeeps
    <3> QED BY <1>4, <3>1, <3>2 DEF OsInactiveTaskDelete
  <2>2. "UNUSED" \in TaskStatus /\ deleting' \in Tasks \cup {NULL} /\ lockList[t] = <<>>
    BY <1>4 DEF OsInactiveTaskDelete, TaskStatus
  <2>3. Struct'
    BY <1>0, <1>4, <2>1, <2>2, TaskOnly DEF OsInactiveTaskDelete
  <2> QED BY <2>1, <2>3 DEF IInv
<1> QED BY <1>1, <1>2, <1>3, <1>4

LEMMA InitIInv == Init => IInv
<1> SUFFICES ASSUME Init PROVE IInv
  OBVIOUS
<1>1. PrioOK
  BY MuxAssumption DEF Init, PrioOK, PrioOne
<1>2. MuxTypeOK
  <2>1. <<>> \in Seq(Tasks) /\ <<>> \in Seq(Muxes) /\ 0 \in 0..MuxCountMax /\ "RUN" \in TaskStatus
    BY MuxAssumption DEF TaskStatus
  <2>2. disciplined \in BOOLEAN
    BY DEF Init, OneClass
  <2> QED BY <2>1, <2>2 DEF Init, MuxTypeOK
<1>3. ToSet(<<>>) = {} /\ IsInjective(<<>>)
  BY DEF ToSet, IsInjective
<1>4. OwnerAgrees
  BY <1>3, MuxAssumption DEF Init, OwnerAgrees
<1>5. WaitOK
  BY <1>3 DEF Init, WaitOK
<1>6. LiveOK /\ PendOK
  BY DEF Init, LiveOK, PendOK
<1> QED BY <1>1, <1>2, <1>4, <1>5, <1>6 DEF IInv, Struct

LEMMA NextIInv == IInv /\ [Next]_vars => IInv'
<1> SUFFICES ASSUME IInv, [Next]_vars PROVE IInv'
  OBVIOUS
<1>0. PrioOK /\ Struct /\ MuxTypeOK /\ disciplined \in BOOLEAN
  BY DEF IInv, Struct, MuxTypeOK
<1>1. CASE UNCHANGED vars
  BY <1>1 DEF IInv, PrioOK, Struct, MuxTypeOK, OwnerAgrees, WaitOK, LiveOK, PendOK, IsPending,
              vars, muxVars, prioVars
<1>2. CASE Next
  <2>1. PICK t \in Tasks :
            \/ /\ \/ \E m \in Muxes, a \in MuxAttrs : LOS_MuxInit(t, m, a)
                  \/ \E m \in Muxes : LOS_MuxDestroy(t, m)
                  \/ \E m \in Muxes : LOS_MuxUnlock(t, m)
                  \/ MuxLockReturn(t)
                  \/ MuxLockTimedOut(t)
                  \/ OsTaskReleaseHoldLock(t)
                  \/ OsInactiveTaskDelete(t)
               /\ UNCHANGED disciplined
            \/ \E m \in Muxes :
                  /\ \/ \E timeout \in WaitModes : LOS_MuxLock(t, m, timeout)
                     \/ LOS_MuxTrylock(t, m)
                  /\ disciplined' = (disciplined /\ ~SecondMutex(t, m))
            \/ /\ MuxTimeout(t) \/ LOS_TaskDelete(t)
               /\ disciplined' = FALSE
    BY <1>2 DEF Next, Step
  <2>2. disciplined' \in BOOLEAN
    BY <1>0, <2>1
  <2>3. ASSUME NEW m \in Muxes, NEW a \in MuxAttrs, LOS_MuxInit(t, m, a) \/ LOS_MuxDestroy(t, m)
        PROVE  IInv'
    <3>1. Struct'
      BY <1>0, <2>2, <2>3, InitDestroyKeep
    <3>2. UNCHANGED prioVars
      BY <2>3 DEF LOS_MuxInit, LOS_MuxDestroy
    <3> QED BY <1>0, <3>1, <3>2, PrioSame DEF IInv
  <2>4. ASSUME NEW m \in Muxes, LOS_MuxUnlock(t, m) PROVE IInv'
    BY <2>2, <2>4, UnlockKeeps DEF LOS_MuxUnlock
  <2>5. CASE OsTaskReleaseHoldLock(t)
    <3>1. PICK m \in Muxes : m = Head(lockList[t])
      <4>1. lockList[t] \in Seq(Muxes) /\ lockList[t] # <<>>
        BY <1>0, <2>5 DEF MuxTypeOK, OsTaskReleaseHoldLock
      <4> QED BY <4>1, TailList
    <3> QED BY <2>2, <2>5, <3>1, UnlockKeeps DEF OsTaskReleaseHoldLock
  <2>6. CASE MuxLockReturn(t) \/ MuxLockTimedOut(t) \/ MuxTimeout(t) \/ OsInactiveTaskDelete(t)
    BY <2>2, <2>6, WaitEndKeeps
  <2>7. ASSUME NEW m \in Muxes, NEW timeout \in WaitModes, LOS_MuxLock(t, m, timeout) PROVE IInv'
    BY <2>2, <2>7, LockKeeps
  <2>8. ASSUME NEW m \in Muxes, LOS_MuxTrylock(t, m) PROVE IInv'
    BY <2>2, <2>8, LockKeeps
  <2>9. CASE LOS_TaskDelete(t)
    <3>1. PrioOK'
      BY <1>0, <2>9, PrioSame DEF LOS_TaskDelete
    <3>2. MuxTypeOK'
      BY <1>0, <2>2, <2>9 DEF LOS_TaskDelete, MuxTypeOK, muxVars
    <3>3. OwnerAgrees' /\ WaitOK' /\ LiveOK' /\ PendOK'
      BY <1>0, <2>9 DEF LOS_TaskDelete, Struct, OwnerAgrees, WaitOK, LiveOK, PendOK, IsPending, muxVars
    <3> QED BY <3>1, <3>2, <3>3 DEF IInv, Struct
  <2>10. \E a \in MuxAttrs : TRUE
    BY MuxAssumption
  <2> QED BY <2>1, <2>3, <2>4, <2>5, <2>6, <2>7, <2>8, <2>9, <2>10
<1> QED BY <1>1, <1>2

-----------------------------------------------------------------------------
(* Properties that hold for every use of the operations                     *)

LEMMA IInvAlways == Spec => []IInv
BY InitIInv, NextIInv, PTL DEF Spec

\* Every field of mutexes and tasks keeps its type: counts stay within bounds, lists hold
\* tasks and mutexes, priorities are never undefined.
THEOREM TypeCorrect == Spec => []TypeOK
<1> DEFINE PolicyOK == policy \in [Tasks -> HPFPolicies]
<1>1. IInv /\ PolicyOK => TypeOK
  BY DEF IInv, Struct, MuxTypeOK, PrioOK, TypeOK
<1>2. Init => PolicyOK
  BY MuxAssumption DEF Init
<1>3. PolicyOK /\ [Next]_vars => PolicyOK'
  BY DEF Next, vars
<1> HIDE DEF PolicyOK
<1> QED BY <1>1, <1>2, <1>3, IInvAlways, PTL DEF Spec

\* After every lock, unlock, hand-over, timeout and deletion, muxCount, owner and the hold
\* lists agree on who holds each mutex.
THEOREM HoldersAgree == Spec => []OwnerAgrees
<1>1. IInv => OwnerAgrees
  BY DEF IInv, Struct
<1> QED BY <1>1, IInvAlways, PTL

\* Nobody waits for a mutex that was destroyed, is free, or is owned by a deleted task.
THEOREM WaitersHaveOwner == Spec => []NoStrandedWaiter
<1>1. IInv => NoStrandedWaiter
  BY DEF IInv, Struct, LiveOK, NoStrandedWaiter
<1> QED BY <1>1, IInvAlways, PTL

\* No sequence of locks, unlocks, timeouts and deletions loses the priority a task started
\* with: HPFPriorityRestore never clears its bit.
THEOREM OriginalKept == Spec => []OriginalPriorityKept
<1>1. ASSUME IInv PROVE OriginalPriorityKept
  <2> SUFFICES ASSUME NEW t \in Tasks
               PROVE  /\ \A b \in priBitmap[t] : priority[t] < b
                      /\ InitPrio[t] = IF priBitmap[t] = {} THEN priority[t] ELSE Max(priBitmap[t])
    BY DEF OriginalPriorityKept
  <2>1. InitPrio[t] \in Nat /\ PrioOne(priority[t], priBitmap[t], InitPrio[t])
    BY <1>1, MuxAssumption DEF IInv, PrioOK
  <2>2. priBitmap[t] # {} => LOS_HighBitGet(priBitmap[t]) = InitPrio[t]
    BY <2>1, HighBit
  <2>3. priBitmap[t] # {} => Max(priBitmap[t]) = InitPrio[t]
    BY <2>2 DEF LOS_HighBitGet
  <2> QED BY <2>1, <2>3 DEF PrioOne
<1> QED BY <1>1, IInvAlways, PTL

-----------------------------------------------------------------------------
(* The place of a waiter                                                    *)

\* Where LockPendFindPos puts t, in terms of the priorities around it.
Placed(prio, t, l, p) ==
    /\ p \in 1..Len(l) + 1
    /\ l # <<>> => (p = 1 <=> prio[t] < prio[l[1]])
    /\ Sorted(prio, l) => \A i \in 1..Len(l) : IF i < p THEN prio[l[i]] <= prio[t]
                                                      ELSE prio[t] <= prio[l[i]]

LEMMA FindPosPlaces ==
    ASSUME NEW S, NEW pol, NEW base \in [S -> Nat], NEW prio \in [S -> Nat], NEW t \in S,
           NEW l \in Seq(S), \A u, v \in S : pol[u] = pol[v] /\ base[u] = base[v]
    PROVE  Placed(prio, t, l, LockPendFindPos(pol, base, prio, t, l))
<1> DEFINE cmp(u) == SchedParamCompare(pol, base, prio, u, t)
           D == {k \in DOMAIN l : cmp(l[k]) >= 0}
<1>0. \A i \in 1..Len(l) : l[i] \in S
  OBVIOUS
<1>1. \A u \in S : cmp(u) = prio[u] - prio[t] /\ prio[u] \in Nat /\ prio[t] \in Nat
  BY DEF SchedParamCompare, HPFParamCompare
<1>2. PICK p \in 1..Len(l) + 1 : p = LockPendFindPos(pol, base, prio, t, l)
  BY FindPosInRange
<1>3. l # <<>> => 1 \in 1..Len(l) /\ Len(l) \in 1..Len(l) /\ Head(l) = l[1] /\ Last(l) = l[Len(l)]
  BY DEF Last
<1>4. CASE l = <<>>
  BY <1>2, <1>4 DEF Placed
<1>5. CASE l # <<>> /\ cmp(Head(l)) > 0
  <2>1. p = 1
    BY <1>2, <1>5 DEF LockPendFindPos
  <2>2. prio[t] < prio[l[1]]
    BY <1>0, <1>1, <1>3, <1>5
  <2>3. Sorted(prio, l) => \A i \in 1..Len(l) : prio[t] <= prio[l[i]]
    <3>1. SUFFICES ASSUME Sorted(prio, l), NEW i \in 1..Len(l) PROVE prio[t] <= prio[l[i]]
      OBVIOUS
    <3>2. i = 1 \/ (1 \in 1..Len(l) /\ 1 < i)
      OBVIOUS
    <3>3. prio[l[1]] <= prio[l[i]]
      BY <3>1, <3>2, <1>0, <1>1, <1>3, <1>5 DEF Sorted
    <3> QED BY <3>3, <2>2, <1>0, <1>1, <1>3, <1>5, SMTT(40)
  <2> QED BY <1>2, <2>1, <2>2, <2>3 DEF Placed
<1>6. CASE l # <<>> /\ ~(cmp(Head(l)) > 0) /\ cmp(Last(l)) <= 0
  <2>1. p = Len(l) + 1
    BY <1>2, <1>6 DEF LockPendFindPos
  <2>2. ~(prio[t] < prio[l[1]]) /\ prio[l[Len(l)]] <= prio[t]
    BY <1>0, <1>1, <1>3, <1>6
  <2>3. Sorted(prio, l) => \A i \in 1..Len(l) : prio[l[i]] <= prio[t]
    <3>1. SUFFICES ASSUME Sorted(prio, l), NEW i \in 1..Len(l) PROVE prio[l[i]] <= prio[t]
      OBVIOUS
    <3>2. i = Len(l) \/ (Len(l) \in 1..Len(l) /\ i < Len(l))
      OBVIOUS
    <3>3. prio[l[i]] <= prio[l[Len(l)]]
      BY <3>1, <3>2, <1>0, <1>1, <1>3, <1>6 DEF Sorted
    <3> QED BY <3>3, <2>2, <1>0, <1>1, <1>3, <1>6
  <2>4. Len(l) + 1 # 1
    BY <1>6
  <2> QED BY <1>2, <2>1, <2>2, <2>3, <2>4 DEF Placed
<1>7. CASE l # <<>> /\ ~(cmp(Head(l)) > 0) /\ ~(cmp(Last(l)) <= 0)
  <2>1. PICK d : d = D
    OBVIOUS
  <2>2. /\ d \subseteq 1..Len(l)
        /\ \A k \in 1..Len(l) : k \in d <=> prio[t] <= prio[l[k]]
    BY <1>0, <1>1, <2>1, SMTT(40)
  <2>3. d \in SUBSET Nat /\ d # {}
    BY <1>0, <1>1, <1>3, <1>7, <2>2, SMTT(40)
  <2>4. PICK i \in 1..Len(l) : i = Min(d) /\ i \in d /\ \A y \in d : i <= y
    <3>1. PICK i0 \in d : \A y \in d : i0 <= y
      BY <2>3, NatMin
    <3>2. Min(d) \in d /\ \A y \in d : Min(d) <= y
      BY <3>1 DEF Min
    <3> QED BY <2>2, <3>2
  <2>5. p = IF cmp(l[i]) > 0 THEN i ELSE i + 1
    BY <1>2, <1>7, <2>1, <2>4 DEF LockPendFindPos
  <2>6. prio[t] <= prio[l[i]] /\ \A k \in 1..Len(l) : k < i => prio[l[k]] < prio[t]
    <3>1. \A k \in 1..Len(l) : k < i => k \notin d
      BY <2>4
    <3> HIDE DEF D
    <3>2. prio[t] <= prio[l[i]]
      BY <2>2, <2>4
    <3>3. \A k \in 1..Len(l) : k < i => prio[l[k]] < prio[t]
      BY <1>0, <1>1, <2>2, <3>1, SMTT(40)
    <3> QED BY <3>2, <3>3
  <2>7. ~(prio[t] < prio[l[1]]) /\ p # 1
    <3>1. ~(prio[t] < prio[l[1]])
      BY <1>0, <1>1, <1>3, <1>7
    <3>2. i = 1 => p # 1
      BY <1>0, <1>1, <1>3, <1>7, <2>5
    <3>3. i # 1 => p # 1
      BY <2>5
    <3> QED BY <3>1, <3>2, <3>3
  <2>8. ASSUME Sorted(prio, l), NEW k \in 1..Len(l)
        PROVE  IF k < p THEN prio[l[k]] <= prio[t] ELSE prio[t] <= prio[l[k]]
    <3>1. prio[l[k]] \in Nat /\ prio[l[i]] \in Nat /\ prio[t] \in Nat
      BY <1>0, <1>1
    <3>2. CASE k < i
      BY <2>5, <2>6, <3>1, <3>2
    <3>3. CASE k = i
      <4>1. cmp(l[i]) > 0 \/ prio[l[i]] = prio[t]
        BY <1>0, <1>1, <2>6, SMTT(40)
      <4> QED BY <2>5, <2>6, <3>1, <3>3, <4>1
    <3>4. CASE i < k
      <4>1. prio[l[i]] <= prio[l[k]]
        BY <2>8, <3>4 DEF Sorted
      <4> QED BY <2>5, <2>6, <3>1, <3>4, <4>1, SMTT(40)
    <3> QED BY <3>2, <3>3, <3>4
  <2> QED BY <1>2, <1>7, <2>7, <2>8 DEF Placed
<1> QED BY <1>4, <1>5, <1>6, <1>7

\* A waiter that is linked where LockPendFindPos says keeps a sorted list sorted, and is the
\* first one only if it has a higher priority than the first one had.
LEMMA PlacedList ==
    ASSUME NEW S, NEW prio \in [S -> Nat], NEW t \in S, NEW l \in Seq(S), NEW p, Placed(prio, t, l, p),
           NEW r, r = InsertAt(l, p, t)
    PROVE  /\ r \in Seq(S) /\ r # <<>> /\ ToSet(r) = ToSet(l) \cup {t}
           /\ IF l = <<>> THEN r = <<t>>
              ELSE \/ Head(r) = t /\ prio[t] < prio[Head(l)]
                   \/ Head(r) = Head(l) /\ prio[Head(l)] <= prio[t]
           /\ Sorted(prio, l) => Sorted(prio, r)
<1>1. p \in 1..Len(l) + 1
  BY DEF Placed
<1>2. /\ r \in Seq(S) /\ Len(r) = Len(l) + 1 /\ ToSet(r) = ToSet(l) \cup {t}
      /\ \A i \in 1..Len(l) + 1 : r[i] = IF i < p THEN l[i] ELSE IF i = p THEN t ELSE l[i - 1]
  <2>1. /\ InsertAt(l, p, t) \in Seq(S) /\ Len(InsertAt(l, p, t)) = Len(l) + 1
        /\ ToSet(InsertAt(l, p, t)) = ToSet(l) \cup {t}
    BY <1>1, InsertList
  <2>2. ASSUME NEW i \in 1..Len(l) + 1
        PROVE  InsertAt(l, p, t)[i] = IF i < p THEN l[i] ELSE IF i = p THEN t ELSE l[i - 1]
    <3> HIDE DEF Placed
    <3>1. \A q \in 1..Len(l) + 1 : \A k \in 1..Len(l) + 1 :
             InsertAt(l, q, t)[k] = IF k < q THEN l[k] ELSE IF k = q THEN t ELSE l[k - 1]
      BY InsertList, SMTT(60)
    <3> QED BY <1>1, <3>1
  <2> QED BY <2>1, <2>2
<1>3. r # <<>> /\ Head(r) = r[1]
  BY <1>2
<1>4. CASE l = <<>>
  <2>1. Len(r) = 1 /\ r[1] = t
    BY <1>1, <1>2, <1>4
  <2>2. r = <<t>>
    BY <1>2, <2>1
  <2>3. Sorted(prio, r)
    BY <2>1 DEF Sorted
  <2> QED BY <1>2, <1>3, <1>4, <2>2, <2>3
<1>5. CASE l # <<>>
  <2>1. Head(l) = l[1] /\ l[1] \in S /\ prio[l[1]] \in Nat /\ prio[t] \in Nat
    BY <1>5
  <2>2. p = 1 <=> prio[t] < prio[l[1]]
    BY <1>5 DEF Placed
  <2>3. \/ Head(r) = t /\ prio[t] < prio[Head(l)]
        \/ Head(r) = Head(l) /\ prio[Head(l)] <= prio[t]
    BY <1>1, <1>2, <1>3, <2>1, <2>2
  <2>4. ASSUME Sorted(prio, l), NEW i \in 1..Len(r), NEW j \in 1..Len(r), i < j
        PROVE  prio[r[i]] <= prio[r[j]]
    <3>1. \A k \in 1..Len(l) : IF k < p THEN prio[l[k]] <= prio[t] ELSE prio[t] <= prio[l[k]]
      BY <2>4 DEF Placed
    <3>2. \A k \in 1..Len(l) : prio[l[k]] \in Nat
      OBVIOUS
    <3>3. r[i] = IF i < p THEN l[i] ELSE IF i = p THEN t ELSE l[i - 1]
      BY <1>2
    <3>4. r[j] = IF j < p THEN l[j] ELSE IF j = p THEN t ELSE l[j - 1]
      BY <1>2
    <3>5. \A a, b \in 1..Len(l) : a < b => prio[l[a]] <= prio[l[b]]
      BY <2>4 DEF Sorted
    <3>6. CASE j < p
      <4>1. i \in 1..Len(l) /\ j \in 1..Len(l)
        BY <1>1, <1>2, <2>4, <3>6, SMTT(40)
      <4> QED BY <1>1, <2>4, <3>3, <3>4, <3>5, <3>6, <4>1
    <3>7. CASE j = p
      <4>1. i \in 1..Len(l) /\ i < p
        BY <1>1, <1>2, <2>4, <3>7
      <4> QED BY <3>1, <3>3, <3>4, <3>7, <4>1
    <3>8. CASE j > p /\ i < p
      <4>1. i \in 1..Len(l) /\ j - 1 \in 1..Len(l) /\ ~(j - 1 < p)
        BY <1>1, <1>2, <3>8
      <4>2. prio[l[i]] <= prio[t] /\ prio[t] <= prio[l[j - 1]]
        BY <3>1, <3>8, <4>1
      <4>3. r[i] = l[i] /\ r[j] = l[j - 1]
        BY <1>1, <3>3, <3>4, <3>8
      <4>4. prio[l[i]] <= prio[l[j - 1]]
        BY <4>1, <4>2, <3>2, <2>1
      <4> QED BY <4>3, <4>4
    <3>9. CASE j > p /\ i = p
      <4>1. j - 1 \in 1..Len(l) /\ ~(j - 1 < p)
        BY <1>1, <1>2, <3>9
      <4>2. r[i] = t /\ r[j] = l[j - 1]
        BY <1>1, <3>3, <3>4, <3>9
      <4> QED BY <3>1, <4>1, <4>2
    <3>10. CASE j > p /\ i > p
      <4>1. i - 1 \in 1..Len(l) /\ j - 1 \in 1..Len(l) /\ i - 1 < j - 1
        BY <1>1, <1>2, <2>4, <3>10
      <4>2. r[i] = l[i - 1] /\ r[j] = l[j - 1]
        BY <1>1, <3>3, <3>4, <3>10
      <4> QED BY <3>5, <4>1, <4>2
    <3> QED BY <1>1, <1>2, <3>6, <3>7, <3>8, <3>9, <3>10
  <2> QED BY <1>2, <1>3, <1>5, <2>3, <2>4 DEF Sorted
<1> QED BY <1>4, <1>5

-----------------------------------------------------------------------------
(* The simple use                                                           *)

\* A step about mutex m and the task o that had or gets it; the others keep what they had.
LEMMA SimpleBut ==
    ASSUME IInv, Simple, NEW m \in Muxes, NEW o \in Tasks, owner[m] \in {o, NULL},
           NobodyLeaves', OneMutex', UNCHANGED attr,
           \A n \in Muxes : n # m => /\ owner'[n] = owner[n] /\ muxList'[n] = muxList[n]
                                     /\ owner[n] # o /\ o \notin ToSet(muxList[n]),
           \A u \in Tasks : u # o => priority'[u] = priority[u] /\ priBitmap'[u] = priBitmap[u],
           (\A n \in Muxes : owner'[n] # o) => priority'[o] = InitPrio[o],
           owner'[m] # NULL => OwnerPrio(m, owner[m])',
           InOrder(m)'
    PROVE  Simple'
<1>0. MuxTypeOK
  BY DEF IInv, Struct
<1>1. ASSUME NEW u \in Tasks, \A n \in Muxes : owner'[n] # u PROVE priority'[u] = InitPrio[u]
  <2>1. CASE u = o
    BY <1>1, <2>1
  <2>2. CASE u # o
    <3>1. \A n \in Muxes : owner[n] # u
      BY <1>1, <2>2, MuxAssumption
    <3> QED BY <2>2, <3>1 DEF Simple
  <2> QED BY <2>1, <2>2
<1>2. ASSUME NEW n \in Muxes, n # m
      PROVE  (owner'[n] # NULL => OwnerPrio(n, owner[n])') /\ InOrder(n)'
  <2>1. PICK l \in Seq(Tasks) : l = muxList[n]
    BY <1>0 DEF MuxTypeOK
  <2>2. ToSet(l) \subseteq Tasks \ {o} /\ muxList'[n] = l /\ owner'[n] = owner[n] /\ owner[n] # o
    BY <1>2, <2>1, ToSetIn
  <2>3. \A w \in ToSet(l) : priority'[w] = priority[w]
    BY <2>2
  <2>4. InOrder(n)'
    <3>1. InOrder(n)
      BY DEF Simple
    <3>2. l # <<>> => Head(l) \in ToSet(l)
      BY TailList
    <3>3. l = <<>> => ToSet(l) = {}
      BY ToSetIn
    <3>4. \A i \in 1..Len(l) : l[i] \in ToSet(l)
      BY ToSetIn
    <3>5. PICK q : q = priority'
      OBVIOUS
    <3>6. \A w \in ToSet(l) : q[w] = priority[w]
      BY <2>3, <3>5
    <3>7. \A w \in ToSet(l) : q[Head(l)] <= q[w]
      BY <2>1, <3>1, <3>2, <3>3, <3>6 DEF InOrder
    <3>8. owner[n] \notin ToSet(l) => Sorted(q, l)
      <4>1. owner[n] \notin ToSet(l) => Sorted(priority, l)
        BY <2>1, <3>1 DEF InOrder
      <4> QED BY <4>1, <3>4, <3>6 DEF Sorted
    <3> QED BY <2>2, <3>5, <3>7, <3>8 DEF InOrder
  <2>5. ASSUME owner'[n] # NULL PROVE OwnerPrio(n, owner[n])'
    <3>1. PICK q \in Tasks : q = owner[n]
      BY <1>0, <2>2, <2>5 DEF MuxTypeOK
    <3>2. OwnerPrio(n, q)
      BY <2>2, <2>5, <3>1 DEF Simple
    <3>3. priority'[q] = priority[q] /\ priBitmap'[q] = priBitmap[q] /\ attr'[n] = attr[n]
      BY <2>2, <3>1
    <3>4. Lent(n, q)' = Lent(n, q)
      BY <2>1, <2>2, <2>3 DEF Lent
    <3>5. OwnerPrio(n, q)'
      BY <2>1, <2>2, <2>3, <3>2, <3>3, <3>4 DEF OwnerPrio
    <3> QED BY <2>2, <3>1, <3>5
  <2> QED BY <2>4, <2>5
<1> QED BY <1>1, <1>2 DEF Simple

\* Nothing that Simple looks at changes, but for the attributes of free mutexes.
LEMMA SimpleSame ==
    ASSUME IInv, Simple, UNCHANGED <<owner, muxList, prioVars, deleting>>,
           \A t \in Tasks : taskStatus'[t] # "TIMEOUT",
           \A m \in Muxes : owner[m] # NULL => attr'[m] = attr[m]
    PROVE  Simple'
<1>1. NobodyLeaves' /\ OneMutex'
  BY DEF Simple, NobodyLeaves, OneMutex
<1>2. \A m \in Muxes : InOrder(m)'
  BY DEF Simple, InOrder, prioVars
<1>3. ASSUME NEW m \in Muxes, owner'[m] # NULL PROVE OwnerPrio(m, owner[m])'
  <2>1. OwnerPrio(m, owner[m]) /\ attr'[m] = attr[m]
    BY <1>3 DEF Simple
  <2>2. priority' = priority /\ priBitmap' = priBitmap /\ owner' = owner /\ muxList' = muxList
    BY DEF prioVars
  <2> QED BY <2>1, <2>2 DEF OwnerPrio, Lent
<1>4. \A t \in Tasks : (\A m \in Muxes : owner'[m] # t) => priority'[t] = InitPrio[t]
  BY DEF Simple, prioVars
<1> QED BY <1>1, <1>2, <1>3, <1>4 DEF Simple

\* A task in no wait list, and its mutexes.
LEMMA RunsInNoList ==
    ASSUME IInv, NEW t \in Tasks, ~IsPending(t)
    PROVE  \A m \in Muxes : t \notin ToSet(muxList[m])
BY DEF IInv, Struct, WaitOK

LEMMA HoldsNone ==
    ASSUME IInv, NEW t \in Tasks, lockList[t] = <<>>
    PROVE  \A m \in Muxes : owner[m] # t
<1>1. ToSet(lockList[t]) = {}
  BY DEF ToSet
<1> QED BY <1>1 DEF IInv, Struct, OwnerAgrees

\* At its original priority a task has nothing saved.
LEMMA NothingSaved ==
    ASSUME IInv, NEW t \in Tasks, priority[t] = InitPrio[t]
    PROVE  priBitmap[t] = {}
<1>1. InitPrio[t] \in Nat /\ PrioOne(priority[t], priBitmap[t], InitPrio[t])
  BY MuxAssumption DEF IInv, PrioOK
<1> QED BY <1>1 DEF PrioOne

LEMMA TakeFreeSimple ==
    ASSUME IInv, IInv', Simple, NEW t \in Tasks, NEW m \in Muxes, taskStatus[t] = "RUN", TakeFree(t, m),
           lockList[t] = <<>>, UNCHANGED <<magic, attr, deleting, fault>>
    PROVE  Simple'
<1>0. MuxTypeOK /\ Struct
  BY DEF IInv, Struct
<1>1. owner[m] = NULL /\ muxList[m] = <<>>
  BY <1>0, FreeMutex DEF TakeFree
<1>2. /\ \A n \in Muxes : t \notin ToSet(muxList[n])
      /\ \A n \in Muxes : owner[n] # t
  BY RunsInNoList, HoldsNone DEF IsPending
<1>3. priority[t] = InitPrio[t] /\ priBitmap[t] = {} /\ InitPrio[t] \in Nat
  BY <1>2, NothingSaved, MuxAssumption DEF Simple
<1>4. /\ owner'[m] = t /\ \A n \in Muxes : n # m => owner'[n] = owner[n]
      /\ UNCHANGED <<taskStatus, muxList>> /\ t # NULL
  BY <1>0, MuxAssumption DEF TakeFree, MuxTypeOK
<1>5. NobodyLeaves'
  BY <1>4 DEF Simple, NobodyLeaves
<1>6. OneMutex'
  BY <1>1, <1>2, <1>4 DEF Simple, OneMutex
<1>7. /\ \A u \in Tasks : u # t => priority'[u] = priority[u] /\ priBitmap'[u] = priBitmap[u]
      /\ attr[m].protocol # "PRIO_PROTECT" => priority'[t] = InitPrio[t]
      /\ priBitmap'[t] \subseteq {InitPrio[t]}
      /\ attr[m].protocol # "PRIO_PROTECT" => priBitmap'[t] = {}
  <2>0. priority \in [Tasks -> Nat] /\ priBitmap \in [Tasks -> SUBSET Nat]
    BY DEF IInv, PrioOK
  <2>1. CASE attr[m].protocol # "PRIO_PROTECT"
    BY <1>3, <2>1 DEF TakeFree, prioVars
  <2>2. CASE attr[m].protocol = "PRIO_PROTECT"
    <3>1. HPFPriorityInheritance(t, attr[m].prioceiling)
      BY <2>2 DEF TakeFree
    <3> QED BY <1>3, <2>0, <2>2, <3>1 DEF HPFPriorityInheritance, prioVars
  <2> QED BY <2>1, <2>2
<1>8. ToSet(<<>>) = {}
  BY DEF ToSet
<1>9. OwnerPrio(m, owner[m])'
  <2>1. ToSet(muxList'[m]) = {} /\ attr' = attr
    BY <1>1, <1>4, <1>8
  <2>2. OwnerPrio(m, t)'
    BY <1>7, <2>1 DEF OwnerPrio, Lent
  <2> QED BY <1>4, <2>2
<1>10. InOrder(m)'
  <2>1. muxList'[m] = <<>>
    BY <1>1, <1>4
  <2> QED BY <1>8, <2>1 DEF InOrder, Sorted
<1>11. \A n \in Muxes : n # m => /\ owner'[n] = owner[n] /\ muxList'[n] = muxList[n]
                                /\ owner[n] # t /\ t \notin ToSet(muxList[n])
  BY <1>2, <1>4
<1>12. ~\A n \in Muxes : owner'[n] # t
  BY <1>4
<1> QED BY <1>1, <1>5, <1>6, <1>7, <1>9, <1>10, <1>11, <1>12, SimpleBut

\* A ceiling is undone by an unlock.
LEMMA CeilingUndone ==
    ASSUME IInv, NEW t \in Tasks, priBitmap[t] \subseteq {InitPrio[t]},
           HPFPriorityRestore(t, <<>>, priority[t])
    PROVE  /\ priority'[t] = InitPrio[t]
           /\ \A u \in Tasks : u # t => priority'[u] = priority[u] /\ priBitmap'[u] = priBitmap[u]
<1>0. /\ priority \in [Tasks -> Nat] /\ priBitmap \in [Tasks -> SUBSET Nat] /\ InitPrio[t] \in Nat
      /\ PrioOne(priority[t], priBitmap[t], InitPrio[t])
  BY MuxAssumption DEF IInv, PrioOK
<1>1. Restored(t, <<>>, priority[t])
  BY <1>0, RestoreIs DEF IInv
<1>2. ~(priority[t] < priority[t])
  BY <1>0
<1>3. CASE priBitmap[t] = {} /\ UNCHANGED prioVars
  BY <1>0, <1>3 DEF PrioOne, prioVars
<1>4. ASSUME priBitmap[t] # {}, NEW kept \in SUBSET priBitmap[t],
             kept = {b \in priBitmap[t] : b = InitPrio[t] \/ \A w \in ToSet(<<>>) : priority[w] # b},
             priority' = [priority EXCEPT ![t] = LOS_LowBitGet(kept)],
             priBitmap' = [priBitmap EXCEPT ![t] = kept \ {LOS_LowBitGet(kept)}]
      PROVE  /\ priority'[t] = InitPrio[t]
             /\ \A u \in Tasks : u # t => priority'[u] = priority[u] /\ priBitmap'[u] = priBitmap[u]
  <2>1. InitPrio[t] \in priBitmap[t]
    BY <1>0, <1>4 DEF PrioOne
  <2>2. kept = {InitPrio[t]}
    BY <1>4, <2>1
  <2>3. LOS_LowBitGet(kept) \in kept
    BY <1>0, <1>4, <2>2, LowerOne
  <2>4. LOS_LowBitGet(kept) = InitPrio[t]
    BY <2>2, <2>3
  <2> QED BY <1>0, <1>4, <2>4
<1> QED BY <1>1, <1>2, <1>3, <1>4 DEF Restored

LEMMA ReleaseSimple ==
    ASSUME IInv, IInv', Simple, NEW t \in Tasks, NEW m \in Muxes, taskStatus[t] = "RUN", Release(t, m),
           owner[m] = t, UNCHANGED <<magic, attr, pendMux, deleting>>
    PROVE  Simple'
<1>0. MuxTypeOK /\ Struct /\ t # NULL
  BY MuxAssumption DEF IInv, Struct
<1>1. \A n \in Muxes : t \notin ToSet(muxList[n])
  BY RunsInNoList DEF IsPending
<1>2. /\ owner'[m] = NULL /\ \A n \in Muxes : n # m => owner'[n] = owner[n]
      /\ UNCHANGED <<taskStatus, muxList>> /\ muxList[m] = <<>>
  BY <1>0 DEF Release, MuxTypeOK
<1>3. \A n \in Muxes : n # m => owner[n] # t
  BY <1>0 DEF Simple, OneMutex
<1>4. NobodyLeaves' /\ OneMutex'
  <2>1. NobodyLeaves'
    BY <1>2 DEF Simple, NobodyLeaves
  <2>2. \A n \in Muxes : NULL \notin ToSet(muxList[n])
    BY <1>0, ToSetIn, MuxAssumption DEF MuxTypeOK
  <2> QED BY <1>2, <2>1, <2>2 DEF Simple, OneMutex
<1>5. OwnerPrio(m, t) /\ ToSet(muxList[m]) = {}
  BY <1>0, <1>2 DEF Simple, ToSet
<1>6. /\ priority'[t] = InitPrio[t]
      /\ \A u \in Tasks : u # t => priority'[u] = priority[u] /\ priBitmap'[u] = priBitmap[u]
  <2>1. CASE attr[m].protocol = "PRIO_PROTECT"
    BY <1>5, <2>1, CeilingUndone DEF Release, OwnerPrio
  <2>2. CASE attr[m].protocol # "PRIO_PROTECT"
    <3>1. attr[m].protocol \in {"PRIO_NONE", "PRIO_INHERIT"}
      <4>1. attr[m] \in MuxAttrs \cup {ZeroAttr}
        BY <1>0 DEF MuxTypeOK
      <4> QED BY <2>2, <4>1, MuxAssumption DEF ZeroAttr, MuxProtocols
    <3>2. priority[t] = InitPrio[t]
      BY <1>5, <3>1 DEF OwnerPrio, Lent
    <3> QED BY <2>2, <3>2 DEF Release, prioVars
  <2> QED BY <2>1, <2>2
<1>7. InOrder(m)'
  <2>1. muxList'[m] = <<>> /\ ToSet(muxList'[m]) = {}
    BY <1>2, <1>5
  <2> QED BY <2>1 DEF InOrder, Sorted
<1>8. \A n \in Muxes : n # m => /\ owner'[n] = owner[n] /\ muxList'[n] = muxList[n]
                                /\ owner[n] # t /\ t \notin ToSet(muxList[n])
  BY <1>1, <1>2, <1>3
<1> QED BY <1>2, <1>4, <1>6, <1>7, <1>8, SimpleBut

\* An owner that waiters have raised goes back to its original priority when it hands the
\* mutex to the first of them.
LEMMA InheritedUndone ==
    ASSUME IInv, NEW t \in Tasks, NEW l \in Seq(Tasks), NEW w \in ToSet(l),
           \A u \in ToSet(l) : priority[w] <= priority[u],
           NEW lent, lent = {priority[u] : u \in ToSet(l)},
           priority[t] \in lent \cup {InitPrio[t]}, priBitmap[t] \subseteq lent \cup {InitPrio[t]},
           priority[t] <= priority[w], HPFPriorityRestore(t, l, priority[w])
    PROVE  /\ priority'[t] = InitPrio[t]
           /\ \A u \in Tasks : u # t => priority'[u] = priority[u] /\ priBitmap'[u] = priBitmap[u]
<1>0. /\ priority \in [Tasks -> Nat] /\ priBitmap \in [Tasks -> SUBSET Nat] /\ InitPrio[t] \in Nat
      /\ PrioOne(priority[t], priBitmap[t], InitPrio[t]) /\ w \in Tasks /\ ToSet(l) \subseteq Tasks
  BY MuxAssumption, ToSetIn DEF IInv, PrioOK
<1>1. Restored(t, l, priority[w])
  BY <1>0, RestoreIs DEF IInv
<1>2. CASE /\ priority[t] < priority[w]
           /\ UNCHANGED priority
           /\ priBitmap' = [priBitmap EXCEPT ![t] = @ \ IF InitPrio[t] = priority[w] THEN {} ELSE {priority[w]}]
  <2>1. priority[t] \notin lent
    <3>1. \A u \in ToSet(l) : priority[t] # priority[u]
      BY <1>0, <1>2
    <3> QED BY <3>1
  <2> QED BY <1>0, <1>2, <2>1
<1>3. CASE priBitmap[t] = {} /\ UNCHANGED prioVars
  BY <1>0, <1>3 DEF PrioOne, prioVars
<1>4. ASSUME priBitmap[t] # {}, NEW kept \in SUBSET priBitmap[t],
             kept = {b \in priBitmap[t] : b = InitPrio[t] \/ \A u \in ToSet(l) : priority[u] # b},
             priority' = [priority EXCEPT ![t] = LOS_LowBitGet(kept)],
             priBitmap' = [priBitmap EXCEPT ![t] = kept \ {LOS_LowBitGet(kept)}]
      PROVE  /\ priority'[t] = InitPrio[t]
             /\ \A u \in Tasks : u # t => priority'[u] = priority[u] /\ priBitmap'[u] = priBitmap[u]
  <2>1. InitPrio[t] \in priBitmap[t]
    BY <1>0, <1>4 DEF PrioOne
  <2>2. \A b \in kept : b = InitPrio[t]
    <3>1. SUFFICES ASSUME NEW b \in kept, b # InitPrio[t] PROVE FALSE
      OBVIOUS
    <3>2. b \in lent /\ \A u \in ToSet(l) : priority[u] # b
      BY <1>4, <3>1
    <3> QED BY <3>2
  <2>3. kept = {InitPrio[t]}
    BY <1>4, <2>1, <2>2
  <2>4. LOS_LowBitGet(kept) \in kept
    BY <1>0, <1>4, <2>3, LowerOne
  <2>5. LOS_LowBitGet(kept) = InitPrio[t]
    BY <2>3, <2>4
  <2> QED BY <1>0, <1>4, <2>5
<1> QED BY <1>1, <1>2, <1>3, <1>4 DEF Restored

LEMMA HandOverSimple ==
    ASSUME IInv, IInv', Simple, NEW t \in Tasks, NEW m \in Muxes, taskStatus[t] = "RUN", HandOver(t, m),
           owner[m] = t, UNCHANGED <<magic, attr, pendMux, deleting>>
    PROVE  Simple'
<1>0. MuxTypeOK /\ Struct /\ t # NULL
  BY MuxAssumption DEF IInv, Struct
<1>1. \A n \in Muxes : t \notin ToSet(muxList[n])
  BY RunsInNoList DEF IsPending
<1>2. PICK l \in Seq(Tasks) : l = muxList[m]
  BY <1>0 DEF MuxTypeOK
<1>3. l # <<>> /\ IsInjective(l)
  BY <1>0, <1>2 DEF HandOver, Struct, WaitOK
<1>4. PICK w \in Tasks : w = Head(l)
  BY <1>3, TailList
<1>5. PICK r \in Seq(Tasks) : r = Tail(l)
  BY <1>3, TailList
<1>6. ToSet(l) = ToSet(r) \cup {w} /\ w \notin ToSet(r) /\ ToSet(l) \subseteq Tasks /\ t \notin ToSet(l)
  BY <1>1, <1>2, <1>3, <1>4, <1>5, TailList, ToSetIn
<1>7. /\ owner'[m] = w /\ muxList'[m] = r
      /\ \A n \in Muxes : n # m => owner'[n] = owner[n] /\ muxList'[n] = muxList[n]
      /\ taskStatus'[w] = "WOKEN" /\ \A u \in Tasks : u # w => taskStatus'[u] = taskStatus[u]
  BY <1>0, <1>2, <1>4, <1>5 DEF HandOver, MuxTypeOK, HPFWake
<1>8. \A n \in Muxes : n # m => owner[n] # t
  BY <1>0 DEF Simple, OneMutex
<1>9. \A u \in ToSet(l) : /\ \A n \in Muxes : owner[n] # u
                          /\ priority[u] = InitPrio[u] /\ priBitmap[u] = {}
  <2>1. ASSUME NEW u \in ToSet(l) PROVE \A n \in Muxes : owner[n] # u
    <3>1. u # t
      BY <1>6
    <3> QED BY <1>2, <3>1 DEF Simple, OneMutex
  <2>2. \A u \in ToSet(l) : u \in Tasks /\ priority[u] = InitPrio[u]
    BY <1>6, <2>1 DEF Simple
  <2> QED BY <2>1, <2>2, NothingSaved
<1>10. /\ \A u \in ToSet(l) : priority[w] <= priority[u]
       /\ Sorted(priority, l)
  BY <1>1, <1>2, <1>4 DEF Simple, InOrder
<1>11. NobodyLeaves'
  BY <1>7 DEF Simple, NobodyLeaves
<1>12. OneMutex'
  <2>1. ASSUME NEW a \in Muxes, NEW b \in Muxes, owner'[a] # NULL, owner'[a] = owner'[b] PROVE a = b
    <3>1. \A n \in Muxes : n # m => owner'[n] # w
      BY <1>6, <1>7, <1>9
    <3> QED BY <1>7, <2>1, <3>1 DEF Simple, OneMutex
  <2>2. ASSUME NEW a \in Muxes, NEW b \in Muxes, NEW u \in ToSet(muxList'[a]), owner'[b] = u PROVE b = a
    <3>1. u \in ToSet(muxList[a])
      BY <1>2, <1>6, <1>7
    <3>2. CASE b # m
      <4>1. owner[b] = u
        BY <1>7, <2>2, <3>2
      <4> QED BY <3>1, <4>1 DEF Simple, OneMutex
    <3>3. CASE b = m
      <4>1. u = w /\ w \in ToSet(muxList[m])
        BY <1>2, <1>6, <1>7, <2>2, <3>3
      <4>2. taskMux[w] = m /\ taskMux[u] = a
        BY <1>0, <3>1, <4>1 DEF Struct, WaitOK
      <4> QED BY <3>3, <4>1, <4>2
    <3> QED BY <3>2, <3>3
  <2> QED BY <2>1, <2>2 DEF OneMutex
<1>13. /\ priority'[t] = InitPrio[t]
       /\ \A u \in Tasks : u # t => priority'[u] = priority[u] /\ priBitmap'[u] = priBitmap[u]
  <2>0. OwnerPrio(m, t)
    BY <1>0 DEF Simple
  <2>1. CASE attr[m].protocol = "PRIO_PROTECT"
    BY <2>0, <2>1, CeilingUndone DEF HandOver, OwnerPrio
  <2>2. CASE attr[m].protocol = "PRIO_INHERIT"
    <3>1. HPFPriorityRestore(t, l, priority[w])
      BY <1>0, <1>2, <1>4, <2>2 DEF HandOver, OsMuxBitmapRestore
    <3>2. PICK lent : lent = {priority[u] : u \in ToSet(l)}
      OBVIOUS
    <3>3. Lent(m, t) = lent
      BY <1>2, <1>6, <3>2 DEF Lent
    <3>4. /\ priority[t] \in lent \cup {InitPrio[t]} /\ priBitmap[t] \subseteq lent \cup {InitPrio[t]}
          /\ priority[t] <= priority[w] /\ w \in ToSet(l)
      BY <1>2, <1>6, <2>0, <2>2, <3>3 DEF OwnerPrio
    <3> QED BY <1>10, <3>1, <3>2, <3>4, InheritedUndone
  <2>3. CASE attr[m].protocol = "PRIO_NONE"
    BY <2>0, <2>3 DEF HandOver, OwnerPrio, OsMuxBitmapRestore, prioVars
  <2>4. attr[m] \in MuxAttrs \cup {ZeroAttr}
    BY <1>0 DEF MuxTypeOK
  <2>5. attr[m].protocol \in {"PRIO_NONE", "PRIO_INHERIT", "PRIO_PROTECT"}
    BY <2>4, MuxAssumption DEF ZeroAttr, MuxProtocols
  <2> QED BY <2>1, <2>2, <2>3, <2>5
<1>14. \A u \in ToSet(l) : priority'[u] = priority[u] /\ priBitmap'[u] = priBitmap[u]
  BY <1>6, <1>13
<1>15. OwnerPrio(m, owner[m])'
  <2>1. priority'[w] = InitPrio[w] /\ priBitmap'[w] = {}
    BY <1>6, <1>9, <1>14
  <2>2. \A u \in ToSet(r) : priority'[w] <= priority'[u]
    BY <1>6, <1>10, <1>14
  <2>3. OwnerPrio(m, w)'
    BY <1>7, <2>1, <2>2 DEF OwnerPrio
  <2> QED BY <1>7, <2>3
<1>16. InOrder(m)'
  <2>1. PICK q : q = priority'
    OBVIOUS
  <2>2. /\ \A i \in 1..Len(r) : i + 1 \in 1..Len(l) /\ r[i] = l[i + 1]
        /\ Len(r) \in Nat
    BY <1>3, <1>5
  <2>3. Sorted(q, r)
    <3>1. \A i, j \in 1..Len(l) : i < j => priority[l[i]] <= priority[l[j]]
      BY <1>10 DEF Sorted
    <3>2. \A i \in 1..Len(r) : r[i] \in ToSet(l)
      BY <1>6, ToSetIn
    <3>3. \A i \in 1..Len(r) : q[r[i]] = priority[r[i]]
      BY <1>14, <2>1, <3>2
    <3>4. \A i, j \in 1..Len(r) : i < j => priority[r[i]] <= priority[r[j]]
      BY <2>2, <3>1
    <3> QED BY <3>3, <3>4 DEF Sorted
  <2>4. ASSUME NEW u \in ToSet(r) PROVE q[Head(r)] <= q[u]
    <3>1. PICK j \in 1..Len(r) : r[j] = u
      BY ToSetIn
    <3>2. r # <<>> /\ Head(r) = r[1] /\ 1 \in 1..Len(r) /\ u \in Tasks
      BY <2>4, <3>1, ToSetIn
    <3>3. q[u] \in Nat
      BY <2>1, <3>2 DEF IInv, PrioOK
    <3>4. j = 1 \/ 1 < j
      OBVIOUS
    <3> QED BY <2>3, <3>1, <3>2, <3>3, <3>4 DEF Sorted
  <2> QED BY <1>7, <2>1, <2>3, <2>4 DEF InOrder
<1>17. \A n \in Muxes : n # m => /\ owner'[n] = owner[n] /\ muxList'[n] = muxList[n]
                                 /\ owner[n] # t /\ t \notin ToSet(muxList[n])
  BY <1>1, <1>7, <1>8
<1> QED BY <1>11, <1>12, <1>13, <1>15, <1>16, <1>17, SimpleBut

\* Linking t where the code does keeps the first waiter the one with the highest priority,
\* at the priorities q after the owner o has been raised.
LEMMA LinkInOrder ==
    ASSUME OneClass, NEW q \in [Tasks -> Nat], NEW t \in Tasks, NEW l \in Seq(Tasks), NEW o,
           NEW p, p = LockPendFindPos(policy, BasePrio, q, t, l), NEW r, r = InsertAt(l, p, t),
           \/ \A u \in ToSet(l) : q[Head(l)] <= q[u]
           \/ \A u \in ToSet(l) : q[t] <= q[u],
           o \notin ToSet(l) => Sorted(q, l)
    PROVE  /\ \A u \in ToSet(r) : q[Head(r)] <= q[u]
           /\ o \notin ToSet(r) => Sorted(q, r)
<1>1. Placed(q, t, l, p)
  BY FindPosPlaces, MuxAssumption DEF OneClass
<1>2. /\ r \in Seq(Tasks) /\ r # <<>> /\ ToSet(r) = ToSet(l) \cup {t}
      /\ IF l = <<>> THEN r = <<t>>
         ELSE \/ Head(r) = t /\ q[t] < q[Head(l)]
              \/ Head(r) = Head(l) /\ q[Head(l)] <= q[t]
      /\ Sorted(q, l) => Sorted(q, r)
  BY <1>1, PlacedList
<1>3. ToSet(l) \subseteq Tasks /\ q[t] \in Nat /\ \A u \in ToSet(l) : q[u] \in Nat
  BY ToSetIn
<1>4. CASE l = <<>>
  <2>1. ToSet(l) = {}
    BY <1>4, ToSetIn
  <2>2. r = <<t>>
    BY <1>2, <1>4
  <2>3. Head(r) = t
    BY <2>2
  <2>4. \A u \in ToSet(r) : u = t
    BY <1>2, <2>1
  <2>5. Sorted(q, l)
    BY <1>4 DEF Sorted
  <2> QED BY <1>2, <1>3, <2>3, <2>4, <2>5
<1>5. CASE l # <<>>
  <2>1. q[Head(l)] \in Nat
    BY <1>5, TailList
  <2>2. \A u \in ToSet(l) : q[Head(r)] <= q[u]
    BY <1>2, <1>3, <1>5, <2>1
  <2>3. q[Head(r)] <= q[t]
    BY <1>2, <1>3, <1>5, <2>1
  <2> QED BY <1>2, <2>2, <2>3
<1> QED BY <1>4, <1>5

LEMMA InsertSet ==
    ASSUME NEW S, NEW s \in Seq(S), NEW e \in S, NEW p \in 1..Len(s) + 1, NEW r, r = InsertAt(s, p, e)
    PROVE  ToSet(r) = ToSet(s) \cup {e}
BY InsertList

LEMMA BlockSimple ==
    ASSUME IInv, IInv', Simple, OneClass, NEW t \in Tasks, NEW m \in Muxes, NEW timeout, taskStatus[t] = "RUN",
           Block(t, m, timeout), owner[m] = t \/ lockList[t] = <<>>,
           UNCHANGED <<magic, attr, deleting, fault>>
    PROVE  Simple'
<1>0. MuxTypeOK /\ Struct /\ t # NULL /\ priority \in [Tasks -> Nat] /\ priBitmap \in [Tasks -> SUBSET Nat]
  BY MuxAssumption DEF IInv, Struct, PrioOK
<1>1. \A n \in Muxes : t \notin ToSet(muxList[n])
  BY RunsInNoList DEF IsPending
<1>2. PICK l \in Seq(Tasks) : l = muxList[m]
  BY <1>0 DEF MuxTypeOK
<1>3. PICK o \in Tasks : o = owner[m]
  <2>1. muxCount[m] # 0
    BY <1>0 DEF Block, MuxTypeOK
  <2> QED BY <1>0, <2>1 DEF Struct, OwnerAgrees, MuxTypeOK
<1>4. o # NULL /\ OwnerPrio(m, o) /\ InOrder(m)
  BY <1>3, MuxAssumption DEF Simple
<1>5. PICK q \in [Tasks -> Nat] : q = priority'
  BY DEF IInv, PrioOK
<1>6. PICK p \in 1..Len(l) + 1 : p = LockPendFindPos(policy, BasePrio, q, t, l)
  BY FindPosInRange, MuxAssumption
<1>7. PICK r : r = InsertAt(l, p, t)
  OBVIOUS
<1>8. /\ muxList' = [muxList EXCEPT ![m] = r] /\ UNCHANGED owner
      /\ taskStatus' = [taskStatus EXCEPT ![t] = IF timeout = "FOREVER" THEN "PENDING" ELSE "PEND_TIME"]
  BY <1>2, <1>5, <1>6, <1>7 DEF Block, OsSchedLockPendFindPos, HPFWait
<1>9. /\ muxList'[m] = r /\ \A n \in Muxes : n # m => muxList'[n] = muxList[n]
      /\ taskStatus'[t] # "TIMEOUT" /\ \A u \in Tasks : u # t => taskStatus'[u] = taskStatus[u]
  BY <1>0, <1>8 DEF MuxTypeOK
<1>10. ToSet(r) = ToSet(l) \cup {t}
  BY <1>7, InsertSet, ZenonT(60)
<1>11. ToSet(l) \subseteq Tasks /\ t \notin ToSet(l)
  BY <1>1, <1>2, ToSetIn
<1>12. \A n \in Muxes : owner[n] = t => n = m
  <2>1. CASE owner[m] = t
    BY <1>0, <2>1 DEF Simple, OneMutex
  <2>2. CASE lockList[t] = <<>>
    BY <2>2, HoldsNone
  <2> QED BY <2>1, <2>2
<1>13. \A n \in Muxes : n # m => owner[n] # o /\ o \notin ToSet(muxList[n])
  BY <1>3, <1>4 DEF Simple, OneMutex
<1>14. NobodyLeaves'
  BY <1>9 DEF Simple, NobodyLeaves
<1>15. OneMutex'
  <2>1. ASSUME NEW a \in Muxes, NEW b \in Muxes, NEW u \in ToSet(muxList'[a]), owner[b] = u PROVE b = a
    <3>1. u \in ToSet(muxList[a]) \/ (u = t /\ a = m)
      BY <1>2, <1>9, <1>10
    <3> QED BY <1>12, <2>1, <3>1 DEF Simple, OneMutex
  <2> QED BY <1>8, <2>1 DEF Simple, OneMutex
\* What the owner inherits.
<1>16. \/ /\ attr[m].protocol = "PRIO_INHERIT" /\ o # t
          /\ priority[t] < priority[o]
          /\ q = [priority EXCEPT ![o] = priority[t]]
          /\ priBitmap' = [priBitmap EXCEPT ![o] = priBitmap[o] \cup {priority[o]}]
       \/ /\ attr[m].protocol = "PRIO_INHERIT" => priority[o] <= priority[t]
          /\ q = priority /\ priBitmap' = priBitmap
  <2>1. OsSchedParamCompare(o, t) = priority[o] - priority[t] /\ priority[o] \in Nat /\ priority[t] \in Nat
    BY <1>0 DEF OsSchedParamCompare, SchedParamCompare, HPFParamCompare, OneClass
  <2>2. OsMuxBitmapSet(m, t)
    BY DEF Block
  <2>3. CASE attr[m].protocol = "PRIO_INHERIT" /\ priority[o] > priority[t]
    <3>1. HPFPriorityInheritance(o, priority[t])
      BY <1>3, <2>1, <2>2, <2>3 DEF OsMuxBitmapSet
    <3>2. ~(priority[o] <= priority[t]) /\ o # t
      BY <2>1, <2>3
    <3> QED BY <1>5, <2>1, <2>3, <3>1, <3>2 DEF HPFPriorityInheritance
  <2>4. CASE ~(attr[m].protocol = "PRIO_INHERIT" /\ priority[o] > priority[t])
    <3>1. UNCHANGED prioVars
      BY <1>3, <2>1, <2>2, <2>4 DEF OsMuxBitmapSet
    <3> QED BY <1>5, <2>1, <2>4, <3>1 DEF prioVars
  <2> QED BY <2>3, <2>4
<1>17. \A u \in Tasks : u # o => priority'[u] = priority[u] /\ priBitmap'[u] = priBitmap[u]
  BY <1>0, <1>5, <1>16
<1>18. /\ \/ \A u \in ToSet(l) : q[Head(l)] <= q[u]
          \/ \A u \in ToSet(l) : q[t] <= q[u]
       /\ o \notin ToSet(l) => Sorted(q, l)
  <2>1. CASE q = priority
    BY <1>2, <1>3, <1>4, <2>1 DEF InOrder
  <2>2. CASE /\ attr[m].protocol = "PRIO_INHERIT" /\ o # t
             /\ priority[t] < priority[o]
             /\ q = [priority EXCEPT ![o] = priority[t]]
    <3>1. \A u \in ToSet(l) : priority[o] <= priority[u]
      BY <1>2, <1>4, <2>2 DEF OwnerPrio
    <3>2. q[t] = priority[t] /\ q[o] = priority[t] /\ \A u \in Tasks : u # o => q[u] = priority[u]
      BY <1>0, <2>2
    <3>3. \A u \in ToSet(l) : q[t] <= q[u]
      <4>1. SUFFICES ASSUME NEW u \in ToSet(l) PROVE q[t] <= q[u]
        OBVIOUS
      <4>2. priority[t] \in Nat /\ priority[o] \in Nat /\ priority[u] \in Nat /\ u \in Tasks
        BY <1>0, <1>11
      <4>3. priority[o] <= priority[u]
        BY <3>1
      <4>4. CASE u = o
        BY <3>2, <4>2, <4>4
      <4>5. CASE u # o
        BY <2>2, <3>2, <4>2, <4>3, <4>5
      <4> QED BY <4>4, <4>5
    <3>4. ASSUME o \notin ToSet(l) PROVE Sorted(q, l)
      <4>1. Sorted(priority, l)
        BY <1>2, <1>3, <1>4, <3>4 DEF InOrder
      <4>2. \A i \in 1..Len(l) : l[i] \in ToSet(l)
        BY ToSetIn
      <4>3. \A i \in 1..Len(l) : q[l[i]] = priority[l[i]]
        BY <1>11, <3>2, <3>4, <4>2
      <4> QED BY <4>1, <4>3 DEF Sorted
    <3> QED BY <3>3, <3>4
  <2> QED BY <1>16, <2>1, <2>2
<1>19. InOrder(m)'
  <2>1. /\ \A u \in ToSet(r) : q[Head(r)] <= q[u]
        /\ o \notin ToSet(r) => Sorted(q, r)
    BY <1>6, <1>7, <1>18, LinkInOrder, SMTT(40)
  <2> QED BY <1>3, <1>5, <1>8, <1>9, <2>1 DEF InOrder
<1>20. OwnerPrio(m, owner[m])'
  <2>1. PICK lent : lent = {q[w] : w \in ToSet(r) \ {o}}
    OBVIOUS
  <2>2. Lent(m, o) \subseteq lent
    <3>1. \A w \in ToSet(l) \ {o} : w \in ToSet(r) \ {o} /\ q[w] = priority[w]
      BY <1>5, <1>10, <1>11, <1>17
    <3> QED BY <1>2, <2>1, <3>1 DEF Lent
  <2>3. Lent(m, o)' = lent
    BY <1>5, <1>9, <2>1 DEF Lent
  <2>4. CASE /\ attr[m].protocol = "PRIO_INHERIT" /\ o # t
             /\ priority[t] < priority[o]
             /\ q = [priority EXCEPT ![o] = priority[t]]
             /\ priBitmap' = [priBitmap EXCEPT ![o] = priBitmap[o] \cup {priority[o]}]
    <3>1. q[o] = priority[t] /\ q[t] = priority[t] /\ priBitmap'[o] = priBitmap[o] \cup {priority[o]}
      BY <1>0, <2>4
    <3>2. q[t] \in lent
      BY <1>10, <2>1, <2>4
    <3>3. priBitmap'[o] \subseteq lent \cup {InitPrio[o]}
      BY <1>4, <2>2, <2>4, <3>1 DEF OwnerPrio
    <3>4. \A w \in ToSet(r) : q[o] <= q[w]
      <4>1. SUFFICES ASSUME NEW w \in ToSet(r) PROVE q[o] <= q[w]
        OBVIOUS
      <4>2. w \in Tasks /\ priority[w] \in Nat /\ priority[o] \in Nat /\ priority[t] \in Nat
        BY <1>0, <1>10, <1>11
      <4>3. CASE w = o \/ w = t
        BY <3>1, <4>2, <4>3
      <4>4. CASE w # o /\ w # t
        <5>1. priority[o] <= priority[w] /\ q[w] = priority[w]
          BY <1>0, <1>2, <1>4, <1>10, <2>4, <4>2, <4>4 DEF OwnerPrio
        <5> QED BY <2>4, <3>1, <4>2, <5>1
      <4> QED BY <4>3, <4>4
    <3>5. OwnerPrio(m, o)'
      BY <1>5, <1>9, <2>3, <2>4, <3>1, <3>2, <3>3, <3>4 DEF OwnerPrio
    <3> QED BY <1>3, <1>8, <3>5
  <2>5. CASE /\ attr[m].protocol = "PRIO_INHERIT" => priority[o] <= priority[t]
             /\ q = priority /\ priBitmap' = priBitmap
    <3>1. OwnerPrio(m, o)'
      BY <1>2, <1>4, <1>5, <1>9, <1>10, <2>2, <2>3, <2>5 DEF OwnerPrio
    <3> QED BY <1>3, <1>8, <3>1
  <2> QED BY <1>16, <2>4, <2>5
<1>21. ~\A n \in Muxes : owner'[n] # o
  BY <1>3, <1>8
<1>22. \A n \in Muxes : n # m => /\ owner'[n] = owner[n] /\ muxList'[n] = muxList[n]
                                 /\ owner[n] # o /\ o \notin ToSet(muxList[n])
  BY <1>8, <1>9, <1>13
<1> QED BY <1>3, <1>14, <1>15, <1>17, <1>19, <1>20, <1>21, <1>22, SimpleBut

LEMMA InitDInv == Init => DInv
<1> SUFFICES ASSUME Init PROVE Simple
  BY DEF DInv, Init
<1>1. ToSet(<<>>) = {}
  BY DEF ToSet
<1>2. NobodyLeaves
  BY DEF Init, NobodyLeaves
<1>3. OneMutex
  BY <1>1 DEF Init, OneMutex
<1>4. \A m \in Muxes : InOrder(m)
  BY <1>1 DEF Init, InOrder, Sorted
<1> QED BY <1>2, <1>3, <1>4 DEF Init, Simple

LEMMA ClassKept == DInv /\ [Next]_vars /\ disciplined' => OneClass'
<1> SUFFICES ASSUME DInv, [Next]_vars, disciplined' PROVE OneClass'
  OBVIOUS
<1>1. UNCHANGED policy
  BY DEF Next, vars
<1>2. disciplined
  BY DEF Next, Step, vars
<1> QED BY <1>1, <1>2 DEF DInv, OneClass

LEMMA NextDInv == IInv /\ IInv' /\ DInv /\ [Next]_vars => DInv'
<1> SUFFICES ASSUME IInv, IInv', DInv, [Next]_vars, disciplined' PROVE Simple'
  BY ClassKept DEF DInv
<1>1. CASE UNCHANGED vars
  <2>1. Simple
    BY <1>1 DEF vars, DInv
  <2>2. \A t \in Tasks : taskStatus'[t] # "TIMEOUT"
    BY <1>1, <2>1 DEF vars, Simple, NobodyLeaves
  <2> QED BY <1>1, <2>1, <2>2, SimpleSame DEF vars, muxVars
<1>2. CASE Next
  <2>1. PICK t \in Tasks :
            \/ /\ \/ \E m \in Muxes, a \in MuxAttrs : LOS_MuxInit(t, m, a)
                  \/ \E m \in Muxes : LOS_MuxDestroy(t, m)
                  \/ \E m \in Muxes : LOS_MuxUnlock(t, m)
                  \/ MuxLockReturn(t)
                  \/ MuxLockTimedOut(t)
                  \/ OsTaskReleaseHoldLock(t)
                  \/ OsInactiveTaskDelete(t)
               /\ UNCHANGED disciplined
            \/ \E m \in Muxes :
                  /\ \/ \E timeout \in WaitModes : LOS_MuxLock(t, m, timeout)
                     \/ LOS_MuxTrylock(t, m)
                  /\ disciplined' = (disciplined /\ ~SecondMutex(t, m))
            \/ /\ MuxTimeout(t) \/ LOS_TaskDelete(t)
               /\ disciplined' = FALSE
    BY <1>2 DEF Next, Step
  <2>2. disciplined
    BY <2>1
  <2>3. Simple /\ OneClass /\ NobodyLeaves /\ Struct /\ MuxTypeOK
    BY <2>2 DEF DInv, Simple, IInv, Struct
  <2>4. ASSUME NEW m \in Muxes, (\E a \in MuxAttrs : LOS_MuxInit(t, m, a)) \/ LOS_MuxDestroy(t, m)
        PROVE  Simple'
    <3>1. owner[m] = NULL /\ muxList[m] = <<>>
      BY <2>3, <2>4, FreeMutex DEF LOS_MuxInit, LOS_MuxDestroy
    <3>2. /\ UNCHANGED <<taskStatus, prioVars, deleting, owner, muxList>>
          /\ \A n \in Muxes : n # m => attr'[n] = attr[n]
      BY <2>3, <2>4, <3>1 DEF LOS_MuxInit, LOS_MuxDestroy, MuxTypeOK
    <3>3. \A u \in Tasks : taskStatus'[u] # "TIMEOUT"
      BY <2>3, <3>2 DEF NobodyLeaves
    <3> QED BY <2>3, <3>1, <3>2, <3>3, SimpleSame
  <2>5. ASSUME NEW m \in Muxes, LOS_MuxUnlock(t, m) PROVE Simple'
    <3>0. taskStatus[t] = "RUN" /\ owner[m] = t /\ UNCHANGED <<magic, attr, pendMux, deleting>>
      BY <2>5 DEF LOS_MuxUnlock, Running, OsMuxUnlockUnsafe
    <3>1. CASE UNCHANGED <<taskStatus, owner, muxList, prioVars, taskMux, lockList, fault>>
      <4>1. \A u \in Tasks : taskStatus'[u] # "TIMEOUT"
        BY <2>3, <3>1 DEF NobodyLeaves
      <4> QED BY <2>3, <3>0, <3>1, <4>1, SimpleSame
    <3>2. CASE Release(t, m)
      BY <2>3, <3>0, <3>2, ReleaseSimple
    <3>3. CASE HandOver(t, m)
      BY <2>3, <3>0, <3>3, HandOverSimple
    <3> QED BY <2>5, <3>1, <3>2, <3>3 DEF LOS_MuxUnlock, OsMuxUnlockUnsafe
  <2>6. CASE MuxLockReturn(t)
    <3>1. \A u \in Tasks : taskStatus'[u] # "TIMEOUT"
      BY <2>3, <2>6 DEF NobodyLeaves, MuxLockReturn, HPFWaitReturn, MuxTypeOK
    <3> QED BY <2>3, <2>6, <3>1, SimpleSame DEF MuxLockReturn, muxVars
  <2>7. ~MuxLockTimedOut(t) /\ ~OsTaskReleaseHoldLock(t) /\ ~OsInactiveTaskDelete(t)
    BY <2>3, MuxAssumption DEF NobodyLeaves, MuxLockTimedOut, OsTaskReleaseHoldLock, OsInactiveTaskDelete
  <2>8. ASSUME NEW m \in Muxes, NEW timeout, LOS_MuxLock(t, m, timeout) \/ LOS_MuxTrylock(t, m),
               ~SecondMutex(t, m)
        PROVE  Simple'
    <3>0. /\ taskStatus[t] = "RUN" /\ UNCHANGED <<magic, attr, deleting, fault>>
          /\ owner[m] = t \/ lockList[t] = <<>>
      BY <2>8 DEF LOS_MuxLock, LOS_MuxTrylock, Running, SecondMutex
    <3>1. CASE TakeFree(t, m)
      <4>1. owner[m] = NULL
        BY <2>3, <3>1, FreeMutex DEF TakeFree
      <4>2. lockList[t] = <<>>
        BY <3>0, <4>1, MuxAssumption
      <4> QED BY <2>3, <3>0, <3>1, <4>2, TakeFreeSimple
    <3>2. CASE TakeAgain(t, m)
      <4>1. \A u \in Tasks : taskStatus'[u] # "TIMEOUT"
        BY <2>3, <3>2 DEF NobodyLeaves, TakeAgain
      <4> QED BY <2>3, <3>0, <3>2, <4>1, SimpleSame DEF TakeAgain
    <3>3. CASE Block(t, m, timeout)
      BY <2>3, <3>0, <3>3, BlockSimple
    <3> QED BY <2>8, <3>1, <3>2, <3>3 DEF LOS_MuxLock, LOS_MuxTrylock
  <2> QED BY <2>1, <2>4, <2>5, <2>6, <2>7, <2>8
<1> QED BY <1>1, <1>2

-----------------------------------------------------------------------------
(* What the comments promise                                                *)

LEMMA SimpleAlways == Spec => [](IInv /\ DInv)
<1>1. Init => IInv /\ DInv
  BY InitIInv, InitDInv
<1>2. IInv /\ DInv /\ [Next]_vars => (IInv /\ DInv)'
  BY NextIInv, NextDInv
<1> QED BY <1>1, <1>2, PTL DEF Spec

\* For tasks of one policy and one process priority, and while none of them has held two
\* mutexes, timed out or been deleted, a task that holds no mutex
\* runs at its original priority: unlock and hand-over undo what its waiters and ceilings
\* have done to it, in any order of arrival.
THEOREM ReleaseRestores == Spec => []PriorityRestored
<1>1. ASSUME IInv, DInv, disciplined, NEW t \in Tasks, lockList[t] = <<>>
      PROVE  priority[t] = InitPrio[t]
  <2>1. \A m \in Muxes : owner[m] # t
    BY <1>1, HoldsNone
  <2> QED BY <1>1, <2>1 DEF DInv, Simple
<1>2. IInv /\ DInv => PriorityRestored
  BY <1>1 DEF PriorityRestored
<1> QED BY <1>2, SimpleAlways, PTL

\* For tasks of one policy and one process priority, and while none of them has held two
\* mutexes, timed out or been deleted, the owner of an inheriting
\* mutex runs at no lower priority than any task that waits for it: no priority inversion.
THEOREM NoInversion == Spec => []InheritsFromWaiters
<1>1. ASSUME IInv, DInv, disciplined, NEW m \in Muxes, attr[m].protocol = "PRIO_INHERIT",
             NEW w \in ToSet(muxList[m])
      PROVE  priority[owner[m]] <= priority[w]
  <2>1. /\ muxList[m] \in Seq(Tasks) /\ owner[m] \in Tasks \cup {NULL}
        /\ (muxList[m] # <<>> => owner[m] # NULL) /\ priority \in [Tasks -> Nat]
    BY <1>1 DEF IInv, Struct, MuxTypeOK, LiveOK, PrioOK
  <2>2. muxList[m] # <<>> /\ w \in Tasks
    BY <1>1, <2>1, ToSetIn
  <2>3. OwnerPrio(m, owner[m])
    BY <1>1, <2>1, <2>2 DEF DInv, Simple
  <2> QED BY <1>1, <2>1, <2>2, <2>3 DEF OwnerPrio
<1>2. IInv /\ DInv => InheritsFromWaiters
  BY <1>1 DEF InheritsFromWaiters
<1> QED BY <1>2, SimpleAlways, PTL

\* For tasks of one policy and one process priority, and while none of them has held two
\* mutexes, timed out or been deleted, the waiter that an unlock
\* hands the mutex to is one of the highest priority, although a waiter that is the owner
\* itself is raised where it stands.
THEOREM HandsToHighest == Spec => []HighestWaiterFirst
<1>1. ASSUME IInv, DInv, disciplined, NEW m \in Muxes, NEW w \in ToSet(muxList[m])
      PROVE  priority[Head(muxList[m])] <= priority[w]
  <2>1. muxList[m] \in Seq(Tasks) /\ priority \in [Tasks -> Nat]
    BY <1>1 DEF IInv, Struct, MuxTypeOK, PrioOK
  <2>2. muxList[m] # <<>> /\ w \in Tasks
    BY <1>1, <2>1, ToSetIn
  <2>3. PICK h \in Tasks : h = Head(muxList[m])
    BY <2>1, <2>2, TailList
  <2>4. priority[h] <= priority[w]
    BY <1>1, <2>1, <2>2, <2>3 DEF DInv, Simple, InOrder
  <2> QED BY <2>3, <2>4
<1>2. IInv /\ DInv => HighestWaiterFirst
  BY <1>1 DEF HighestWaiterFirst
<1> QED BY <1>2, SimpleAlways, PTL

=============================================================================

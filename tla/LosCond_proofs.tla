---------------------------- MODULE LosCond_proofs ----------------------------
(***************************************************************************)
(* Proofs about events (LosEvent) and the condition variables built on     *)
(* them (LosCond), for any number of tasks, events, flags and masks: no    *)
(* task waits for flags that are there, a broadcast reaches every wait it  *)
(* has found, and the count covers the sleepers, although none of the      *)
(* steps of a wait, a signal and a broadcast are in one critical section.  *)
(***************************************************************************)
EXTENDS LosCond, LosListLemmas, FiniteSetTheorems

-----------------------------------------------------------------------------
(* The inductive invariant                                                  *)

Readings == [event : Events, mask : SUBSET Flags, mode : Modes]

\* Who waits is linked in the list of the event it reads, once, and nowhere else; who is in
\* a read knows what it reads.
ListOK ==
    /\ \A e \in Events : /\ IsInjective(stEventList[e])
                         /\ \A t \in ToSet(stEventList[e]) : IsPending(t) /\ reading[t].event = e
    /\ \A t \in Tasks : IsPending(t) => t \in ToSet(stEventList[reading[t].event])
    /\ \A t \in Tasks : taskStatus[t] \in {"PENDING", "PEND_TIME", "WOKEN", "TIMEOUT"} =>
           reading[t] \in Readings

EInv == TypeOK /\ ListOK

CondRead == [event |-> inUse, mask |-> Flags, mode |-> CondMode]

\* One control block is in use; if it is that of a condition variable, all who wait do so in
\* a pthread_cond_wait for it.
UseOK ==
    /\ \A t \in Tasks : step[t] # "NONE" => inUse \in OnceEvents /\ cond[t] = inUse
    /\ inUse \in OnceEvents =>
          \A t \in Tasks : IsPending(t) => step[t] = "ASLEEP" /\ reading[t] = CondRead

AtStep(n) == {t \in Tasks : step[t] = n}

\* The waits a broadcast has found: those that do not sleep yet will not, and those that do
\* have the broadcast still coming.
Reached ==
    \A w \in told :
        /\ step[w] \in {"COUNTED", "UNLOCKED", "ASLEEP", "RELOCK", "RELOCK_TIMEDOUT"}
        /\ step[w] \in {"COUNTED", "UNLOCKED"} =>
              w \in stale[inUse] \/ AtStep("BROADCAST_MODIFY") # {}
        /\ step[w] = "ASLEEP" /\ IsPending(w) =>
              AtStep("BROADCAST_MODIFY") \cup AtStep("BROADCAST_WRITE") # {}

\* The waits that sleep, and those that will unless they find a flag.
Asleep == {t \in Tasks : step[t] = "ASLEEP" /\ IsPending(t)}
Fresh == {t \in Tasks : step[t] \in {"COUNTED", "UNLOCKED"} /\ t \notin stale[inUse]}
Signalling == AtStep("SIGNAL_MODIFY") \cup AtStep("SIGNAL_WRITE")

\* What a signal has taken out of the count it makes up for: before it changes the value by
\* keeping a fresh wait from sleeping, after that by waking a sleeper.  A broadcast leaves no
\* fresh wait and no sleeper.
Counted ==
    inUse \in OnceEvents /\ ~subbed =>
        /\ AtStep("BROADCAST_MODIFY") = {} =>
              Cardinality(Fresh) <= count[inUse] + Cardinality(AtStep("SIGNAL_MODIFY"))
        /\ AtStep("BROADCAST_MODIFY") \cup AtStep("BROADCAST_WRITE") = {} =>
              Cardinality(Fresh \cup Asleep) <= count[inUse] + Cardinality(Signalling)

CInv == CondTypeOK /\ ListOK /\ NoSatisfiedWaiter /\ UseOK /\ Reached /\ Counted

-----------------------------------------------------------------------------
(* Events                                                                   *)

\* A read that fails also fails when there are fewer flags.
LEMMA PollFewer ==
    ASSUME NEW flags, NEW fewer \in SUBSET flags, NEW mask, NEW mode, OsEventPoll(flags, mask, mode) = {}
    PROVE  OsEventPoll(fewer, mask, mode) = {}
BY DEF OsEventPoll

LEMMA AfterPollFewer ==
    ASSUME NEW flags, NEW mask, NEW mode
    PROVE  AfterPoll(flags, mask, mode) \in SUBSET flags
BY DEF AfterPoll

\* A list element is a task that waits for this event.
LEMMA InList ==
    ASSUME EInv, NEW e \in Events, NEW t \in ToSet(stEventList[e])
    PROVE  t \in Tasks /\ IsPending(t) /\ reading[t].event = e
BY ToSetIn DEF EInv, TypeOK, ListOK

\* Flags go away, nothing else happens.
LEMMA FlagsGo ==
    ASSUME EInv, NoSatisfiedWaiter, UNCHANGED <<taskStatus, stEventList, reading>>,
           uwEventID' \in [Events -> SUBSET Flags], \A e \in Events : uwEventID'[e] \subseteq uwEventID[e]
    PROVE  EInv' /\ NoSatisfiedWaiter'
<1>1. EInv'
  BY DEF EInv, TypeOK, ListOK, IsPending
<1>2. NoSatisfiedWaiter'
  BY PollFewer, EventAssumption DEF NoSatisfiedWaiter
<1> QED BY <1>1, <1>2

\* A read that fails and waits.
LEMMA ReadBlocks ==
    ASSUME EInv, NoSatisfiedWaiter, NEW t \in Tasks, NEW e \in Events, NEW mask \in SUBSET Flags,
           NEW mode \in Modes, NEW s, s \in {"PENDING", "PEND_TIME"}, taskStatus[t] = "RUN",
           OsEventPoll(uwEventID[e], mask, mode) = {},
           reading' = [reading EXCEPT ![t] = [event |-> e, mask |-> mask, mode |-> mode]],
           stEventList' = [stEventList EXCEPT ![e] = Append(@, t)],
           taskStatus' = [taskStatus EXCEPT ![t] = s], UNCHANGED uwEventID
    PROVE  EInv' /\ NoSatisfiedWaiter'
<1>0. TypeOK /\ ListOK
  BY DEF EInv
<1>1. \A d \in Events : t \notin ToSet(stEventList[d])
  BY <1>0 DEF ListOK, IsPending
<1>2. PICK l \in Seq(Tasks) : l = stEventList[e]
  BY <1>0 DEF TypeOK
<1>3. PICK a : a = Append(l, t)
  OBVIOUS
<1>4. a \in Seq(Tasks) /\ ToSet(a) = ToSet(l) \cup {t} /\ IsInjective(a)
  <2>1. IsInjective(l) /\ t \notin ToSet(l)
    BY <1>0, <1>1, <1>2 DEF ListOK
  <2> QED BY <1>3, <2>1, AppendList
<1>5. PICK r \in Readings : r = [event |-> e, mask |-> mask, mode |-> mode]
  BY DEF Readings
<1>6. /\ reading'[t] = r /\ taskStatus'[t] = s /\ stEventList'[e] = a
      /\ \A u \in Tasks : u # t => reading'[u] = reading[u] /\ taskStatus'[u] = taskStatus[u]
      /\ \A d \in Events : d # e => stEventList'[d] = stEventList[d]
      /\ r.event = e /\ r.mask = mask /\ r.mode = mode
  BY <1>0, <1>2, <1>3, <1>5 DEF TypeOK
<1>7. TypeOK'
  <2>1. s \in TaskStatus
    BY DEF TaskStatus
  <2>2. taskStatus' \in [Tasks -> TaskStatus] /\ stEventList' \in [Events -> Seq(Tasks)]
    BY <1>0, <1>2, <1>3, <1>4, <2>1 DEF TypeOK
  <2>3. reading' \in [Tasks -> {NULL} \cup Readings]
    BY <1>0, <1>5 DEF TypeOK, Readings
  <2> QED BY <1>0, <2>2, <2>3 DEF TypeOK, Readings
<1>10. ASSUME NEW d \in Events, NEW u \in ToSet(stEventList'[d])
       PROVE  (u = t /\ d = e) \/ u \in ToSet(stEventList[d])
  <2>1. CASE d = e
    <3>1. u \in ToSet(a)
      BY <1>6, <1>10, <2>1
    <3> QED BY <1>2, <1>4, <2>1, <3>1
  <2>2. CASE d # e
    BY <1>6, <1>10, <2>2
  <2> QED BY <2>1, <2>2
<1>8. ListOK'
  <2>1. ASSUME NEW d \in Events
        PROVE  /\ IsInjective(stEventList'[d])
               /\ \A u \in ToSet(stEventList'[d]) : IsPending(u)' /\ reading'[u].event = d
    <3>1. IsInjective(stEventList'[d])
      BY <1>0, <1>4, <1>6 DEF ListOK
    <3>2. ASSUME NEW u \in ToSet(stEventList'[d]) PROVE IsPending(u)' /\ reading'[u].event = d
      <4>1. (u = t /\ d = e) \/ u \in ToSet(stEventList[d])
        BY <1>10
      <4>2. CASE u = t /\ d = e
        BY <1>6, <4>2 DEF IsPending
      <4>3. CASE u \in ToSet(stEventList[d])
        BY <1>1, <1>6, <4>3, InList DEF IsPending
      <4> QED BY <4>1, <4>2, <4>3
    <3> QED BY <3>1, <3>2
  <2>2. ASSUME NEW u \in Tasks, IsPending(u)' PROVE u \in ToSet(stEventList'[reading'[u].event])
    <3>1. CASE u = t
      BY <1>4, <1>6, <3>1
    <3>2. CASE u # t
      <4>1. IsPending(u) /\ reading[u] \in Readings /\ u \in ToSet(stEventList[reading[u].event])
        BY <1>0, <1>6, <2>2, <3>2 DEF ListOK, IsPending
      <4>2. PICK d \in Events : d = reading[u].event
        BY <4>1 DEF Readings
      <4>3. u \in ToSet(stEventList'[d])
        BY <1>2, <1>4, <1>6, <4>1, <4>2
      <4> QED BY <1>6, <3>2, <4>2, <4>3
    <3> QED BY <3>1, <3>2
  <2>3. \A u \in Tasks : taskStatus'[u] \in {"PENDING", "PEND_TIME", "WOKEN", "TIMEOUT"} =>
            reading'[u] \in Readings
    BY <1>0, <1>6 DEF ListOK
  <2> QED BY <2>1, <2>2, <2>3 DEF ListOK
<1>9. NoSatisfiedWaiter'
  <2> SUFFICES ASSUME NEW d \in Events \ OnceEvents, NEW u \in ToSet(stEventList'[d])
               PROVE  OsEventPoll(uwEventID[d], reading'[u].mask, reading'[u].mode) = {}
    BY DEF NoSatisfiedWaiter
  <2>1. (u = t /\ d = e) \/ u \in ToSet(stEventList[d])
    BY <1>10
  <2>2. CASE u = t /\ d = e
    BY <1>6, <2>2
  <2>3. CASE u \in ToSet(stEventList[d])
    <3>1. u \in Tasks /\ u # t
      BY <1>1, <2>3, InList
    <3> QED BY <1>6, <2>3, <3>1 DEF NoSatisfiedWaiter
  <2> QED BY <2>1, <2>2, <2>3
<1> QED BY <1>7, <1>8, <1>9 DEF EInv

\* A task leaves its read, or the tick takes it out of the list; its second look may clear flags.
LEMMA LeavesRead ==
    ASSUME EInv, NoSatisfiedWaiter, NEW t \in Tasks, NEW s \in {"RUN", "TIMEOUT", "UNUSED"},
           taskStatus' = [taskStatus EXCEPT ![t] = s],
           \/ UNCHANGED stEventList /\ ~IsPending(t)
           \/ stEventList' = [e \in Events |-> LOS_ListDelete(stEventList[e], t)],
           \/ reading' = [reading EXCEPT ![t] = NULL] /\ s # "TIMEOUT"
           \/ UNCHANGED reading /\ IsPending(t),
           uwEventID' \in [Events -> SUBSET Flags], \A e \in Events : uwEventID'[e] \subseteq uwEventID[e]
    PROVE  EInv' /\ NoSatisfiedWaiter'
<1>0. TypeOK /\ ListOK
  BY DEF EInv
<1>1. /\ taskStatus'[t] = s
      /\ \A u \in Tasks : u # t => reading'[u] = reading[u] /\ taskStatus'[u] = taskStatus[u]
  BY <1>0 DEF TypeOK
<1>2. ASSUME NEW e \in Events
      PROVE  /\ stEventList'[e] \in Seq(Tasks) /\ IsInjective(stEventList'[e])
             /\ ToSet(stEventList'[e]) = ToSet(stEventList[e]) \ {t}
  <2>1. PICK l \in Seq(Tasks) : l = stEventList[e]
    BY <1>0 DEF TypeOK
  <2>2. IsInjective(l) /\ \A u \in ToSet(l) : IsPending(u)
    BY <1>0, <2>1 DEF ListOK
  <2>3. CASE UNCHANGED stEventList /\ ~IsPending(t)
    BY <2>1, <2>2, <2>3
  <2>4. CASE stEventList' = [d \in Events |-> LOS_ListDelete(stEventList[d], t)]
    <3>1. stEventList'[e] = LOS_ListDelete(l, t)
      BY <2>1, <2>4
    <3>2. /\ LOS_ListDelete(l, t) \in Seq(Tasks) /\ IsInjective(LOS_ListDelete(l, t))
          /\ ToSet(LOS_ListDelete(l, t)) = ToSet(l) \ {t}
      BY <2>2, DeleteList
    <3> QED BY <2>1, <3>1, <3>2
  <2> QED BY <2>3, <2>4
<1>3. TypeOK'
  <2>1. s \in TaskStatus
    BY DEF TaskStatus
  <2>2. stEventList' \in [Events -> Seq(Tasks)]
    BY <1>0, <1>2 DEF TypeOK
  <2>3. taskStatus' \in [Tasks -> TaskStatus]
    BY <1>0, <2>1 DEF TypeOK
  <2>4. reading' \in [Tasks -> {NULL} \cup Readings]
    BY <1>0 DEF TypeOK, Readings
  <2> QED BY <1>0, <2>2, <2>3, <2>4 DEF TypeOK, Readings
<1>4. ~IsPending(t)'
  BY <1>1 DEF IsPending
<1>5. ListOK'
  <2>1. ASSUME NEW d \in Events
        PROVE  /\ IsInjective(stEventList'[d])
               /\ \A u \in ToSet(stEventList'[d]) : IsPending(u)' /\ reading'[u].event = d
    <3>1. ASSUME NEW u \in ToSet(stEventList'[d]) PROVE IsPending(u)' /\ reading'[u].event = d
      <4>1. u \in ToSet(stEventList[d]) /\ u # t
        BY <1>2
      <4> QED BY <1>1, <4>1, InList DEF IsPending
    <3> QED BY <1>2, <3>1
  <2>2. ASSUME NEW u \in Tasks, IsPending(u)' PROVE u \in ToSet(stEventList'[reading'[u].event])
    <3>1. u # t
      BY <1>4, <2>2
    <3>2. IsPending(u) /\ reading[u] \in Readings /\ u \in ToSet(stEventList[reading[u].event])
      BY <1>0, <1>1, <2>2, <3>1 DEF ListOK, IsPending
    <3>3. PICK d \in Events : d = reading[u].event
      BY <3>2 DEF Readings
    <3>4. u \in ToSet(stEventList'[d])
      BY <1>2, <3>1, <3>2, <3>3
    <3> QED BY <1>1, <3>1, <3>3, <3>4
  <2>3. ASSUME NEW u \in Tasks, taskStatus'[u] \in {"PENDING", "PEND_TIME", "WOKEN", "TIMEOUT"}
        PROVE  reading'[u] \in Readings
    <3>1. CASE u # t
      BY <1>0, <1>1, <2>3, <3>1 DEF ListOK
    <3>2. CASE u = t
      BY <1>0, <1>1, <2>3, <3>2 DEF ListOK, IsPending
    <3> QED BY <3>1, <3>2
  <2> QED BY <2>1, <2>2, <2>3 DEF ListOK
<1>6. NoSatisfiedWaiter'
  <2> SUFFICES ASSUME NEW d \in Events \ OnceEvents, NEW u \in ToSet(stEventList'[d])
               PROVE  OsEventPoll(uwEventID'[d], reading'[u].mask, reading'[u].mode) = {}
    BY DEF NoSatisfiedWaiter
  <2>1. u \in ToSet(stEventList[d]) /\ u # t
    BY <1>2
  <2>2. reading'[u] = reading[u]
    BY <1>1, <2>1, InList
  <2>3. OsEventPoll(uwEventID[d], reading[u].mask, reading[u].mode) = {}
    BY <2>1 DEF NoSatisfiedWaiter
  <2>4. uwEventID'[d] \subseteq uwEventID[d]
    OBVIOUS
  <2> QED BY <2>2, <2>3, <2>4, PollFewer
<1> QED BY <1>3, <1>5, <1>6 DEF EInv

\* A write takes the waiters R out of the list and makes them ready.
LEMMA WriteWakes ==
    ASSUME EInv, NoSatisfiedWaiter, NEW e \in Events, NEW flags \in SUBSET Flags,
           NEW R \in SUBSET ToSet(stEventList[e]),
           uwEventID' = [uwEventID EXCEPT ![e] = uwEventID[e] \cup flags],
           stEventList' = [stEventList EXCEPT ![e] = ListWithout(@, R)],
           taskStatus' = [t \in Tasks |-> IF t \in R THEN "WOKEN" ELSE taskStatus[t]],
           UNCHANGED reading,
           \/ e \in OnceEvents
           \/ \A t \in ToSet(stEventList[e]) \ R : ~OsEventResume(t, flags, uwEventID[e] \cup flags)
    PROVE  EInv' /\ NoSatisfiedWaiter' /\ \A t \in Tasks : IsPending(t)' <=> IsPending(t) /\ t \notin R
<1>0. TypeOK /\ ListOK
  BY DEF EInv
<1>1. /\ uwEventID'[e] = uwEventID[e] \cup flags
      /\ \A d \in Events : d # e => uwEventID'[d] = uwEventID[d] /\ stEventList'[d] = stEventList[d]
      /\ \A u \in Tasks : taskStatus'[u] = IF u \in R THEN "WOKEN" ELSE taskStatus[u]
  BY <1>0 DEF TypeOK
<1>2. PICK l \in Seq(Tasks) : l = stEventList[e]
  BY <1>0 DEF TypeOK
<1>3. PICK a : a = ListWithout(l, R)
  OBVIOUS
<1>4. IsInjective(l)
  BY <1>0, <1>2 DEF ListOK
<1>5. stEventList'[e] = a /\ a \in Seq(Tasks) /\ IsInjective(a) /\ ToSet(a) = ToSet(l) \ R
  <2>1. stEventList'[e] = a
    BY <1>0, <1>2, <1>3 DEF TypeOK
  <2>2. a \in Seq(Tasks) /\ IsInjective(a) /\ ToSet(a) = ToSet(l) \ R
    BY <1>3, <1>4, WithoutList
  <2> QED BY <2>1, <2>2
<1>6. ASSUME NEW d \in Events
      PROVE  /\ stEventList'[d] \in Seq(Tasks) /\ IsInjective(stEventList'[d])
             /\ ToSet(stEventList'[d]) = ToSet(stEventList[d]) \ R
  <2>1. CASE d = e
    BY <1>2, <1>5, <2>1
  <2>2. CASE d # e
    <3>1. \A u \in R : u \notin ToSet(stEventList[d])
      BY <1>0, <2>2 DEF ListOK
    <3> QED BY <1>0, <1>1, <2>2, <3>1 DEF TypeOK, ListOK
  <2> QED BY <2>1, <2>2
<1>7. TypeOK'
  <2>1. stEventList' \in [Events -> Seq(Tasks)]
    BY <1>0, <1>6 DEF TypeOK
  <2>2. taskStatus' \in [Tasks -> TaskStatus]
    BY <1>0 DEF TypeOK, TaskStatus
  <2>3. uwEventID' \in [Events -> SUBSET Flags]
    BY <1>0 DEF TypeOK
  <2> QED BY <1>0, <2>1, <2>2, <2>3 DEF TypeOK
<1>8. \A t \in Tasks : IsPending(t)' <=> IsPending(t) /\ t \notin R
  BY <1>1 DEF IsPending
<1>9. ListOK'
  <2>1. ASSUME NEW d \in Events
        PROVE  /\ IsInjective(stEventList'[d])
               /\ \A u \in ToSet(stEventList'[d]) : IsPending(u)' /\ reading'[u].event = d
    BY <1>6, <1>8, InList
  <2>2. ASSUME NEW u \in Tasks, IsPending(u)' PROVE u \in ToSet(stEventList'[reading'[u].event])
    <3>1. IsPending(u) /\ u \notin R
      BY <1>8, <2>2
    <3>2. reading[u] \in Readings /\ u \in ToSet(stEventList[reading[u].event])
      BY <1>0, <3>1 DEF ListOK, IsPending
    <3>3. reading[u].event \in Events
      BY <3>2 DEF Readings
    <3> QED BY <1>6, <3>1, <3>2, <3>3
  <2>3. ASSUME NEW u \in Tasks, taskStatus'[u] \in {"PENDING", "PEND_TIME", "WOKEN", "TIMEOUT"}
        PROVE  reading'[u] \in Readings
    <3>1. CASE u \in R
      <4>1. IsPending(u)
        BY <3>1, InList
      <4> QED BY <1>0, <4>1 DEF ListOK, IsPending
    <3>2. CASE u \notin R
      BY <1>0, <1>1, <2>3, <3>2 DEF ListOK
    <3> QED BY <3>1, <3>2
  <2> QED BY <2>1, <2>2, <2>3 DEF ListOK
<1>10. NoSatisfiedWaiter'
  <2> SUFFICES ASSUME NEW d \in Events \ OnceEvents, NEW u \in ToSet(stEventList'[d])
               PROVE  OsEventPoll(uwEventID'[d], reading[u].mask, reading[u].mode) = {}
    BY DEF NoSatisfiedWaiter
  <2>1. u \in ToSet(stEventList[d]) \ R
    BY <1>6
  <2>2. OsEventPoll(uwEventID[d], reading[u].mask, reading[u].mode) = {}
    BY <2>1 DEF NoSatisfiedWaiter
  <2>3. CASE d # e
    BY <1>1, <2>2, <2>3
  <2>4. CASE d = e
    <3>1. ~OsEventResume(u, flags, uwEventID[e] \cup flags)
      BY <2>1, <2>4
    <3> QED BY <1>1, <2>2, <2>4, <3>1 DEF OsEventPoll, OsEventResume
  <2> QED BY <2>3, <2>4
<1> QED BY <1>7, <1>8, <1>9, <1>10 DEF EInv

Wakes(e, flags, once, R) ==
    /\ \A t \in Tasks : IsPending(t)' <=> IsPending(t) /\ t \notin R
    /\ R = {t \in ToSet(stEventList[e]) : /\ once => t = Head(stEventList[e])
                                          /\ OsEventResume(t, flags, uwEventID[e] \cup flags)}

\* OsEventWriteUnsafe, with what the writers of a condition variable need to know of it: who
\* is taken out, and that a list which is walked to its end keeps no one who is satisfied.
LEMMA WriteKeeps ==
    ASSUME EInv, NoSatisfiedWaiter, NEW e \in Events, NEW flags \in SUBSET Flags, NEW once \in BOOLEAN,
           once => e \in OnceEvents, OsEventWriteUnsafe(e, flags, once)
    PROVE  /\ EInv' /\ NoSatisfiedWaiter'
           /\ \E R : Wakes(e, flags, once, R)
           /\ UNCHANGED reading
<1>1. PICK l \in Seq(Tasks) : l = stEventList[e]
  BY DEF EInv, TypeOK
<1>2. PICK R : R = {t \in IF once /\ l # <<>> THEN {Head(l)} ELSE ToSet(l) :
                        OsEventResume(t, flags, uwEventID[e] \cup flags)}
  OBVIOUS
<1>3. l # <<>> => Head(l) \in ToSet(l)
  BY <1>1, TailList
<1>4. l = <<>> => ToSet(l) = {}
  BY <1>1, ToSetIn
<1>5. /\ R \in SUBSET ToSet(l)
      /\ R = {t \in ToSet(l) : (once => t = Head(l)) /\ OsEventResume(t, flags, uwEventID[e] \cup flags)}
  BY <1>2, <1>3, <1>4
<1>6. /\ uwEventID' = [uwEventID EXCEPT ![e] = uwEventID[e] \cup flags]
      /\ stEventList' = [stEventList EXCEPT ![e] = ListWithout(@, R)]
      /\ taskStatus' = [t \in Tasks |-> IF t \in R THEN "WOKEN" ELSE taskStatus[t]]
      /\ UNCHANGED reading
  BY <1>1, <1>2 DEF OsEventWriteUnsafe
<1>7. \/ e \in OnceEvents
      \/ \A t \in ToSet(stEventList[e]) \ R : ~OsEventResume(t, flags, uwEventID[e] \cup flags)
  BY <1>1, <1>5
<1>8. EInv' /\ NoSatisfiedWaiter' /\ \A t \in Tasks : IsPending(t)' <=> IsPending(t) /\ t \notin R
  <2>1. R \in SUBSET ToSet(stEventList[e])
    BY <1>1, <1>5
  <2> QED BY <1>6, <1>7, <2>1, WriteWakes, Zenon
<1>9. Wakes(e, flags, once, R)
  BY <1>1, <1>5, <1>8 DEF Wakes
<1> QED BY <1>6, <1>8, <1>9

LEMMA ReadKeeps ==
    ASSUME EInv, NoSatisfiedWaiter, NEW t \in Tasks, NEW e \in Events, NEW mask \in SUBSET Flags,
           NEW mode \in Modes, NEW timeout \in Timeouts, LOS_EventRead(t, e, mask, mode, timeout)
    PROVE  EInv' /\ NoSatisfiedWaiter'
<1>1. taskStatus[t] = "RUN"
  BY DEF LOS_EventRead, Running
<1>2. CASE OsEventPoll(uwEventID[e], mask, mode) # {}
  <2>1. /\ uwEventID' = [uwEventID EXCEPT ![e] = AfterPoll(@, mask, mode)]
        /\ UNCHANGED <<taskStatus, stEventList, reading>>
    BY <1>2 DEF LOS_EventRead, OsEventReadImp
  <2>2. AfterPoll(uwEventID[e], mask, mode) \in SUBSET uwEventID[e]
    BY AfterPollFewer
  <2>3. uwEventID' \in [Events -> SUBSET Flags] /\ \A d \in Events : uwEventID'[d] \subseteq uwEventID[d]
    BY <2>1, <2>2 DEF EInv, TypeOK
  <2> QED BY <2>1, <2>3, FlagsGo
<1>3. CASE OsEventPoll(uwEventID[e], mask, mode) = {}
  <2>1. PICK s \in {"PENDING", "PEND_TIME"} : s = IF timeout = "FOREVER" THEN "PENDING" ELSE "PEND_TIME"
    OBVIOUS
  <2>2. /\ reading' = [reading EXCEPT ![t] = [event |-> e, mask |-> mask, mode |-> mode]]
        /\ stEventList' = [stEventList EXCEPT ![e] = Append(@, t)]
        /\ taskStatus' = [taskStatus EXCEPT ![t] = s]
        /\ UNCHANGED uwEventID
    BY <1>3, <2>1 DEF LOS_EventRead, OsEventReadImp, HPFWait
  <2> QED BY <1>1, <1>3, <2>2, ReadBlocks
<1> QED BY <1>2, <1>3

LEMMA PollKeeps ==
    ASSUME EInv, NoSatisfiedWaiter, NEW t, NEW e \in Events, NEW mask, NEW mode,
           LOS_EventPoll(t, e, mask, mode)
    PROVE  EInv' /\ NoSatisfiedWaiter'
<1>1. AfterPoll(uwEventID[e], mask, mode) \in SUBSET uwEventID[e]
  BY AfterPollFewer
<1>2. /\ uwEventID' \in [Events -> SUBSET Flags] /\ \A d \in Events : uwEventID'[d] \subseteq uwEventID[d]
      /\ UNCHANGED <<taskStatus, stEventList, reading>>
  BY <1>1 DEF EInv, TypeOK, LOS_EventPoll
<1> QED BY <1>2, FlagsGo

LEMMA ClearKeeps ==
    ASSUME EInv, NoSatisfiedWaiter, NEW e \in Events, NEW mask, LOS_EventClear(e, mask)
    PROVE  EInv' /\ NoSatisfiedWaiter'
<1>1. /\ uwEventID' \in [Events -> SUBSET Flags] /\ \A d \in Events : uwEventID'[d] \subseteq uwEventID[d]
      /\ UNCHANGED <<taskStatus, stEventList, reading>>
  BY DEF EInv, TypeOK, LOS_EventClear
<1> QED BY <1>1, FlagsGo

LEMMA DestroyKeeps ==
    ASSUME EInv, NoSatisfiedWaiter, NEW e \in Events, LOS_EventDestroy(e)
    PROVE  EInv' /\ NoSatisfiedWaiter'
<1>1. /\ uwEventID' \in [Events -> SUBSET Flags] /\ \A d \in Events : uwEventID'[d] \subseteq uwEventID[d]
      /\ UNCHANGED <<taskStatus, stEventList, reading>>
  BY DEF EInv, TypeOK, LOS_EventDestroy
<1> QED BY <1>1, FlagsGo

LEMMA EventStepKeeps ==
    ASSUME EInv, NoSatisfiedWaiter, NEW e \in Events, EventStep(e, Tasks)
    PROVE  EInv' /\ NoSatisfiedWaiter'
<1>1. CASE \E flags \in SUBSET Flags : LOS_EventWrite(e, flags)
  BY <1>1, WriteKeeps DEF LOS_EventWrite
<1>2. CASE \E mask \in Clears : LOS_EventClear(e, mask)
  BY <1>2, ClearKeeps
<1>3. CASE LOS_EventDestroy(e)
  BY <1>3, DestroyKeeps
<1>4. ASSUME NEW t \in Tasks, NEW mask \in Masks[t], NEW mode \in Modes
      PROVE  /\ LOS_EventPoll(t, e, mask, mode) => EInv' /\ NoSatisfiedWaiter'
             /\ \A timeout \in Timeouts :
                   LOS_EventRead(t, e, mask, mode, timeout) => EInv' /\ NoSatisfiedWaiter'
  <2>1. mask \in SUBSET Flags
    BY EventAssumption
  <2> QED BY <2>1, PollKeeps, ReadKeeps
<1> QED BY <1>1, <1>2, <1>3, <1>4 DEF EventStep

LEMMA ReaderStepKeeps ==
    ASSUME EInv, NoSatisfiedWaiter, NEW t \in Tasks, ReaderStep(t)
    PROVE  /\ EInv' /\ NoSatisfiedWaiter'
           /\ taskStatus[t] \in {"WOKEN", "TIMEOUT"}
           /\ taskStatus' = [taskStatus EXCEPT ![t] = "RUN"]
           /\ \A u \in Tasks : u # t => reading'[u] = reading[u]
<1>0. TypeOK /\ ListOK
  BY DEF EInv
<1>1. CASE EventReadReturn(t)
  <2>1. /\ taskStatus[t] = "WOKEN" /\ ~IsPending(t)
        /\ taskStatus' = [taskStatus EXCEPT ![t] = "RUN"] /\ reading' = [reading EXCEPT ![t] = NULL]
        /\ UNCHANGED stEventList
    BY <1>1 DEF EventReadReturn, HPFWaitReturn, IsPending
  <2>2. PICK r \in Readings : r = reading[t]
    BY <1>0, <2>1 DEF ListOK
  <2>3. r.event \in Events
    BY DEF Readings
  <2>4. AfterPoll(uwEventID[r.event], r.mask, r.mode) \in SUBSET uwEventID[r.event]
    BY AfterPollFewer
  <2>5. uwEventID' = [uwEventID EXCEPT ![r.event] = AfterPoll(uwEventID[r.event], r.mask, r.mode)]
    BY <1>1, <2>2 DEF EventReadReturn
  <2>6. uwEventID' \in [Events -> SUBSET Flags] /\ \A d \in Events : uwEventID'[d] \subseteq uwEventID[d]
    BY <1>0, <2>3, <2>4, <2>5 DEF TypeOK
  <2>7. EInv' /\ NoSatisfiedWaiter'
    BY <2>1, <2>6, LeavesRead
  <2> QED BY <1>0, <2>1, <2>7 DEF TypeOK
<1>2. CASE EventReadTimedOut(t)
  <2>1. /\ taskStatus[t] = "TIMEOUT" /\ ~IsPending(t)
        /\ taskStatus' = [taskStatus EXCEPT ![t] = "RUN"] /\ reading' = [reading EXCEPT ![t] = NULL]
        /\ UNCHANGED stEventList
        /\ uwEventID' \in [Events -> SUBSET Flags] /\ \A d \in Events : uwEventID'[d] \subseteq uwEventID[d]
    BY <1>0, <1>2 DEF EventReadTimedOut, HPFWaitReturn, IsPending, TypeOK
  <2>2. EInv' /\ NoSatisfiedWaiter'
    BY <2>1, LeavesRead
  <2> QED BY <1>0, <2>1, <2>2 DEF TypeOK
<1> QED BY <1>1, <1>2 DEF ReaderStep

\* A task that is timed out or deleted waits no more; nobody starts to wait.
LEMMA InterruptedKeeps ==
    ASSUME EInv, NoSatisfiedWaiter, NEW t \in Tasks, InterruptedRead(t)
    PROVE  /\ EInv' /\ NoSatisfiedWaiter' /\ ~IsPending(t)'
           /\ \A u \in Tasks : u # t => reading'[u] = reading[u] /\ taskStatus'[u] = taskStatus[u]
<1>0. TypeOK /\ ListOK
  BY DEF EInv
<1>1. uwEventID' \in [Events -> SUBSET Flags] /\ \A d \in Events : uwEventID'[d] \subseteq uwEventID[d]
  BY <1>0 DEF InterruptedRead, EventTimeout, LOS_TaskDelete, TypeOK
<1>2. CASE EventTimeout(t)
  <2>1. /\ taskStatus' = [taskStatus EXCEPT ![t] = "TIMEOUT"] /\ IsPending(t) /\ UNCHANGED reading
        /\ stEventList' = [e \in Events |-> LOS_ListDelete(stEventList[e], t)]
    BY <1>2 DEF EventTimeout, SchedTimeoutTaskWake, IsPending
  <2>2. EInv' /\ NoSatisfiedWaiter'
    BY <1>1, <2>1, LeavesRead
  <2> QED BY <1>0, <2>1, <2>2 DEF TypeOK, IsPending
<1>3. CASE LOS_TaskDelete(t)
  <2>1. /\ taskStatus' = [taskStatus EXCEPT ![t] = "UNUSED"] /\ reading' = [reading EXCEPT ![t] = NULL]
        /\ stEventList' = [e \in Events |-> LOS_ListDelete(stEventList[e], t)]
    BY <1>3 DEF LOS_TaskDelete
  <2>2. EInv' /\ NoSatisfiedWaiter'
    BY <1>1, <2>1, LeavesRead
  <2> QED BY <1>0, <2>1, <2>2 DEF TypeOK, IsPending
<1> QED BY <1>2, <1>3 DEF InterruptedRead

-----------------------------------------------------------------------------
(* The steps of condition variables                                         *)

AllSteps == {"NONE"} \cup WaitSteps \cup PostSteps

LEMMA GotoSteps ==
    ASSUME CondTypeOK, NEW t \in Tasks, NEW c \in OnceEvents, NEW n \in AllSteps, Goto(t, c, n)
    PROVE  /\ step' \in [Tasks -> AllSteps] /\ cond' \in [Tasks -> OnceEvents \cup {NULL}]
           /\ step'[t] = n /\ (n # "NONE" => cond'[t] = c)
           /\ \A u \in Tasks : u # t => step'[u] = step[u] /\ cond'[u] = cond[u]
           /\ \A m \in AllSteps : AtStep(m)' = IF m = n THEN AtStep(m) \cup {t} ELSE AtStep(m) \ {t}
<1>1. /\ step' \in [Tasks -> AllSteps] /\ cond' \in [Tasks -> OnceEvents \cup {NULL}]
      /\ step'[t] = n /\ (n # "NONE" => cond'[t] = c)
      /\ \A u \in Tasks : u # t => step'[u] = step[u] /\ cond'[u] = cond[u]
  BY DEF Goto, CondTypeOK, AllSteps
<1>2. \A m \in AllSteps : AtStep(m)' = IF m = n THEN AtStep(m) \cup {t} ELSE AtStep(m) \ {t}
  BY <1>1 DEF AtStep
<1> QED BY <1>1, <1>2

\* What a step of t does to the one control block, when nobody but perhaps t begins to wait.
LEMMA UseKept ==
    ASSUME CInv, NEW t \in Tasks, NEW n \in AllSteps, inUse \in OnceEvents, Goto(t, inUse, n),
           UNCHANGED inUse,
           \A u \in Tasks : IsPending(u)' =>
               \/ u # t /\ IsPending(u) /\ reading'[u] = reading[u]
               \/ u = t /\ n = "ASLEEP" /\ reading'[t] = CondRead
    PROVE  UseOK'
<1>1. /\ step'[t] = n /\ (n # "NONE" => cond'[t] = inUse)
      /\ \A u \in Tasks : u # t => step'[u] = step[u] /\ cond'[u] = cond[u]
  BY GotoSteps DEF CInv
<1>2. UseOK /\ CondRead' = CondRead
  BY DEF CInv, CondRead
<1>3. \A u \in Tasks : step'[u] # "NONE" => cond'[u] = inUse
  BY <1>1, <1>2 DEF UseOK
<1>4. \A u \in Tasks : IsPending(u)' => step'[u] = "ASLEEP" /\ reading'[u] = CondRead
  BY <1>1, <1>2 DEF UseOK
<1> QED BY <1>2, <1>3, <1>4 DEF UseOK

LEMMA TasksFinite ==
    ASSUME NEW S \in SUBSET Tasks
    PROVE  IsFiniteSet(S) /\ Cardinality(S) \in Nat
BY CondAssumption, FS_Subset, FS_CardinalityType

LEMMA FewerTasks ==
    ASSUME NEW S \in SUBSET Tasks, NEW T \in SUBSET S
    PROVE  Cardinality(T) <= Cardinality(S)
BY TasksFinite, FS_Subset

LEMMA OneMoreTask ==
    ASSUME NEW S \in SUBSET Tasks, NEW T \in SUBSET Tasks, NEW t \in Tasks, T \subseteq S \cup {t}
    PROVE  /\ Cardinality(T) <= Cardinality(S) + 1
           /\ Cardinality(T) \in Nat /\ Cardinality(S) \in Nat
<1>1. IsFiniteSet(S) /\ Cardinality(S) \in Nat /\ Cardinality(T) \in Nat
  BY TasksFinite
<1>2. PICK U \in SUBSET Tasks : U = S \cup {t}
  OBVIOUS
<1>3. Cardinality(U) = IF t \in S THEN Cardinality(S) ELSE Cardinality(S) + 1
  BY <1>1, <1>2, FS_AddElement
<1>4. Cardinality(T) <= Cardinality(U) /\ Cardinality(U) \in Nat
  BY <1>2, TasksFinite, FewerTasks
<1> QED BY <1>1, <1>3, <1>4

LEMMA OneTaskLess ==
    ASSUME NEW S \in SUBSET Tasks, NEW t \in S
    PROVE  Cardinality(S \ {t}) = Cardinality(S) - 1
<1>1. IsFiniteSet(S)
  BY TasksFinite
<1> QED BY <1>1, FS_RemoveElement

LEMMA SetsOK ==
    /\ Fresh \in SUBSET Tasks /\ Asleep \in SUBSET Tasks /\ Signalling \in SUBSET Tasks
    /\ \A n : AtStep(n) \in SUBSET Tasks
BY DEF Fresh, Asleep, Signalling, AtStep

\* No wait becomes fresh or falls asleep unless it was fresh, and no signal or broadcast ends.
LEMMA CountKept ==
    ASSUME CInv, UNCHANGED <<inUse, count, subbed>>,
           Fresh' \subseteq Fresh, Asleep' \subseteq Fresh \cup Asleep,
           AtStep("SIGNAL_MODIFY") \subseteq AtStep("SIGNAL_MODIFY")', Signalling \subseteq Signalling',
           AtStep("BROADCAST_MODIFY") \subseteq AtStep("BROADCAST_MODIFY")',
           AtStep("BROADCAST_WRITE") \subseteq AtStep("BROADCAST_WRITE")'
    PROVE  Counted'
<1> SUFFICES ASSUME inUse \in OnceEvents, ~subbed PROVE Counted'
  BY DEF Counted
<1>1. Counted /\ count[inUse] \in Nat
  BY DEF CInv, CondTypeOK
<1>2. PICK F \in SUBSET Tasks : F = Fresh'
  BY SetsOK DEF Fresh
<1>3. PICK A \in SUBSET Tasks : A = Fresh' \cup Asleep'
  BY DEF Fresh, Asleep
<1>4. PICK M \in SUBSET Tasks : M = AtStep("SIGNAL_MODIFY")'
  BY DEF AtStep
<1>5. PICK S \in SUBSET Tasks : S = Signalling'
  BY DEF AtStep, Signalling
<1>6. /\ Cardinality(F) <= Cardinality(Fresh) /\ Cardinality(A) <= Cardinality(Fresh \cup Asleep)
      /\ Cardinality(AtStep("SIGNAL_MODIFY")) <= Cardinality(M) /\ Cardinality(Signalling) <= Cardinality(S)
  BY <1>2, <1>3, <1>4, <1>5, SetsOK, FewerTasks
<1>7. /\ Cardinality(F) \in Nat /\ Cardinality(A) \in Nat /\ Cardinality(M) \in Nat /\ Cardinality(S) \in Nat
      /\ Cardinality(Fresh) \in Nat /\ Cardinality(Fresh \cup Asleep) \in Nat
      /\ Cardinality(AtStep("SIGNAL_MODIFY")) \in Nat /\ Cardinality(Signalling) \in Nat
  BY SetsOK, TasksFinite
<1>8. AtStep("BROADCAST_MODIFY")' = {} => Cardinality(F) <= count[inUse] + Cardinality(M)
  BY <1>1, <1>6, <1>7 DEF Counted
<1>9. AtStep("BROADCAST_MODIFY")' \cup AtStep("BROADCAST_WRITE")' = {} =>
          Cardinality(A) <= count[inUse] + Cardinality(S)
  BY <1>1, <1>6, <1>7 DEF Counted
<1> QED BY <1>2, <1>3, <1>4, <1>5, <1>8, <1>9 DEF Counted

\* A step that leaves the events alone and puts nobody to sleep.
LEMMA QuietStep ==
    ASSUME CInv, NEW t \in Tasks, NEW n \in AllSteps, inUse \in OnceEvents, Goto(t, inUse, n),
           step[t] # "ASLEEP", UNCHANGED <<vars, inUse>>
    PROVE  EInv' /\ NoSatisfiedWaiter' /\ UseOK' /\ ~IsPending(t) /\ \A u \in Tasks : IsPending(u)' <=> IsPending(u)
<1>1. EInv' /\ NoSatisfiedWaiter'
  BY DEF CInv, CondTypeOK, EInv, TypeOK, ListOK, NoSatisfiedWaiter, IsPending, vars
<1>2. \A u \in Tasks : (IsPending(u)' <=> IsPending(u)) /\ reading'[u] = reading[u]
  BY DEF IsPending, vars
<1>3. ~IsPending(t)
  BY DEF CInv, UseOK
<1>4. UseOK'
  BY <1>2, <1>3, UseKept
<1> QED BY <1>1, <1>2, <1>3, <1>4

\* The parts of CInv put together after a step.
LEMMA Together ==
    ASSUME EInv', NoSatisfiedWaiter', UseOK', Reached', Counted',
           inUse' \in Events, count' \in [OnceEvents -> 0..COUNT_MAX], stale' \in [OnceEvents -> SUBSET Tasks],
           mutex' \in [OnceEvents -> Tasks \cup {NULL}], step' \in [Tasks -> AllSteps],
           cond' \in [Tasks -> OnceEvents \cup {NULL}], told' \in SUBSET Tasks, subbed' \in BOOLEAN
    PROVE  CInv'
<1>1. TypeOK' /\ ListOK'
  BY DEF EInv
<1>2. CondTypeOK'
  BY <1>1 DEF CondTypeOK, AllSteps
<1> QED BY <1>1, <1>2 DEF CInv

LEMMA MutexKeeps ==
    ASSUME CInv, NEW t \in Tasks, inUse \in OnceEvents, UNCHANGED inUse,
           MutexLock(t, inUse) \/ MutexUnlock(t, inUse)
    PROVE  CInv'
<1>1. /\ UNCHANGED <<vars, count, stale, step, cond, told, subbed, inUse>>
      /\ mutex' \in [OnceEvents -> Tasks \cup {NULL}]
  BY DEF MutexLock, MutexUnlock, CInv, CondTypeOK
<1>2. CondTypeOK' /\ ListOK' /\ NoSatisfiedWaiter'
  BY <1>1 DEF CInv, CondTypeOK, TypeOK, ListOK, NoSatisfiedWaiter, IsPending, vars
<1>3. UseOK' /\ Reached'
  BY <1>1 DEF CInv, UseOK, Reached, CondRead, AtStep, IsPending, vars
<1>4. Counted'
  BY <1>1 DEF CInv, Counted, Fresh, Asleep, Signalling, AtStep, IsPending, vars
<1> QED BY <1>2, <1>3, <1>4 DEF CInv

\* A step of task t to n that leaves every signal and broadcast where it is.
Moves(t, n) ==
    /\ step' \in [Tasks -> AllSteps] /\ cond' \in [Tasks -> OnceEvents \cup {NULL}]
    /\ step'[t] = n /\ \A u \in Tasks : u # t => step'[u] = step[u]
    /\ AtStep("SIGNAL_MODIFY")' = AtStep("SIGNAL_MODIFY")
    /\ AtStep("BROADCAST_MODIFY")' = AtStep("BROADCAST_MODIFY")
    /\ AtStep("BROADCAST_WRITE")' = AtStep("BROADCAST_WRITE")
    /\ Signalling' = Signalling

LEMMA WaitStep ==
    ASSUME CInv, NEW t \in Tasks, NEW n \in {"NONE"} \cup WaitSteps, inUse \in OnceEvents,
           step[t] \notin PostSteps, Goto(t, inUse, n)
    PROVE  n \in AllSteps /\ Moves(t, n)
<1>1. n \in AllSteps /\ n \notin PostSteps
  BY DEF AllSteps, WaitSteps, PostSteps
<1>2. CondTypeOK
  BY DEF CInv
<1>3. /\ step' \in [Tasks -> AllSteps] /\ cond' \in [Tasks -> OnceEvents \cup {NULL}]
      /\ step'[t] = n /\ \A u \in Tasks : u # t => step'[u] = step[u]
  BY <1>1, <1>2, GotoSteps
<1>4. ASSUME NEW m \in PostSteps PROVE AtStep(m)' = AtStep(m)
  BY <1>1, <1>3 DEF AtStep
<1> QED BY <1>1, <1>3, <1>4 DEF PostSteps, Signalling, Moves

\* The same for a step that leaves the events alone.
LEMMA QuietWaitStep ==
    ASSUME CInv, NEW t \in Tasks, NEW n \in {"NONE"} \cup WaitSteps, inUse \in OnceEvents,
           step[t] \notin PostSteps, step[t] # "ASLEEP", Goto(t, inUse, n), UNCHANGED <<vars, inUse>>
    PROVE  /\ Moves(t, n)
           /\ EInv' /\ NoSatisfiedWaiter' /\ UseOK' /\ ~IsPending(t)
           /\ \A u \in Tasks : IsPending(u)' <=> IsPending(u)
BY WaitStep, QuietStep

LEMMA WaitReadsKeeps ==
    ASSUME CInv, NEW t \in Tasks, inUse \in OnceEvents, UNCHANGED inUse, CondWaitReads(t, inUse)
    PROVE  CInv'
<1>0. /\ step[t] = "NONE" /\ Goto(t, inUse, "READ") /\ stale' = [stale EXCEPT ![inUse] = @ \ {t}]
      /\ UNCHANGED <<vars, count, mutex, told, subbed>>
  BY DEF CondWaitReads, Idle
<1>1. /\ Moves(t, "READ") /\ EInv' /\ NoSatisfiedWaiter' /\ UseOK'
      /\ \A u \in Tasks : IsPending(u)' <=> IsPending(u)
  <2>1. "READ" \in {"NONE"} \cup WaitSteps /\ step[t] \notin PostSteps
    BY <1>0 DEF WaitSteps, PostSteps
  <2> QED BY <1>0, <2>1, QuietWaitStep
<1>2. stale'[inUse] = stale[inUse] \ {t} /\ stale' \in [OnceEvents -> SUBSET Tasks]
  BY <1>0 DEF CInv, CondTypeOK
<1>3. Reached'
  <2>1. t \notin told /\ told \subseteq Tasks /\ Reached
    BY <1>0 DEF CInv, Reached, CondTypeOK
  <2> QED BY <1>0, <1>1, <1>2, <2>1 DEF Reached, Moves
<1>4. Counted'
  <2>1. Fresh' \subseteq Fresh /\ Asleep' \subseteq Asleep
    BY <1>1, <1>2 DEF Fresh, Asleep, Moves
  <2> QED BY <1>0, <1>1, <2>1, CountKept DEF Moves
<1> QED BY <1>0, <1>1, <1>2, <1>3, <1>4, Together DEF CInv, CondTypeOK, Moves

LEMMA WaitCountsKeeps ==
    ASSUME CInv, NEW t \in Tasks, inUse \in OnceEvents, UNCHANGED inUse, CondWaitCounts(t, inUse)
    PROVE  CInv'
<1>0. /\ step[t] = "READ" /\ Goto(t, inUse, "COUNTED") /\ count[inUse] < COUNT_MAX
      /\ count' = [count EXCEPT ![inUse] = @ + 1]
      /\ UNCHANGED <<vars, stale, mutex, told, subbed>>
  BY DEF CondWaitCounts, At
<1>1. /\ Moves(t, "COUNTED") /\ EInv' /\ NoSatisfiedWaiter' /\ UseOK'
      /\ \A u \in Tasks : IsPending(u)' <=> IsPending(u)
  <2>1. "COUNTED" \in {"NONE"} \cup WaitSteps /\ step[t] \notin PostSteps
    BY <1>0 DEF WaitSteps, PostSteps
  <2> QED BY <1>0, <2>1, QuietWaitStep
<1>2. /\ count'[inUse] = count[inUse] + 1 /\ count[inUse] \in Nat
      /\ count' \in [OnceEvents -> 0..COUNT_MAX]
  BY <1>0, CondAssumption DEF CInv, CondTypeOK
<1>3. Reached'
  <2>1. t \notin told /\ told \subseteq Tasks /\ Reached
    BY <1>0 DEF CInv, Reached, CondTypeOK
  <2> QED BY <1>0, <1>1, <2>1 DEF Reached, Moves
<1>4. Counted'
  <2>1. PICK F \in SUBSET Tasks : F = Fresh'
    BY DEF Fresh
  <2>2. PICK A \in SUBSET Tasks : A = Asleep'
    BY DEF Asleep
  <2>3. F \subseteq Fresh \cup {t} /\ A \subseteq Asleep
    BY <1>0, <1>1, <2>1, <2>2 DEF Fresh, Asleep, Moves
  <2>5. /\ Cardinality(F) <= Cardinality(Fresh) + 1 /\ Cardinality(F) \in Nat /\ Cardinality(Fresh) \in Nat
        /\ Cardinality(F \cup A) <= Cardinality(Fresh \cup Asleep) + 1
        /\ Cardinality(F \cup A) \in Nat /\ Cardinality(Fresh \cup Asleep) \in Nat
    BY <2>3, OneMoreTask, SetsOK
  <2>6. Cardinality(AtStep("SIGNAL_MODIFY")) \in Nat /\ Cardinality(Signalling) \in Nat
    BY SetsOK, TasksFinite
  <2>7. Counted
    BY DEF CInv
  <2> QED BY <1>0, <1>1, <1>2, <2>1, <2>2, <2>5, <2>6, <2>7 DEF Counted, Moves
<1> QED BY <1>0, <1>1, <1>2, <1>3, <1>4, Together DEF CInv, CondTypeOK, Moves

LEMMA WaitNoTimeKeeps ==
    ASSUME CInv, NEW t \in Tasks, inUse \in OnceEvents, UNCHANGED inUse, CondWaitNoTime(t, inUse)
    PROVE  CInv'
<1>0. /\ step[t] = "COUNTED" /\ Goto(t, inUse, "NONE") /\ told' = told \ {t}
      /\ UNCHANGED <<vars, count, stale, mutex, subbed>>
  BY DEF CondWaitNoTime, At
<1>1. /\ Moves(t, "NONE") /\ EInv' /\ NoSatisfiedWaiter' /\ UseOK'
      /\ \A u \in Tasks : IsPending(u)' <=> IsPending(u)
  <2>1. "NONE" \in {"NONE"} \cup WaitSteps /\ step[t] \notin PostSteps
    BY <1>0 DEF WaitSteps, PostSteps
  <2> QED BY <1>0, <2>1, QuietWaitStep
<1>2. told \subseteq Tasks /\ Reached
  BY DEF CInv, CondTypeOK
<1>3. Reached'
  BY <1>0, <1>1, <1>2 DEF Reached, Moves
<1>4. Counted'
  <2>1. Fresh' \subseteq Fresh /\ Asleep' \subseteq Asleep
    BY <1>0, <1>1 DEF Fresh, Asleep, Moves
  <2> QED BY <1>0, <1>1, <2>1, CountKept DEF Moves
<1> QED BY <1>0, <1>1, <1>3, <1>4, Together DEF CInv, CondTypeOK, Moves

LEMMA WaitUnlocksKeeps ==
    ASSUME CInv, NEW t \in Tasks, inUse \in OnceEvents, UNCHANGED inUse, CondWaitUnlocks(t, inUse)
    PROVE  CInv'
<1>0. /\ step[t] = "COUNTED" /\ Goto(t, inUse, "UNLOCKED") /\ mutex' = [mutex EXCEPT ![inUse] = NULL]
      /\ UNCHANGED <<vars, count, stale, told, subbed>>
  BY DEF CondWaitUnlocks, At
<1>1. /\ Moves(t, "UNLOCKED") /\ EInv' /\ NoSatisfiedWaiter' /\ UseOK'
      /\ \A u \in Tasks : IsPending(u)' <=> IsPending(u)
  <2>1. "UNLOCKED" \in {"NONE"} \cup WaitSteps /\ step[t] \notin PostSteps
    BY <1>0 DEF WaitSteps, PostSteps
  <2> QED BY <1>0, <2>1, QuietWaitStep
<1>2. told \subseteq Tasks /\ Reached
  BY DEF CInv, CondTypeOK
<1>3. Reached'
  BY <1>0, <1>1, <1>2 DEF Reached, Moves
<1>4. Counted'
  <2>1. Fresh' \subseteq Fresh /\ Asleep' \subseteq Asleep
    BY <1>0, <1>1 DEF Fresh, Asleep, Moves
  <2> QED BY <1>0, <1>1, <2>1, CountKept DEF Moves
<1>5. mutex' \in [OnceEvents -> Tasks \cup {NULL}]
  BY <1>0 DEF CInv, CondTypeOK
<1> QED BY <1>0, <1>1, <1>3, <1>4, <1>5, Together DEF CInv, CondTypeOK, Moves

LEMMA WaitRelocksKeeps ==
    ASSUME CInv, NEW t \in Tasks, inUse \in OnceEvents, UNCHANGED inUse, CondWaitRelocks(t, inUse)
    PROVE  CInv'
<1>0. /\ step[t] \in {"RELOCK", "RELOCK_TIMEDOUT"} /\ told' = told \ {t}
      /\ mutex' = [mutex EXCEPT ![inUse] = t] /\ UNCHANGED <<vars, count, stale, subbed>>
  BY DEF CondWaitRelocks, At
<1>1. PICK n \in {"NONE", "SUB"} : Goto(t, inUse, n)
  BY DEF CondWaitRelocks
<1>2. /\ Moves(t, n) /\ EInv' /\ NoSatisfiedWaiter' /\ UseOK'
      /\ \A u \in Tasks : IsPending(u)' <=> IsPending(u)
  <2>1. n \in {"NONE"} \cup WaitSteps /\ step[t] \notin PostSteps
    BY <1>0 DEF WaitSteps, PostSteps
  <2> QED BY <1>0, <1>1, <2>1, QuietWaitStep
<1>3. told \subseteq Tasks /\ Reached
  BY DEF CInv, CondTypeOK
<1>4. Reached'
  BY <1>0, <1>2, <1>3 DEF Reached, Moves
<1>5. Counted'
  <2>1. Fresh' \subseteq Fresh /\ Asleep' \subseteq Asleep
    BY <1>0, <1>2 DEF Fresh, Asleep, Moves
  <2> QED BY <1>0, <1>2, <2>1, CountKept DEF Moves
<1>6. mutex' \in [OnceEvents -> Tasks \cup {NULL}]
  BY <1>0 DEF CInv, CondTypeOK
<1> QED BY <1>0, <1>2, <1>4, <1>5, <1>6, Together DEF CInv, CondTypeOK, Moves

LEMMA CountSubKeeps ==
    ASSUME CInv, NEW t \in Tasks, inUse \in OnceEvents, UNCHANGED inUse, PthreadCountSub(t, inUse)
    PROVE  CInv'
<1>0. /\ step[t] = "SUB" /\ Goto(t, inUse, "NONE") /\ subbed' = TRUE
      /\ count' = [count EXCEPT ![inUse] = IF @ > 0 THEN @ - 1 ELSE @]
      /\ UNCHANGED <<vars, stale, mutex, told>>
  BY DEF PthreadCountSub, At
<1>1. /\ Moves(t, "NONE") /\ EInv' /\ NoSatisfiedWaiter' /\ UseOK'
      /\ \A u \in Tasks : IsPending(u)' <=> IsPending(u)
  <2>1. "NONE" \in {"NONE"} \cup WaitSteps /\ step[t] \notin PostSteps
    BY <1>0 DEF WaitSteps, PostSteps
  <2> QED BY <1>0, <2>1, QuietWaitStep
<1>2. t \notin told /\ told \subseteq Tasks /\ Reached
  BY <1>0 DEF CInv, CondTypeOK, Reached
<1>3. Reached'
  BY <1>0, <1>1, <1>2 DEF Reached, Moves
<1>4. Counted'
  BY <1>0 DEF Counted
<1>5. count' \in [OnceEvents -> 0..COUNT_MAX]
  BY <1>0, CondAssumption DEF CInv, CondTypeOK
<1> QED BY <1>0, <1>1, <1>3, <1>4, <1>5, Together DEF CInv, CondTypeOK, Moves

\* PthreadCondWaitSub either goes on, or falls asleep with the value it has read.
LEMMA WaitSubEffect ==
    ASSUME CInv, NEW t \in Tasks, inUse \in OnceEvents, NEW timeout \in {"TICKS", "FOREVER"},
           UNCHANGED inUse, PthreadCondWaitSub(t, inUse, timeout)
    PROVE  /\ EInv' /\ NoSatisfiedWaiter'
           /\ \A u \in Tasks : u # t => taskStatus'[u] = taskStatus[u] /\ reading'[u] = reading[u]
           /\ \/ ~IsPending(t)' /\ Goto(t, inUse, "RELOCK")
              \/ t \notin stale[inUse] /\ reading'[t] = CondRead /\ Goto(t, inUse, "ASLEEP")
<1>0. /\ EInv /\ NoSatisfiedWaiter /\ inUse \in Events
      /\ taskStatus \in [Tasks -> TaskStatus] /\ DOMAIN reading = Tasks
  BY DEF CInv, CondTypeOK, EInv, TypeOK
<1>1. /\ taskStatus[t] = "RUN"
      /\ Goto(t, inUse, IF taskStatus'[t] = "RUN" THEN "RELOCK" ELSE "ASLEEP")
      /\ \/ LOS_EventClear(inUse, Flags \ {BROADCAST_EVENT})
         \/ t \notin stale[inUse] /\ OsEventReadImp(t, inUse, Flags, CondMode, timeout)
  BY DEF PthreadCondWaitSub, OsEventReadWithCond, Running
<1>2. CASE LOS_EventClear(inUse, Flags \ {BROADCAST_EVENT})
  <2>1. EInv' /\ NoSatisfiedWaiter'
    BY <1>0, <1>2, ClearKeeps
  <2>2. UNCHANGED <<taskStatus, reading>>
    BY <1>2 DEF LOS_EventClear
  <2> QED BY <1>1, <2>1, <2>2 DEF IsPending
<1>3. CASE t \notin stale[inUse] /\ OsEventReadImp(t, inUse, Flags, CondMode, timeout)
  <2>1. EInv' /\ NoSatisfiedWaiter'
    <3>1. LOS_EventRead(t, inUse, Flags, CondMode, timeout)
      BY <1>1, <1>3 DEF LOS_EventRead, Running
    <3>2. CondMode \in Modes /\ timeout \in Timeouts
      BY DEF CondMode, Modes, Timeouts
    <3> QED BY <1>0, <3>1, <3>2, ReadKeeps
  <2>2. CASE UNCHANGED <<taskStatus, reading>>
    BY <1>1, <2>1, <2>2 DEF IsPending
  <2>3. CASE /\ reading' = [reading EXCEPT ![t] = [event |-> inUse, mask |-> Flags, mode |-> CondMode]]
             /\ taskStatus' = HPFWait(t, timeout)
    <3>1. reading'[t] = CondRead /\ \A u \in Tasks : u # t => reading'[u] = reading[u]
      BY <1>0, <2>3 DEF CondRead
    <3>2. /\ taskStatus'[t] # "RUN"
          /\ \A u \in Tasks : u # t => taskStatus'[u] = taskStatus[u]
      BY <1>0, <2>3 DEF HPFWait
    <3>3. Goto(t, inUse, "ASLEEP")
      BY <1>1, <3>2
    <3> QED BY <1>3, <2>1, <3>1, <3>2, <3>3
  <2> QED BY <1>3, <2>2, <2>3 DEF OsEventReadImp
<1> QED BY <1>1, <1>2, <1>3

LEMMA WaitSubKeeps ==
    ASSUME CInv, NEW t \in Tasks, inUse \in OnceEvents, NEW timeout \in {"TICKS", "FOREVER"},
           UNCHANGED inUse, PthreadCondWaitSub(t, inUse, timeout)
    PROVE  CInv'
<1>0. step[t] = "UNLOCKED" /\ UNCHANGED <<count, stale, mutex, told, subbed>>
  BY DEF PthreadCondWaitSub, At
<1>1. /\ EInv' /\ NoSatisfiedWaiter'
      /\ \A u \in Tasks : u # t => taskStatus'[u] = taskStatus[u] /\ reading'[u] = reading[u]
  BY WaitSubEffect
<1>2. PICK n \in {"RELOCK", "ASLEEP"} :
         /\ Goto(t, inUse, n)
         /\ n = "RELOCK" => ~IsPending(t)'
         /\ n = "ASLEEP" => t \notin stale[inUse] /\ reading'[t] = CondRead
  BY WaitSubEffect
<1>3. n \in AllSteps /\ Moves(t, n)
  <2>1. n \in {"NONE"} \cup WaitSteps /\ step[t] \notin PostSteps
    BY <1>0 DEF WaitSteps, PostSteps
  <2> QED BY <1>2, <2>1, WaitStep
<1>4. \A u \in Tasks : u # t => (IsPending(u)' <=> IsPending(u))
  BY <1>1 DEF IsPending
<1>5. UseOK'
  <2>1. \A u \in Tasks : IsPending(u)' =>
               \/ u # t /\ IsPending(u) /\ reading'[u] = reading[u]
               \/ u = t /\ n = "ASLEEP" /\ reading'[t] = CondRead
    BY <1>1, <1>2, <1>4
  <2> QED BY <1>2, <1>3, <2>1, UseKept
<1>6. Reached'
  <2>1. told \subseteq Tasks /\ Reached
    BY DEF CInv, CondTypeOK
  <2>2. ASSUME NEW w \in told, w # t
        PROVE  /\ step'[w] = step[w] /\ (IsPending(w)' <=> IsPending(w))
    BY <1>3, <1>4, <2>1, <2>2 DEF Moves
  <2>3. n = "ASLEEP" /\ t \in told => AtStep("BROADCAST_MODIFY") # {}
    BY <1>0, <1>2, <2>1 DEF Reached
  <2> QED BY <1>0, <1>2, <1>3, <2>1, <2>2, <2>3 DEF Reached, Moves
<1>7. Counted'
  <2>1. Fresh' \subseteq Fresh
    BY <1>0, <1>3 DEF Fresh, Moves
  <2>2. Asleep' \subseteq Fresh \cup Asleep
    BY <1>0, <1>2, <1>3, <1>4 DEF Fresh, Asleep, Moves
  <2> QED BY <1>0, <1>3, <2>1, <2>2, CountKept DEF Moves
<1> QED BY <1>0, <1>1, <1>3, <1>5, <1>6, <1>7, Together DEF CInv, CondTypeOK, Moves

LEMMA ReadReturnsKeeps ==
    ASSUME CInv, NEW t \in Tasks, inUse \in OnceEvents, UNCHANGED inUse, CondReadReturns(t, inUse)
    PROVE  CInv'
<1>0. step[t] = "ASLEEP" /\ ReaderStep(t) /\ UNCHANGED <<count, stale, mutex, told, subbed>>
  BY DEF CondReadReturns, At
<1>1. /\ EInv' /\ NoSatisfiedWaiter'
      /\ taskStatus[t] \in {"WOKEN", "TIMEOUT"} /\ taskStatus' = [taskStatus EXCEPT ![t] = "RUN"]
      /\ \A u \in Tasks : u # t => reading'[u] = reading[u]
  <2>1. EInv /\ NoSatisfiedWaiter
    BY DEF CInv, CondTypeOK, EInv
  <2> QED BY <1>0, <2>1, ReaderStepKeeps
<1>2. PICK n \in {"RELOCK", "RELOCK_TIMEDOUT"} : Goto(t, inUse, n)
  BY DEF CondReadReturns
<1>3. n \in AllSteps /\ Moves(t, n)
  <2>1. n \in {"NONE"} \cup WaitSteps /\ step[t] \notin PostSteps
    BY <1>0 DEF WaitSteps, PostSteps
  <2> QED BY <1>2, <2>1, WaitStep
<1>4. ~IsPending(t)' /\ \A u \in Tasks : u # t => (IsPending(u)' <=> IsPending(u))
  BY <1>1 DEF IsPending, CInv, CondTypeOK, TypeOK
<1>5. UseOK'
  BY <1>1, <1>2, <1>3, <1>4, UseKept
<1>6. Reached'
  <2>1. told \subseteq Tasks /\ Reached
    BY DEF CInv, CondTypeOK
  <2> QED BY <1>0, <1>2, <1>3, <1>4, <2>1 DEF Reached, Moves
<1>7. Counted'
  <2>1. Fresh' \subseteq Fresh /\ Asleep' \subseteq Asleep
    BY <1>0, <1>3, <1>4 DEF Fresh, Asleep, Moves
  <2> QED BY <1>0, <1>3, <2>1, CountKept DEF Moves
<1> QED BY <1>0, <1>1, <1>3, <1>5, <1>6, <1>7, Together DEF CInv, CondTypeOK, Moves

\* Events without a condition variable, and reads that are interrupted.
LEMMA NoCondKeeps ==
    ASSUME CInv, EInv', NoSatisfiedWaiter', UNCHANGED <<condVars, inUse>>, inUse \notin OnceEvents
    PROVE  CInv'
<1>0. UNCHANGED <<count, stale, mutex, step, cond, told, subbed>>
  BY DEF condVars
<1>1. UseOK'
  BY <1>0 DEF CInv, UseOK
<1>2. Reached'
  <2>1. told = {}
    BY DEF CInv, CondTypeOK, UseOK, Reached
  <2> QED BY <1>0, <2>1 DEF Reached
<1>3. Counted'
  BY DEF Counted
<1> QED BY <1>0, <1>1, <1>2, <1>3, Together DEF CInv, CondTypeOK, AllSteps

LEMMA FewerWait ==
    ASSUME CInv, EInv', NoSatisfiedWaiter', UNCHANGED <<count, stale, step, cond, told, subbed, inUse>>,
           mutex' \in [OnceEvents -> Tasks \cup {NULL}],
           \A u \in Tasks : IsPending(u)' => IsPending(u) /\ reading'[u] = reading[u]
    PROVE  CInv'
<1>0. UNCHANGED <<count, stale, step, cond, told, subbed>>
  OBVIOUS
<1>1. UseOK' /\ Reached'
  BY <1>0 DEF CInv, CondTypeOK, UseOK, Reached, AtStep, CondRead
<1>2. Counted'
  <2>1. Fresh' \subseteq Fresh /\ Asleep' \subseteq Asleep
    BY <1>0 DEF Fresh, Asleep
  <2> QED BY <1>0, <2>1, CountKept DEF AtStep, Signalling
<1> QED BY <1>0, <1>1, <1>2, Together DEF CInv, CondTypeOK, AllSteps

-----------------------------------------------------------------------------
(* Signals and broadcasts                                                   *)

\* A task that is in a signal or broadcast, or idle, is not among the waits.
LEMMA PosterApart ==
    ASSUME CInv, NEW t \in Tasks, step[t] \in {"NONE"} \cup PostSteps
    PROVE  t \notin told /\ t \notin Fresh /\ t \notin Asleep /\ step[t] # "ASLEEP"
<1>1. step[t] \notin WaitSteps
  BY DEF WaitSteps, PostSteps
<1>2. t \notin told
  BY <1>1 DEF CInv, Reached, WaitSteps
<1>3. step[t] # "ASLEEP" /\ step[t] # "COUNTED" /\ step[t] # "UNLOCKED"
  BY <1>1 DEF WaitSteps
<1> QED BY <1>2, <1>3 DEF Fresh, Asleep

\* The step of a poster: where the others are, and which waits there are, does not depend on it.
LEMMA PostStep ==
    ASSUME CInv, NEW t \in Tasks, NEW n \in {"NONE"} \cup PostSteps, inUse \in OnceEvents,
           step[t] \in {"NONE"} \cup PostSteps, Goto(t, inUse, n)
    PROVE  /\ n \in AllSteps
           /\ step' \in [Tasks -> AllSteps] /\ cond' \in [Tasks -> OnceEvents \cup {NULL}]
           /\ step'[t] = n /\ \A u \in Tasks : u # t => step'[u] = step[u]
           /\ \A u \in Tasks : \A m \in WaitSteps : step'[u] = m <=> step[u] = m
           /\ \A m \in PostSteps : AtStep(m)' = IF m = n THEN AtStep(m) \cup {t} ELSE AtStep(m) \ {t}
<1>1. n \in AllSteps /\ n \notin WaitSteps /\ step[t] \notin WaitSteps
  BY DEF AllSteps, WaitSteps, PostSteps
<1>2. CondTypeOK
  BY DEF CInv
<1>3. /\ step' \in [Tasks -> AllSteps] /\ cond' \in [Tasks -> OnceEvents \cup {NULL}]
      /\ step'[t] = n /\ \A u \in Tasks : u # t => step'[u] = step[u]
      /\ \A m \in AllSteps : AtStep(m)' = IF m = n THEN AtStep(m) \cup {t} ELSE AtStep(m) \ {t}
  BY <1>1, <1>2, GotoSteps
<1>4. \A u \in Tasks : \A m \in WaitSteps : step'[u] = m <=> step[u] = m
  BY <1>1, <1>3
<1> QED BY <1>1, <1>3, <1>4 DEF AllSteps

LEMMA SignalKeeps ==
    ASSUME CInv, NEW t \in Tasks, inUse \in OnceEvents, UNCHANGED inUse, pthread_cond_signal(t, inUse)
    PROVE  CInv'
<1>0. /\ step[t] = "NONE" /\ count[inUse] > 0 /\ Goto(t, inUse, "SIGNAL_MODIFY")
      /\ count' = [count EXCEPT ![inUse] = @ - 1] /\ UNCHANGED <<vars, stale, mutex, told, subbed>>
  BY DEF pthread_cond_signal, Idle
<1>1. /\ "SIGNAL_MODIFY" \in AllSteps
      /\ step' \in [Tasks -> AllSteps] /\ cond' \in [Tasks -> OnceEvents \cup {NULL}]
      /\ step'[t] = "SIGNAL_MODIFY" /\ \A u \in Tasks : u # t => step'[u] = step[u]
      /\ \A m \in PostSteps : AtStep(m)' = IF m = "SIGNAL_MODIFY" THEN AtStep(m) \cup {t} ELSE AtStep(m) \ {t}
  <2>1. "SIGNAL_MODIFY" \in {"NONE"} \cup PostSteps
    BY DEF PostSteps
  <2> QED BY <1>0, <2>1, PostStep
<1>2. EInv' /\ NoSatisfiedWaiter' /\ UseOK' /\ \A u \in Tasks : IsPending(u)' <=> IsPending(u)
  BY <1>0, <1>1, QuietStep
<1>3. \A m \in PostSteps : t \notin AtStep(m)
  BY <1>0 DEF AtStep, PostSteps
<1>4. /\ AtStep("SIGNAL_MODIFY")' = AtStep("SIGNAL_MODIFY") \cup {t}
      /\ AtStep("SIGNAL_WRITE")' = AtStep("SIGNAL_WRITE")
      /\ AtStep("BROADCAST_MODIFY")' = AtStep("BROADCAST_MODIFY")
      /\ AtStep("BROADCAST_WRITE")' = AtStep("BROADCAST_WRITE")
      /\ t \notin AtStep("SIGNAL_MODIFY") /\ t \notin Signalling
  BY <1>1, <1>3 DEF PostSteps, Signalling
<1>5. t \notin told /\ t \notin Fresh /\ t \notin Asleep /\ told \subseteq Tasks /\ Reached
  BY <1>0, PosterApart DEF CInv, CondTypeOK
<1>6. Reached'
  BY <1>0, <1>1, <1>2, <1>4, <1>5 DEF Reached
<1>7. count'[inUse] = count[inUse] - 1 /\ count[inUse] \in Nat /\ count' \in [OnceEvents -> 0..COUNT_MAX]
  BY <1>0, CondAssumption DEF CInv, CondTypeOK
<1>8. Counted'
  <2>1. Fresh' = Fresh /\ Asleep' = Asleep
    BY <1>0, <1>1, <1>2, <1>5 DEF Fresh, Asleep
  <2>2. Signalling' = Signalling \cup {t}
    BY <1>4 DEF Signalling
  <2>3. ASSUME NEW S \in SUBSET Tasks, t \notin S PROVE Cardinality(S \cup {t}) = Cardinality(S) + 1
    BY <2>3, TasksFinite, FS_AddElement
  <2>4. /\ Cardinality(AtStep("SIGNAL_MODIFY")') = Cardinality(AtStep("SIGNAL_MODIFY")) + 1
        /\ Cardinality(Signalling') = Cardinality(Signalling) + 1
    BY <1>4, <2>2, <2>3, SetsOK
  <2>5. Cardinality(AtStep("SIGNAL_MODIFY")) \in Nat /\ Cardinality(Signalling) \in Nat
    BY SetsOK, TasksFinite
  <2>6. Counted
    BY DEF CInv
  <2> QED BY <1>0, <1>4, <1>7, <2>1, <2>4, <2>5, <2>6 DEF Counted
<1> QED BY <1>0, <1>1, <1>2, <1>6, <1>7, <1>8, Together DEF CInv, CondTypeOK

LEMMA BroadcastKeeps ==
    ASSUME CInv, NEW t \in Tasks, inUse \in OnceEvents, UNCHANGED inUse, pthread_cond_broadcast(t, inUse)
    PROVE  CInv'
<1>0. /\ step[t] = "NONE" /\ Goto(t, inUse, "BROADCAST_MODIFY")
      /\ count' = [count EXCEPT ![inUse] = 0] /\ told' = told \cup {w \in Tasks : Waiting(w, inUse)}
      /\ UNCHANGED <<vars, stale, mutex, subbed>>
  BY DEF pthread_cond_broadcast, Idle
<1>1. /\ "BROADCAST_MODIFY" \in AllSteps
      /\ step' \in [Tasks -> AllSteps] /\ cond' \in [Tasks -> OnceEvents \cup {NULL}]
      /\ step'[t] = "BROADCAST_MODIFY" /\ \A u \in Tasks : u # t => step'[u] = step[u]
  <2>1. "BROADCAST_MODIFY" \in {"NONE"} \cup PostSteps
    BY DEF PostSteps
  <2> QED BY <1>0, <2>1, PostStep
<1>2. EInv' /\ NoSatisfiedWaiter' /\ UseOK' /\ \A u \in Tasks : IsPending(u)' <=> IsPending(u)
  BY <1>0, <1>1, QuietStep
<1>3. AtStep("BROADCAST_MODIFY")' # {}
  BY <1>1 DEF AtStep
<1>4. told' \in SUBSET Tasks /\ t \notin told /\ Reached
  BY <1>0, PosterApart DEF CInv, CondTypeOK
<1>5. Reached'
  <2>1. ASSUME NEW w \in told'
        PROVE  step'[w] \in {"COUNTED", "UNLOCKED", "ASLEEP", "RELOCK", "RELOCK_TIMEDOUT"}
    <3>1. step[w] \in {"COUNTED", "UNLOCKED", "ASLEEP", "RELOCK", "RELOCK_TIMEDOUT"} /\ w \in Tasks
      BY <1>0, <1>4 DEF Reached, Waiting, At
    <3>2. w # t
      BY <1>0, <3>1
    <3> QED BY <1>1, <3>1, <3>2
  <2> QED BY <1>3, <2>1 DEF Reached
<1>6. Counted'
  BY <1>3 DEF Counted
<1>7. count' \in [OnceEvents -> 0..COUNT_MAX]
  BY <1>0, CondAssumption DEF CInv, CondTypeOK
<1> QED BY <1>0, <1>1, <1>2, <1>4, <1>5, <1>6, <1>7, Together DEF CInv, CondTypeOK

\* After the value has changed no wait is fresh.
LEMMA ModifyKeeps ==
    ASSUME CInv, NEW t \in Tasks, inUse \in OnceEvents, UNCHANGED inUse, PthreadCondValueModify(t, inUse)
    PROVE  CInv'
<1>0. /\ stale' = [stale EXCEPT ![inUse] = Tasks] /\ UNCHANGED <<vars, count, mutex, told, subbed>>
      /\ step[t] \in {"SIGNAL_MODIFY", "BROADCAST_MODIFY"}
  BY DEF PthreadCondValueModify, At
<1>1. PICK n \in {"SIGNAL_WRITE", "BROADCAST_WRITE"} :
         Goto(t, inUse, n) /\ n = IF step[t] = "SIGNAL_MODIFY" THEN "SIGNAL_WRITE" ELSE "BROADCAST_WRITE"
  BY DEF PthreadCondValueModify
<1>2. step[t] \in {"NONE"} \cup PostSteps /\ n \in {"NONE"} \cup PostSteps
  BY <1>0 DEF PostSteps
<1>3. /\ n \in AllSteps
      /\ step' \in [Tasks -> AllSteps] /\ cond' \in [Tasks -> OnceEvents \cup {NULL}]
      /\ step'[t] = n /\ \A u \in Tasks : u # t => step'[u] = step[u]
      /\ \A m \in PostSteps : AtStep(m)' = IF m = n THEN AtStep(m) \cup {t} ELSE AtStep(m) \ {t}
  BY <1>1, <1>2, PostStep
<1>4. t \notin told /\ t \notin Asleep /\ step[t] # "ASLEEP" /\ told \subseteq Tasks /\ Reached
  BY <1>2, PosterApart DEF CInv, CondTypeOK
<1>5. EInv' /\ NoSatisfiedWaiter' /\ UseOK' /\ \A u \in Tasks : IsPending(u)' <=> IsPending(u)
  BY <1>0, <1>1, <1>3, <1>4, QuietStep
<1>6. stale'[inUse] = Tasks /\ stale' \in [OnceEvents -> SUBSET Tasks]
  BY <1>0 DEF CInv, CondTypeOK
<1>7. /\ n = "SIGNAL_WRITE" => /\ AtStep("BROADCAST_MODIFY")' = AtStep("BROADCAST_MODIFY")
                               /\ AtStep("BROADCAST_WRITE")' = AtStep("BROADCAST_WRITE")
                               /\ Signalling' = Signalling
      /\ n = "BROADCAST_WRITE" => AtStep("BROADCAST_WRITE")' # {}
  <2>1. CASE n = "SIGNAL_WRITE"
    <3>1. /\ t \in AtStep("SIGNAL_MODIFY") /\ t \notin AtStep("BROADCAST_MODIFY")
          /\ t \notin AtStep("BROADCAST_WRITE")
      BY <1>0, <1>1, <2>1 DEF AtStep
    <3>2. /\ AtStep("BROADCAST_MODIFY")' = AtStep("BROADCAST_MODIFY") \ {t}
          /\ AtStep("BROADCAST_WRITE")' = AtStep("BROADCAST_WRITE") \ {t}
          /\ AtStep("SIGNAL_MODIFY")' = AtStep("SIGNAL_MODIFY") \ {t}
          /\ AtStep("SIGNAL_WRITE")' = AtStep("SIGNAL_WRITE") \cup {t}
      BY <1>3, <2>1 DEF PostSteps
    <3> QED BY <2>1, <3>1, <3>2 DEF Signalling
  <2>2. CASE n = "BROADCAST_WRITE"
    BY <1>3, <2>2 DEF AtStep
  <2> QED BY <2>1, <2>2
<1>8. Reached'
  BY <1>0, <1>3, <1>4, <1>5, <1>6, <1>7 DEF Reached
<1>9. Counted'
  <2>1. Fresh' = {}
    BY <1>6 DEF Fresh
  <2>2. Asleep' = Asleep
    BY <1>3, <1>4, <1>5 DEF Asleep
  <2>3. /\ Cardinality({}) = 0 /\ count[inUse] \in Nat /\ Cardinality(Signalling) \in Nat
        /\ Cardinality(Asleep) \in Nat /\ Cardinality(Fresh \cup Asleep) \in Nat
        /\ Cardinality(Asleep) <= Cardinality(Fresh \cup Asleep)
    BY SetsOK, TasksFinite, FewerTasks, FS_EmptySet DEF CInv, CondTypeOK
  <2>4. PICK M \in SUBSET Tasks : M = AtStep("SIGNAL_MODIFY")'
    BY DEF AtStep
  <2>5. Cardinality(M) \in Nat
    BY TasksFinite
  <2>6. Cardinality(Fresh') <= count'[inUse'] + Cardinality(AtStep("SIGNAL_MODIFY")')
    BY <1>0, <2>1, <2>3, <2>4, <2>5
  <2>7. Fresh' \cup Asleep' = Asleep
    BY <2>1, <2>2
  <2>8. ~subbed' /\ AtStep("BROADCAST_MODIFY")' \cup AtStep("BROADCAST_WRITE")' = {} =>
           Cardinality(Asleep) <= count[inUse] + Cardinality(Signalling')
    <3>1. Counted
      BY DEF CInv
    <3> QED BY <1>0, <1>1, <1>7, <2>3, <3>1 DEF Counted
  <2> QED BY <1>0, <2>6, <2>7, <2>8 DEF Counted
<1> QED BY <1>0, <1>3, <1>5, <1>6, <1>8, <1>9, Together DEF CInv, CondTypeOK

\* What a write to the control block of a condition variable does: with once the first sleeper
\* is woken if there is one, without it all are.
LEMMA PostWakes ==
    ASSUME CInv, NEW t \in Tasks, inUse \in OnceEvents, NEW once \in BOOLEAN,
           step[t] \in PostSteps, Goto(t, inUse, "NONE"), UNCHANGED inUse,
           OsEventWriteUnsafe(inUse, {BROADCAST_EVENT}, once)
    PROVE  /\ EInv' /\ NoSatisfiedWaiter' /\ UseOK'
           /\ \A u \in Tasks : IsPending(u)' => IsPending(u)
           /\ ~once => \A u \in Tasks : ~IsPending(u)'
           /\ once => \/ Asleep = {}
                      \/ \E h \in Asleep : \A u \in Tasks : IsPending(u)' <=> IsPending(u) /\ u # h
<1>0. EInv /\ NoSatisfiedWaiter /\ UseOK /\ ListOK /\ inUse \in Events
  BY DEF CInv, CondTypeOK, EInv
<1>1. {BROADCAST_EVENT} \in SUBSET Flags
  BY CondAssumption
<1>2. PICK l \in Seq(Tasks) : l = stEventList[inUse]
  BY <1>0 DEF EInv, TypeOK
<1>3. PICK f \in SUBSET Flags, c \in Events : f = {BROADCAST_EVENT} /\ c = inUse
  BY <1>0, <1>1
<1>4. EInv' /\ NoSatisfiedWaiter' /\ UNCHANGED reading /\ \E R : Wakes(c, f, once, R)
  <2>1. OsEventWriteUnsafe(c, f, once) /\ c \in OnceEvents
    BY <1>3
  <2> QED BY <1>0, <2>1, WriteKeeps
<1>11. PICK R : Wakes(c, f, once, R)
  BY <1>4
<1>12. /\ \A u \in Tasks : IsPending(u)' <=> IsPending(u) /\ u \notin R
       /\ R = {u \in ToSet(l) : /\ once => u = Head(l)
                                /\ OsEventResume(u, {BROADCAST_EVENT}, uwEventID[inUse] \cup {BROADCAST_EVENT})}
  BY <1>2, <1>3, <1>11 DEF Wakes
<1>5. ToSet(l) = Asleep
  <2>1. ASSUME NEW u \in ToSet(l) PROVE u \in Asleep
    <3>1. u \in Tasks /\ IsPending(u)
      BY <1>0, <1>2, InList
    <3> QED BY <1>0, <3>1 DEF UseOK, Asleep
  <2>2. ASSUME NEW u \in Asleep PROVE u \in ToSet(l)
    <3>1. u \in Tasks /\ IsPending(u)
      BY DEF Asleep
    <3>2. reading[u] = CondRead
      BY <1>0, <3>1 DEF UseOK
    <3>3. reading[u].event = inUse
      BY <3>2 DEF CondRead
    <3> QED BY <1>0, <1>2, <3>1, <3>3 DEF ListOK
  <2> QED BY <2>1, <2>2
<1>6. R = {u \in ToSet(l) : once => u = Head(l)}
  <2>1. ASSUME NEW u \in ToSet(l)
        PROVE  OsEventResume(u, {BROADCAST_EVENT}, uwEventID[inUse] \cup {BROADCAST_EVENT})
    <3>1. u \in Tasks /\ IsPending(u)
      BY <1>5 DEF Asleep
    <3>2. reading[u] = CondRead
      BY <1>0, <3>1 DEF UseOK
    <3>3. reading[u].mask = Flags /\ reading[u].mode.all = FALSE
      BY <3>2 DEF CondRead, CondMode
    <3> QED BY <3>3, CondAssumption DEF OsEventResume
  <2> QED BY <1>12, <2>1
<1>7. \A u \in Tasks : IsPending(u) => u \in ToSet(l)
  BY <1>0, <1>5 DEF UseOK, Asleep
<1>8. UseOK'
  <2>1. "NONE" \in AllSteps /\ ~IsPending(t)
    BY <1>0 DEF AllSteps, UseOK, PostSteps
  <2>2. \A u \in Tasks : IsPending(u)' => u # t /\ IsPending(u) /\ reading'[u] = reading[u]
    BY <1>4, <1>12, <2>1
  <2> QED BY <2>1, <2>2, UseKept
<1>9. ~once => \A u \in Tasks : ~IsPending(u)'
  BY <1>6, <1>7, <1>12
<1>10. once => \/ Asleep = {}
               \/ \E h \in Asleep : \A u \in Tasks : IsPending(u)' <=> IsPending(u) /\ u # h
  <2>1. l = <<>> => ToSet(l) = {}
    BY ToSetIn
  <2>2. l # <<>> => Head(l) \in ToSet(l)
    BY TailList
  <2> QED BY <1>5, <1>6, <1>12, <2>1, <2>2
<1> QED BY <1>4, <1>8, <1>9, <1>10, <1>12

\* The first sleeper is woken, or there is none and the fresh waits alone are counted.
LEMMA SignalWritesKeeps ==
    ASSUME CInv, NEW t \in Tasks, inUse \in OnceEvents, UNCHANGED inUse, SignalWrites(t, inUse)
    PROVE  CInv'
<1>0. /\ step[t] = "SIGNAL_WRITE" /\ Goto(t, inUse, "NONE") /\ UNCHANGED <<count, stale, mutex, told, subbed>>
      /\ OsEventWriteUnsafe(inUse, {BROADCAST_EVENT}, TRUE)
  BY DEF SignalWrites, At, OsEventWriteOnce
<1>1. step[t] \in PostSteps /\ "NONE" \in {"NONE"} \cup PostSteps
  BY <1>0 DEF PostSteps
<1>2. /\ EInv' /\ NoSatisfiedWaiter' /\ UseOK' /\ \A u \in Tasks : IsPending(u)' => IsPending(u)
      /\ \/ Asleep = {}
         \/ \E h \in Asleep : \A u \in Tasks : IsPending(u)' <=> IsPending(u) /\ u # h
  BY <1>0, <1>1, PostWakes
<1>3. /\ step' \in [Tasks -> AllSteps] /\ cond' \in [Tasks -> OnceEvents \cup {NULL}]
      /\ step'[t] = "NONE" /\ \A u \in Tasks : u # t => step'[u] = step[u]
      /\ \A m \in PostSteps : AtStep(m)' = AtStep(m) \ {t}
  <2>1. \A m \in PostSteps : m # "NONE"
    BY DEF PostSteps
  <2> QED BY <1>0, <1>1, <2>1, PostStep
<1>4. /\ AtStep("SIGNAL_MODIFY")' = AtStep("SIGNAL_MODIFY")
      /\ AtStep("BROADCAST_MODIFY")' = AtStep("BROADCAST_MODIFY")
      /\ AtStep("BROADCAST_WRITE")' = AtStep("BROADCAST_WRITE")
      /\ Signalling' = Signalling \ {t} /\ t \in Signalling
      /\ AtStep("SIGNAL_MODIFY") \subseteq Signalling \ {t}
  <2>1. /\ t \notin AtStep("SIGNAL_MODIFY") /\ t \notin AtStep("BROADCAST_MODIFY")
        /\ t \notin AtStep("BROADCAST_WRITE") /\ t \in AtStep("SIGNAL_WRITE")
    BY <1>0 DEF AtStep
  <2> QED BY <1>3, <2>1 DEF PostSteps, Signalling
<1>5. t \notin told /\ t \notin Fresh /\ t \notin Asleep /\ told \subseteq Tasks /\ Reached
  BY <1>1, PosterApart DEF CInv, CondTypeOK
<1>6. Reached'
  BY <1>0, <1>2, <1>3, <1>4, <1>5 DEF Reached
<1>7. Counted'
  <2> SUFFICES ASSUME ~subbed PROVE Counted'
    BY <1>0 DEF Counted
  <2>1. Fresh' = Fresh
    BY <1>0, <1>3, <1>5 DEF Fresh
  <2>2. Asleep' = {u \in Asleep : IsPending(u)'}
    BY <1>2, <1>3, <1>5 DEF Asleep
  <2>3. Counted /\ count[inUse] \in Nat /\ count'[inUse'] = count[inUse]
    BY <1>0 DEF CInv, CondTypeOK
  <2>4. AtStep("BROADCAST_MODIFY")' = {} =>
           Cardinality(Fresh') <= count[inUse] + Cardinality(AtStep("SIGNAL_MODIFY")')
    BY <1>4, <2>1, <2>3 DEF Counted
  <2>5. ASSUME AtStep("BROADCAST_MODIFY")' \cup AtStep("BROADCAST_WRITE")' = {}
        PROVE  Cardinality(Fresh' \cup Asleep') <= count[inUse] + Cardinality(Signalling')
    <3>0. /\ Cardinality(Signalling \ {t}) = Cardinality(Signalling) - 1
          /\ Cardinality(Signalling) \in Nat /\ Cardinality(Signalling \ {t}) \in Nat
      BY <1>4, SetsOK, OneTaskLess, TasksFinite
    <3>3. Cardinality(Signalling') = Cardinality(Signalling \ {t})
      BY <1>4, Zenon
    <3>1. CASE Asleep = {}
      <4>1. Fresh' \cup Asleep' = Fresh
        BY <2>1, <2>2, <3>1
      <4>2. Cardinality(Fresh) <= count[inUse] + Cardinality(AtStep("SIGNAL_MODIFY"))
        BY <1>4, <2>3, <2>5 DEF Counted
      <4>3. /\ Cardinality(AtStep("SIGNAL_MODIFY")) <= Cardinality(Signalling \ {t})
            /\ Cardinality(AtStep("SIGNAL_MODIFY")) \in Nat /\ Cardinality(Fresh) \in Nat
        BY <1>4, SetsOK, FewerTasks, TasksFinite
      <4>4. Cardinality(Fresh' \cup Asleep') = Cardinality(Fresh)
        BY <4>1, Zenon
      <4> QED BY <2>3, <3>0, <3>3, <4>2, <4>3, <4>4
    <3>2. ASSUME NEW h \in Asleep, \A u \in Tasks : IsPending(u)' <=> IsPending(u) /\ u # h
          PROVE  Cardinality(Fresh' \cup Asleep') <= count[inUse] + Cardinality(Signalling')
      <4>1. Asleep' = Asleep \ {h} /\ h \notin Fresh
        BY <2>2, <3>2 DEF Asleep, Fresh
      <4>2. Fresh' \cup Asleep' = (Fresh \cup Asleep) \ {h}
        BY <2>1, <4>1
      <4>3. Cardinality(Fresh \cup Asleep) <= count[inUse] + Cardinality(Signalling)
        BY <1>4, <2>3, <2>5 DEF Counted
      <4>4. /\ Cardinality((Fresh \cup Asleep) \ {h}) = Cardinality(Fresh \cup Asleep) - 1
            /\ Cardinality(Fresh \cup Asleep) \in Nat
        BY SetsOK, OneTaskLess, TasksFinite
      <4>5. Cardinality(Fresh' \cup Asleep') = Cardinality((Fresh \cup Asleep) \ {h})
        BY <4>2, Zenon
      <4> QED BY <2>3, <3>0, <3>3, <4>3, <4>4, <4>5
    <3> QED BY <1>2, <3>1, <3>2
  <2> QED BY <2>3, <2>4, <2>5 DEF Counted
<1> QED BY <1>0, <1>2, <1>3, <1>6, <1>7, Together DEF CInv, CondTypeOK

\* Nobody sleeps after a broadcast has written.
LEMMA BroadcastWritesKeeps ==
    ASSUME CInv, NEW t \in Tasks, inUse \in OnceEvents, UNCHANGED inUse, BroadcastWrites(t, inUse)
    PROVE  CInv'
<1>0. /\ step[t] = "BROADCAST_WRITE" /\ Goto(t, inUse, "NONE") /\ UNCHANGED <<count, stale, mutex, told, subbed>>
      /\ OsEventWriteUnsafe(inUse, {BROADCAST_EVENT}, FALSE)
  BY DEF BroadcastWrites, At, LOS_EventWrite
<1>1. step[t] \in PostSteps /\ "NONE" \in {"NONE"} \cup PostSteps
  BY <1>0 DEF PostSteps
<1>2. EInv' /\ NoSatisfiedWaiter' /\ UseOK' /\ \A u \in Tasks : ~IsPending(u)'
  BY <1>0, <1>1, PostWakes
<1>3. /\ step' \in [Tasks -> AllSteps] /\ cond' \in [Tasks -> OnceEvents \cup {NULL}]
      /\ step'[t] = "NONE" /\ \A u \in Tasks : u # t => step'[u] = step[u]
      /\ \A m \in PostSteps : AtStep(m)' = AtStep(m) \ {t}
  <2>1. \A m \in PostSteps : m # "NONE"
    BY DEF PostSteps
  <2> QED BY <1>0, <1>1, <2>1, PostStep
<1>4. /\ AtStep("SIGNAL_MODIFY")' = AtStep("SIGNAL_MODIFY") /\ Signalling' = Signalling
      /\ AtStep("BROADCAST_MODIFY")' = AtStep("BROADCAST_MODIFY")
  <2>1. /\ t \notin AtStep("SIGNAL_MODIFY") /\ t \notin AtStep("BROADCAST_MODIFY")
        /\ t \notin AtStep("SIGNAL_WRITE")
    BY <1>0 DEF AtStep
  <2> QED BY <1>3, <2>1 DEF PostSteps, Signalling
<1>5. t \notin told /\ t \notin Fresh /\ t \notin Asleep /\ told \subseteq Tasks /\ Reached
  BY <1>1, PosterApart DEF CInv, CondTypeOK
<1>6. Reached'
  BY <1>0, <1>2, <1>3, <1>4, <1>5 DEF Reached
<1>7. Counted'
  <2> SUFFICES ASSUME ~subbed PROVE Counted'
    BY <1>0 DEF Counted
  <2>1. Fresh' = Fresh
    BY <1>0, <1>3, <1>5 DEF Fresh
  <2>2. Asleep' = {}
    BY <1>2 DEF Asleep
  <2>3. Counted /\ count[inUse] \in Nat /\ count'[inUse'] = count[inUse]
    BY <1>0 DEF CInv, CondTypeOK
  <2>4. AtStep("BROADCAST_MODIFY") = {} =>
           Cardinality(Fresh) <= count[inUse] + Cardinality(AtStep("SIGNAL_MODIFY"))
    BY <2>3 DEF Counted
  <2>5. /\ Cardinality(AtStep("SIGNAL_MODIFY")) <= Cardinality(Signalling)
        /\ Cardinality(AtStep("SIGNAL_MODIFY")) \in Nat /\ Cardinality(Signalling) \in Nat
        /\ Cardinality(Fresh) \in Nat
    <3>1. AtStep("SIGNAL_MODIFY") \in SUBSET Signalling
      BY DEF Signalling
    <3> QED BY <3>1, SetsOK, FewerTasks, TasksFinite
  <2>6. Fresh' \cup Asleep' = Fresh
    BY <2>1, <2>2
  <2>7. /\ Cardinality(Fresh' \cup Asleep') = Cardinality(Fresh) /\ Cardinality(Fresh') = Cardinality(Fresh)
        /\ Cardinality(Signalling') = Cardinality(Signalling)
        /\ Cardinality(AtStep("SIGNAL_MODIFY")') = Cardinality(AtStep("SIGNAL_MODIFY"))
    BY <1>4, <2>1, <2>6, Zenon
  <2>8. AtStep("BROADCAST_MODIFY")' = {} => Cardinality(Fresh) <= count[inUse] + Cardinality(AtStep("SIGNAL_MODIFY"))
    BY <1>4, <2>4
  <2>9. AtStep("BROADCAST_MODIFY")' = {} => Cardinality(Fresh) <= count[inUse] + Cardinality(Signalling)
    BY <2>3, <2>5, <2>8
  <2> QED BY <2>3, <2>7, <2>8, <2>9 DEF Counted
<1> QED BY <1>0, <1>2, <1>3, <1>6, <1>7, Together DEF CInv, CondTypeOK

-----------------------------------------------------------------------------
(* The theorems                                                             *)

LEMMA CInvStarts == CondInit => CInv
<1> SUFFICES ASSUME CondInit PROVE CInv
  OBVIOUS
<1>1. TypeOK
  BY DEF CondInit, Init, TypeOK, TaskStatus
<1>2. \A e \in Events : ToSet(stEventList[e]) = {} /\ IsInjective(stEventList[e])
  <2>1. ToSet(<<>>) = {} /\ IsInjective(<<>>)
    BY DEF ToSet, IsInjective
  <2> QED BY <2>1 DEF CondInit, Init
<1>3. CondTypeOK
  <2>1. /\ inUse \in Events /\ told \subseteq Tasks /\ subbed \in BOOLEAN
        /\ step \in [Tasks -> {"NONE"} \cup WaitSteps \cup PostSteps]
        /\ cond \in [Tasks -> OnceEvents \cup {NULL}]
    BY DEF CondInit
  <2>2. /\ stale \in [OnceEvents -> SUBSET Tasks]
        /\ mutex \in [OnceEvents -> Tasks \cup {NULL}]
    BY DEF CondInit
  <2>3. count \in [OnceEvents -> 0..COUNT_MAX]
    BY CondAssumption DEF CondInit
  <2> QED BY <1>1, <2>1, <2>2, <2>3 DEF CondTypeOK
<1>4. \A t \in Tasks : taskStatus[t] = "RUN" /\ ~IsPending(t) /\ step[t] = "NONE"
  BY DEF CondInit, Init, IsPending
<1>5. ListOK /\ NoSatisfiedWaiter /\ UseOK
  BY <1>2, <1>4 DEF ListOK, NoSatisfiedWaiter, UseOK
<1>6. Reached
  BY DEF CondInit, Reached
<1>7. Counted
  <2>1. \A n \in PostSteps : AtStep(n) = {}
    BY <1>4 DEF AtStep, PostSteps
  <2>2. Fresh = {} /\ Asleep = {} /\ Signalling = {} /\ AtStep("SIGNAL_MODIFY") = {}
    BY <1>4, <2>1 DEF Fresh, Asleep, Signalling, PostSteps
  <2>3. inUse \in OnceEvents => count[inUse] = 0
    BY DEF CondInit
  <2>4. Cardinality({}) = 0
    BY FS_EmptySet
  <2>5. Fresh \cup Asleep = {}
    BY <2>2
  <2> QED BY <2>2, <2>3, <2>4, <2>5 DEF Counted
<1> QED BY <1>3, <1>5, <1>6, <1>7 DEF CInv

LEMMA CInvStep == CInv /\ [CondNext]_allVars => CInv'
<1> SUFFICES ASSUME CInv, [CondNext]_allVars PROVE CInv'
  OBVIOUS
<1>0. EInv /\ NoSatisfiedWaiter /\ inUse \in Events
  BY DEF CInv, CondTypeOK, EInv
<1>1. ASSUME inUse \in OnceEvents, NEW t \in Tasks, CondStep(t, inUse), UNCHANGED inUse PROVE CInv'
  <2>1. CASE MutexLock(t, inUse) \/ MutexUnlock(t, inUse)
    BY <1>1, <2>1, MutexKeeps
  <2>2. CASE CondWaitReads(t, inUse)
    BY <1>1, <2>2, WaitReadsKeeps
  <2>3. CASE CondWaitCounts(t, inUse)
    BY <1>1, <2>3, WaitCountsKeeps
  <2>4. CASE CondWaitNoTime(t, inUse)
    BY <1>1, <2>4, WaitNoTimeKeeps
  <2>5. CASE CondWaitUnlocks(t, inUse)
    BY <1>1, <2>5, WaitUnlocksKeeps
  <2>6. CASE \E timeout \in {"TICKS", "FOREVER"} : PthreadCondWaitSub(t, inUse, timeout)
    BY <1>1, <2>6, WaitSubKeeps
  <2>7. CASE CondReadReturns(t, inUse)
    BY <1>1, <2>7, ReadReturnsKeeps
  <2>8. CASE CondWaitRelocks(t, inUse)
    BY <1>1, <2>8, WaitRelocksKeeps
  <2>9. CASE PthreadCountSub(t, inUse)
    BY <1>1, <2>9, CountSubKeeps
  <2>10. CASE pthread_cond_signal(t, inUse)
    BY <1>1, <2>10, SignalKeeps
  <2>11. CASE pthread_cond_broadcast(t, inUse)
    BY <1>1, <2>11, BroadcastKeeps
  <2>12. CASE PthreadCondValueModify(t, inUse)
    BY <1>1, <2>12, ModifyKeeps
  <2>13. CASE SignalWrites(t, inUse)
    BY <1>1, <2>13, SignalWritesKeeps
  <2>14. CASE BroadcastWrites(t, inUse)
    BY <1>1, <2>14, BroadcastWritesKeeps
  <2> QED BY <1>1, <2>1, <2>2, <2>3, <2>4, <2>5, <2>6, <2>7, <2>8, <2>9, <2>10, <2>11, <2>12, <2>13, <2>14
          DEF CondStep
<1>2. ASSUME inUse \notin OnceEvents, EventStep(inUse, Tasks) \/ \E t \in Tasks : ReaderStep(t),
             UNCHANGED <<condVars, inUse>>
      PROVE  CInv'
  <2>1. EInv' /\ NoSatisfiedWaiter'
    BY <1>0, <1>2, EventStepKeeps, ReaderStepKeeps
  <2> QED BY <1>2, <2>1, NoCondKeeps
<1>3. ASSUME NEW t \in Tasks, (EventTimeout(t) /\ UNCHANGED condVars) \/ CondTaskDelete(t), UNCHANGED inUse
      PROVE  CInv'
  <2>1. /\ EInv' /\ NoSatisfiedWaiter' /\ ~IsPending(t)'
        /\ \A u \in Tasks : u # t => reading'[u] = reading[u] /\ taskStatus'[u] = taskStatus[u]
    BY <1>0, <1>3, InterruptedKeeps DEF InterruptedRead, CondTaskDelete
  <2>2. \A u \in Tasks : IsPending(u)' => IsPending(u) /\ reading'[u] = reading[u]
    BY <2>1 DEF IsPending
  <2>3. UNCHANGED <<count, stale, step, cond, told, subbed, inUse>>
    BY <1>3 DEF condVars, CondTaskDelete
  <2>4. mutex' \in [OnceEvents -> Tasks \cup {NULL}]
    BY <1>3 DEF condVars, CondTaskDelete, CInv, CondTypeOK
  <2> QED BY <2>1, <2>2, <2>3, <2>4, FewerWait
<1>4. CASE UNCHANGED allVars
  <2>1. UNCHANGED <<vars, condVars, inUse>>
    BY <1>4 DEF allVars
  <2>2. /\ EInv' /\ NoSatisfiedWaiter'
        /\ \A u \in Tasks : IsPending(u)' => IsPending(u) /\ reading'[u] = reading[u]
    BY <1>0, <2>1 DEF EInv, TypeOK, ListOK, NoSatisfiedWaiter, IsPending, vars
  <2>3. UNCHANGED <<count, stale, step, cond, told, subbed, inUse>> /\ mutex' \in [OnceEvents -> Tasks \cup {NULL}]
    BY <2>1 DEF condVars, CInv, CondTypeOK
  <2> QED BY <2>2, <2>3, FewerWait
<1> QED BY <1>1, <1>2, <1>3, <1>4 DEF CondNext

LEMMA AlwaysCInv == CondSpec => []CInv
BY CInvStarts, CInvStep, PTL DEF CondSpec

\* Every variable of events and condition variables keeps its type; in particular the count
\* never leaves 0..COUNT_MAX, although every call changes it on its own.
THEOREM TypeCorrect == CondSpec => []CondTypeOK
<1>1. CInv => CondTypeOK
  BY DEF CInv
<1> QED BY <1>1, AlwaysCInv, PTL

\* No lost wake up: whatever LOS_EventWrite, LOS_EventClear, LOS_EventDestroy, reads, timeouts
\* and deletions do, on any number of events and in any order, nobody is left in the list of
\* an event whose flags satisfy it.
THEOREM NoLostEvent == Spec => []NoSatisfiedWaiter
<1>1. Init => EInv /\ NoSatisfiedWaiter
  <2> SUFFICES ASSUME Init PROVE EInv /\ NoSatisfiedWaiter
    OBVIOUS
  <2>1. TypeOK
    BY DEF Init, TypeOK, TaskStatus
  <2>2. \A e \in Events : ToSet(stEventList[e]) = {} /\ IsInjective(stEventList[e])
    <3>1. ToSet(<<>>) = {} /\ IsInjective(<<>>)
      BY DEF ToSet, IsInjective
    <3> QED BY <3>1 DEF Init
  <2>3. \A t \in Tasks : taskStatus[t] = "RUN" /\ ~IsPending(t)
    BY DEF Init, IsPending
  <2> QED BY <2>1, <2>2, <2>3 DEF EInv, ListOK, NoSatisfiedWaiter
<1>2. EInv /\ NoSatisfiedWaiter /\ [Next]_vars => EInv' /\ NoSatisfiedWaiter'
  <2> SUFFICES ASSUME EInv, NoSatisfiedWaiter, [Next]_vars PROVE EInv' /\ NoSatisfiedWaiter'
    OBVIOUS
  <2>1. CASE \E e \in Events \ OnceEvents : EventStep(e, Tasks)
    BY <2>1, EventStepKeeps
  <2>2. CASE \E t \in Tasks : ReaderStep(t) \/ InterruptedRead(t)
    BY <2>2, ReaderStepKeeps, InterruptedKeeps
  <2>3. CASE UNCHANGED vars
    BY <2>3 DEF EInv, TypeOK, ListOK, NoSatisfiedWaiter, IsPending, vars
  <2> QED BY <2>1, <2>2, <2>3 DEF Next
<1> QED BY <1>1, <1>2, PTL DEF Spec

\* The same while condition variables are used, with the one control block that is in use.
THEOREM NoLostEventWithCond == CondSpec => []NoSatisfiedWaiter
<1>1. CInv => NoSatisfiedWaiter
  BY DEF CInv
<1> QED BY <1>1, AlwaysCInv, PTL

\* Once the pthread_cond_broadcast calls have written, no wait that one of them found still
\* sleeps: the change of the value reaches those that are between their count and their
\* read, the write those that sleep.
THEOREM BroadcastDone == CondSpec => []BroadcastReachesAll
<1>1. CInv => BroadcastReachesAll
  <2> SUFFICES ASSUME CInv, NEW c \in OnceEvents, ~Posting(c), NEW w \in told \cap Sleepers(c)
               PROVE  FALSE
    BY DEF BroadcastReachesAll
  <2>1. w \in Tasks /\ step[w] = "ASLEEP" /\ cond[w] = c /\ IsPending(w)
    BY DEF Sleepers, At
  <2>2. c = inUse
    BY <2>1 DEF CInv, UseOK
  <2>3. PICK t \in Tasks : step[t] \in {"BROADCAST_MODIFY", "BROADCAST_WRITE"}
    BY <2>1 DEF CInv, Reached, AtStep
  <2>4. cond[t] = c
    BY <2>2, <2>3 DEF CInv, UseOK
  <2> QED BY <2>3, <2>4 DEF Posting, PostSteps
<1> QED BY <1>1, AlwaysCInv, PTL

\* While no post is under way the count is not below the number of sleepers, so that
\* pthread_cond_signal and pthread_cond_broadcast do not return early while somebody waits,
\* as long as no timed wait has counted itself out.  A poster that is deleted before its
\* write stays under way.
THEOREM CountCovers == CondSpec => []NoSignalLost
<1>1. CInv => NoSignalLost
  <2> SUFFICES ASSUME CInv, ~subbed, NEW c \in OnceEvents, ~Posting(c)
               PROVE  Cardinality(Sleepers(c)) <= count[c]
    BY DEF NoSignalLost, CountCoversSleepers
  <2>0. CondTypeOK /\ UseOK /\ Counted
    BY DEF CInv
  <2>1. count[c] \in Nat
    BY <2>0 DEF CondTypeOK
  <2>2. CASE c = inUse
    <3>1. Sleepers(c) \in SUBSET (Fresh \cup Asleep)
      BY DEF Sleepers, At, Asleep
    <3>2. Cardinality(Sleepers(c)) <= Cardinality(Fresh \cup Asleep)
      BY <3>1, SetsOK, FewerTasks
    <3>3. \A n \in PostSteps : AtStep(n) = {}
      <4> SUFFICES ASSUME NEW n \in PostSteps, NEW t \in Tasks, step[t] = n PROVE FALSE
        BY DEF AtStep
      <4>1. step[t] # "NONE"
        BY DEF PostSteps
      <4>2. cond[t] = c
        BY <2>0, <2>2, <4>1 DEF UseOK
      <4> QED BY <4>2 DEF Posting
    <3>4. Signalling = {} /\ AtStep("BROADCAST_MODIFY") \cup AtStep("BROADCAST_WRITE") = {}
      BY <3>3 DEF Signalling, PostSteps
    <3>5. Cardinality(Fresh \cup Asleep) <= count[inUse] + Cardinality(Signalling)
      BY <2>0, <2>2, <3>4 DEF Counted
    <3>6. /\ Cardinality(Signalling) = 0 /\ Cardinality(Fresh \cup Asleep) \in Nat
          /\ Cardinality(Sleepers(c)) \in Nat
      BY <3>1, <3>4, SetsOK, TasksFinite, FS_EmptySet
    <3> QED BY <2>1, <2>2, <3>2, <3>5, <3>6
  <2>3. CASE c # inUse
    <3>1. Sleepers(c) = {}
      BY <2>0, <2>3 DEF Sleepers, At, UseOK
    <3>2. Cardinality(Sleepers(c)) = 0
      BY <3>1, FS_EmptySet
    <3> QED BY <2>1, <3>2
  <2> QED BY <2>2, <2>3
<1> QED BY <1>1, AlwaysCInv, PTL

=============================================================================

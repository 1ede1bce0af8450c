--------------------------- MODULE LosProcess_proofs ---------------------------
(***************************************************************************)
(* Proofs about LosProcess.  The helpers of los_process.c are functions of *)
(* the table, so their lemmas speak of any table s; the invariant of the   *)
(* table is stated with two sets of blocks that a helper leaves unfinished *)
(* for its caller: X, whose group was left, and Y, that have no family.    *)
(***************************************************************************)
EXTENDS LosProcess, LosListLemmas, FiniteSetTheorems

-----------------------------------------------------------------------------
(* The inductive invariant                                                  *)

Listed(s) == ToSet(s.free) \cup ToSet(s.recycle)
Has(s, flag, p) == flag \in s.status[p]

\* The lists hold a block once.
Lists(s) ==
    /\ IsInjective(s.free) /\ IsInjective(s.recycle)
    /\ ToSet(s.free) \cap ToSet(s.recycle) = {}

\* What the flags of a block say about the list it is in.
Flagged(s) ==
    /\ Root \notin Listed(s)
    /\ \A p \in Pids :
        /\ p \in ToSet(s.free) <=> s.status[p] = {"UNUSED"}
        /\ p \in ToSet(s.recycle) =>
               ~Has(s, "INIT", p)
        /\ p \notin Listed(s) =>
               /\ ~Has(s, "UNUSED", p)
               /\ ~Has(s, "INIT", p) \/ ~Has(s, "EXIT", p)
        /\ Has(s, "ZOMBIES", p) => p \in ToSet(s.recycle) /\ ~Has(s, "UNUSED", p)

\* Parents and children, apart from the blocks in Y.
Family(s, Y) ==
    /\ s.parent[Root] = NULL
    /\ \A p \in Pids :
        /\ s.parent[p] # p
        /\ p \notin Listed(s) \cup Y \cup {Root} => s.parent[p] \in Pids /\ p \in s.children[s.parent[p]]
        /\ \A c \in s.children[p] : s.parent[c] = p /\ c \notin Listed(s)
        /\ \A c \in ToSet(s.exitChildren[p]) : s.parent[c] = p /\ Has(s, "ZOMBIES", c)
        /\ Has(s, "ZOMBIES", p) => s.parent[p] \in Pids /\ p \in ToSet(s.exitChildren[s.parent[p]])
        /\ IsInjective(s.exitChildren[p])
        /\ p \in Listed(s) \/ Has(s, "INIT", p) => s.children[p] = {} /\ s.exitChildren[p] = <<>>

\* Groups and their members, apart from the blocks in X.
Grouped(s, X) ==
    \A p \in Pids :
        /\ s.pgroup[p] # NULL <=> (p \notin Listed(s) \/ Has(s, "ZOMBIES", p)) /\ p \notin X
        /\ \A g \in Pids :
            /\ p \in s.processes[g] <=> s.pgroup[p] = g /\ ~Has(s, "ZOMBIES", p)
            /\ p \in ToSet(s.exitProcesses[g]) <=> s.pgroup[p] = g /\ Has(s, "ZOMBIES", p)
        /\ p \in s.groups <=> \E q \in Pids : s.pgroup[q] = p
        /\ p \in s.groups <=> Has(s, "LEADER", p)

\* A block on the recycle list is a zombie, was taken by its parent, or is the rest of a fork
\* that failed and has no parent.
Relics(s) ==
    \A p \in Pids : p \in ToSet(s.recycle) =>
        Has(s, "ZOMBIES", p) \/ Has(s, "UNUSED", p) \/ s.parent[p] = NULL

TableInv(s, X, Y) ==
    s \in Tables /\ Lists(s) /\ Flagged(s) /\ Family(s, Y) /\ Grouped(s, X) /\ Relics(s)

\* The calls of the threads: only a living process has threads in one.
Calls ==
    \A t \in ThreadIds :
        /\ thread[t] # "RUN" => Proc(t) \notin Listed(table) /\ ~Has(table, "INIT", Proc(t))
        /\ thread[t] = "FORK" <=> forking[t] # NULL
        /\ thread[t] = "EXIT" => Proc(t) # Root /\ Has(table, "EXIT", Proc(t))
        /\ thread[t] = "WOKEN" => waitID[t] \in Pids \cup {INVALID}

\* A block is unfinished for the one thread that forks it.
Forks ==
    /\ \A p \in Pids : Has(table, "INIT", p) <=> \E t \in ThreadIds : forking[t] = p
    /\ \A t, u \in ThreadIds : forking[t] = forking[u] /\ forking[t] # NULL => t = u
    /\ ~Has(table, "INIT", Root)

\* The wait list of a process holds its sleeping threads, the specified waits first.
Waits ==
    \A p \in Pids :
        /\ ToSet(waitList[p]) = {t \in Threads[p] : thread[t] = "PEND"}
        /\ ComeFirst(waitList[p], {t \in ThreadIds : waitFlag[t] = "PRO"})

\* The sleeping threads wait for something.
Sleepers == \A t \in ThreadIds : thread[t] = "PEND" => waitFlag[t] \in {"PRO", "GID", "ANY"}

\* The block that OsProcessCBRecycleToFree has in its hands stays where it was.
Recycler == recycling # NULL => recycling \in ToSet(table.recycle) /\ Has(table, "EXIT", recycling)

ThreadInv == Calls /\ Forks /\ Waits /\ Sleepers /\ NoForgottenWaiter

IInv == TypeOK /\ TableInv(table, {}, {}) /\ ThreadInv /\ Recycler

-----------------------------------------------------------------------------
(* Lists                                                                    *)

LEMMA ConcatLists ==
    ASSUME NEW S, NEW s \in Seq(S), NEW t \in Seq(S)
    PROVE  /\ s \o t \in Seq(S)
           /\ ToSet(s \o t) = ToSet(s) \cup ToSet(t)
           /\ IsInjective(s) /\ IsInjective(t) /\ ToSet(s) \cap ToSet(t) = {} => IsInjective(s \o t)
<1>1. /\ s \o t \in Seq(S) /\ Len(s \o t) = Len(s) + Len(t)
      /\ Len(s) \in Nat /\ Len(t) \in Nat
  BY ConcatList
<1>2. \A i \in 1..Len(s) + Len(t) : (s \o t)[i] = IF i <= Len(s) THEN s[i] ELSE t[i - Len(s)]
  BY <1>1
<1> DEFINE r == s \o t
<1>3. /\ r \in Seq(S) /\ Len(r) = Len(s) + Len(t)
      /\ \A i \in 1..Len(s) + Len(t) : r[i] = IF i <= Len(s) THEN s[i] ELSE t[i - Len(s)]
  BY <1>1, <1>2
<1> HIDE DEF r
<1>4. ToSet(r) = ToSet(s) \cup ToSet(t)
  <2>1. ASSUME NEW e \in ToSet(r) PROVE e \in ToSet(s) \cup ToSet(t)
    <3>1. PICK i \in 1..Len(r) : r[i] = e
      BY <1>3, ToSetIn
    <3>2. CASE i <= Len(s)
      <4>1. i \in 1..Len(s) /\ s[i] = e
        BY <3>1, <3>2, <1>1, <1>3
      <4> QED BY <4>1, ToSetIn
    <3>3. CASE ~(i <= Len(s))
      <4>1. i - Len(s) \in 1..Len(t) /\ t[i - Len(s)] = e
        BY <3>1, <3>3, <1>1, <1>3
      <4> QED BY <4>1, ToSetIn
    <3> QED BY <3>2, <3>3
  <2>2. ASSUME NEW e \in ToSet(s) PROVE e \in ToSet(r)
    <3>1. PICK i \in 1..Len(s) : s[i] = e
      BY ToSetIn
    <3>2. i \in 1..Len(r) /\ r[i] = e
      BY <3>1, <1>1, <1>3
    <3> QED BY <3>2, <1>3, ToSetIn
  <2>3. ASSUME NEW e \in ToSet(t) PROVE e \in ToSet(r)
    <3>1. PICK i \in 1..Len(t) : t[i] = e
      BY ToSetIn
    <3>2. PICK j \in 1..Len(s) + Len(t) : j = i + Len(s)
      BY <3>1, <1>1
    <3>3. j \in 1..Len(r) /\ r[j] = t[i] /\ ~(j <= Len(s)) /\ j - Len(s) = i
      <4>1. ~(j <= Len(s)) /\ j - Len(s) = i
        BY <3>1, <3>2, <1>1
      <4> QED BY <4>1, <3>1, <3>2, <1>1, <1>3
    <3> QED BY <3>1, <3>3, <1>3, ToSetIn
  <2> QED BY <2>1, <2>2, <2>3
<1>5. ASSUME IsInjective(s), IsInjective(t), ToSet(s) \cap ToSet(t) = {} PROVE IsInjective(r)
  <2>1. /\ \A k, l \in 1..Len(s) : s[k] = s[l] => k = l
        /\ \A k, l \in 1..Len(t) : t[k] = t[l] => k = l
    BY <1>5 DEF IsInjective
  <2>2. \A k \in 1..Len(s), l \in 1..Len(t) : s[k] # t[l]
    BY <1>5 DEF ToSet
  <2>3. SUFFICES ASSUME NEW i \in 1..Len(r), NEW j \in 1..Len(r), r[i] = r[j], i < j PROVE FALSE
    BY <1>1, <1>3 DEF IsInjective
  <2>4. CASE j <= Len(s)
    <3>1. i \in 1..Len(s) /\ j \in 1..Len(s) /\ s[i] = s[j] /\ i # j
      BY <2>3, <2>4, <1>1, <1>3
    <3> QED BY <3>1, <2>1
  <2>5. CASE i <= Len(s) /\ ~(j <= Len(s))
    <3>1. i \in 1..Len(s) /\ j - Len(s) \in 1..Len(t) /\ s[i] = t[j - Len(s)]
      BY <2>3, <2>5, <1>1, <1>3
    <3> QED BY <3>1, <2>2
  <2>6. CASE ~(i <= Len(s))
    <3>1. /\ i - Len(s) \in 1..Len(t) /\ j - Len(s) \in 1..Len(t) /\ t[i - Len(s)] = t[j - Len(s)]
          /\ i - Len(s) # j - Len(s)
      BY <2>3, <2>6, <1>1, <1>3
    <3> QED BY <3>1, <2>1
  <2> QED BY <2>3, <2>4, <2>5, <2>6, <1>1, <1>3
<1> QED BY <1>3, <1>4, <1>5 DEF r

\* A node linked before the first one.
LEMMA PushList ==
    ASSUME NEW S, NEW s \in Seq(S), NEW e \in S
    PROVE  /\ <<e>> \o s \in Seq(S)
           /\ ToSet(<<e>> \o s) = ToSet(s) \cup {e}
           /\ IsInjective(s) /\ e \notin ToSet(s) => IsInjective(<<e>> \o s)
<1>1. <<e>> \in Seq(S) /\ ToSet(<<e>>) = {e} /\ IsInjective(<<e>>)
  BY DEF ToSet, IsInjective
<1>2. PICK a \in Seq(S) : a = <<e>>
  BY <1>1
<1>3. /\ a \o s \in Seq(S) /\ ToSet(a \o s) = ToSet(a) \cup ToSet(s)
      /\ IsInjective(a) /\ IsInjective(s) /\ ToSet(a) \cap ToSet(s) = {} => IsInjective(a \o s)
  BY ConcatLists
<1>4. ToSet(a) = {e} /\ IsInjective(a)
  BY <1>1, <1>2
<1>5. e \notin ToSet(s) => ToSet(a) \cap ToSet(s) = {}
  BY <1>4
<1>6. ToSet(a) \cup ToSet(s) = ToSet(s) \cup {e}
  BY <1>4
<1> QED BY <1>2, <1>3, <1>4, <1>5, <1>6

LEMMA WithoutOne ==
    ASSUME NEW S, NEW s \in Seq(S), NEW e
    PROVE  /\ Without(s, e) \in Seq(S)
           /\ ToSet(Without(s, e)) = ToSet(s) \ {e}
           /\ IsInjective(s) => IsInjective(Without(s, e))
BY WithoutList DEF Without

-----------------------------------------------------------------------------
(* The group of a process                                                   *)

\* The fields of a table after p has left group g, with its PCBs still where they were.
LeftFields(s, r, p, g) ==
    /\ r \in Tables
    /\ r.parent = s.parent /\ r.children = s.children /\ r.exitChildren = s.exitChildren
    /\ r.free = s.free /\ r.recycle = s.recycle
    /\ r.pgroup = [s.pgroup EXCEPT ![p] = NULL]
    /\ r.processes = [s.processes EXCEPT ![g] = @ \ {p}]
    /\ r.exitProcesses = [s.exitProcesses EXCEPT ![g] = Without(@, p)]

\* Members remain.
KeptFields(s, r, p, g) == LeftFields(s, r, p, g) /\ r.status = s.status /\ r.groups = s.groups

\* p was the last member.
ClosedFields(s, r, p, g) ==
    /\ LeftFields(s, r, p, g)
    /\ r.status = [s.status EXCEPT ![g] = @ \ {"LEADER"}]
    /\ r.groups = s.groups \ {g}

\* The PCB of the leader goes to the free list as well.
FreedFields(s, r, p, g) ==
    /\ r \in Tables
    /\ r.parent = [s.parent EXCEPT ![g] = NULL]
    /\ r.children = [s.children EXCEPT ![g] = {}]
    /\ r.exitChildren = [s.exitChildren EXCEPT ![g] = <<>>]
    /\ r.free = Append(s.free, g) /\ r.recycle = Without(s.recycle, g)
    /\ r.pgroup = [s.pgroup EXCEPT ![p] = NULL, ![g] = NULL]
    /\ r.processes = [s.processes EXCEPT ![g] = @ \ {p}]
    /\ r.exitProcesses = [s.exitProcesses EXCEPT ![g] = Without(@, p)]
    /\ r.status = [s.status EXCEPT ![g] = {"UNUSED"}]
    /\ r.groups = s.groups \ {g}

\* Nobody but p is in group g.
Alone(s, p, g) == s.processes[g] \subseteq {p} /\ ToSet(s.exitProcesses[g]) \subseteq {p}

\* OsInsertPCBToFreeList clears the PCB.
FreeFields(s, r, p) ==
    /\ r.status = [s.status EXCEPT ![p] = {"UNUSED"}] /\ r.parent = [s.parent EXCEPT ![p] = NULL]
    /\ r.pgroup = [s.pgroup EXCEPT ![p] = NULL] /\ r.children = [s.children EXCEPT ![p] = {}]
    /\ r.exitChildren = [s.exitChildren EXCEPT ![p] = <<>>] /\ r.free = Append(s.free, p)
    /\ r.recycle = s.recycle /\ r.groups = s.groups /\ r.processes = s.processes
    /\ r.exitProcesses = s.exitProcesses

LEMMA InsertPCBFields ==
    ASSUME NEW s \in Tables, NEW p \in Pids
    PROVE  OsInsertPCBToFreeList(s, p) \in Tables /\ FreeFields(s, OsInsertPCBToFreeList(s, p), p)
<1>1. {"UNUSED"} \in SUBSET Flags
  BY DEF Flags
<1>2. Append(s.free, p) \in Seq(Pids)
  BY DEF Tables
<1>3. <<>> \in Seq(Pids)
  OBVIOUS
<1>4. OsInsertPCBToFreeList(s, p) \in Tables
  BY <1>1, <1>2, <1>3 DEF Tables, OsInsertPCBToFreeList
<1>5. FreeFields(s, OsInsertPCBToFreeList(s, p), p)
  BY DEF Tables, OsInsertPCBToFreeList, FreeFields
<1> QED BY <1>4, <1>5

LEMMA ExitProcessGroupFields ==
    ASSUME NEW s \in Tables, NEW p \in Pids, NEW g \in Pids, s.pgroup[p] = g
    PROVE  LET r == ExitProcessGroup(s, p) IN
           IF ~Alone(s, p, g) THEN KeptFields(s, r, p, g)
           ELSE IF Has(s, "UNUSED", g) /\ ~Has(s, "EXIT", g) THEN FreedFields(s, r, p, g)
           ELSE ClosedFields(s, r, p, g)
<1> DEFINE left == [s EXCEPT !.processes[g] = @ \ {p}, !.exitProcesses[g] = Without(@, p),
                             !.pgroup[p] = NULL]
           closed == [left EXCEPT !.groups = @ \ {g}, !.status[g] = @ \ {"LEADER"}]
           freed == OsInsertPCBToFreeList([closed EXCEPT !.recycle = Without(@, g)], g)
           r == ExitProcessGroup(s, p)
<1>1. KeptFields(s, left, p, g)
  BY WithoutOne DEF Tables, KeptFields, LeftFields
<1>2. ClosedFields(s, closed, p, g)
  <2> HIDE DEF left
  <2>1. left \in Tables /\ KeptFields(s, left, p, g)
    BY <1>1 DEF KeptFields, LeftFields
  <2> QED BY <2>1, ZenonT(60) DEF Tables, ClosedFields, KeptFields, LeftFields
<1>3. FreedFields(s, freed, p, g)
  <2> HIDE DEF closed
  <2>1. closed \in Tables /\ ClosedFields(s, closed, p, g)
    BY <1>2 DEF ClosedFields, LeftFields
  <2> DEFINE c == [closed EXCEPT !.recycle = Without(@, g)]
  <2>2. /\ closed.recycle \in Seq(Pids) /\ Without(closed.recycle, g) \in Seq(Pids)
        /\ closed.recycle = s.recycle
    BY <2>1, WithoutOne DEF Tables, ClosedFields, LeftFields
  <2>3. /\ c \in Tables /\ c.recycle = Without(closed.recycle, g)
        /\ c.status = closed.status /\ c.parent = closed.parent /\ c.children = closed.children
        /\ c.exitChildren = closed.exitChildren /\ c.free = closed.free /\ c.pgroup = closed.pgroup
        /\ c.processes = closed.processes /\ c.exitProcesses = closed.exitProcesses
        /\ c.groups = closed.groups
    BY <2>1, <2>2 DEF Tables
  <2> HIDE DEF c
  <2>4. freed \in Tables /\ FreeFields(c, freed, g)
    BY <2>3, InsertPCBFields DEF c
  <2>6. /\ c.status = [s.status EXCEPT ![g] = @ \ {"LEADER"}]
        /\ s.status \in [Pids -> SUBSET Flags]
    BY <2>1, <2>3 DEF ClosedFields, LeftFields, Tables
  <2>7. freed.status = [s.status EXCEPT ![g] = {"UNUSED"}]
    BY <2>4, <2>6, ZenonT(60) DEF FreeFields
  <2>9. /\ c.pgroup = [s.pgroup EXCEPT ![p] = NULL] /\ s.pgroup \in [Pids -> Pids \cup {NULL}]
        /\ c.parent = s.parent /\ c.children = s.children /\ c.exitChildren = s.exitChildren
        /\ c.free = s.free /\ c.recycle = Without(s.recycle, g) /\ c.groups = s.groups \ {g}
        /\ c.processes = [s.processes EXCEPT ![g] = @ \ {p}]
        /\ c.exitProcesses = [s.exitProcesses EXCEPT ![g] = Without(@, p)]
    BY <2>1, <2>2, <2>3 DEF ClosedFields, LeftFields, Tables
  <2> HIDE DEF freed
  <2>10. freed.pgroup = [s.pgroup EXCEPT ![p] = NULL, ![g] = NULL]
    BY <2>4, <2>9 DEF FreeFields
  <2> QED BY <2>4, <2>7, <2>9, <2>10, Zenon DEF FreeFields, FreedFields
<1>4. Alone(s, p, g) <=> left.processes[g] = {} /\ left.exitProcesses[g] = <<>>
  <2>1. left.processes[g] = s.processes[g] \ {p} /\ left.exitProcesses[g] = Without(s.exitProcesses[g], p)
    BY DEF Tables
  <2>2. s.exitProcesses[g] \in Seq(Pids)
    BY DEF Tables
  <2>3. Without(s.exitProcesses[g], p) = <<>> <=> ToSet(s.exitProcesses[g]) \subseteq {p}
    BY <2>2, WithoutOne, ToSetIn
  <2> HIDE DEF left
  <2> QED BY <2>1, <2>3 DEF Alone
<1>5. OsProcessIsUnused(closed, g) /\ "EXIT" \notin closed.status[g] <=> Has(s, "UNUSED", g) /\ ~Has(s, "EXIT", g)
  <2> HIDE DEF closed
  <2> QED BY <1>2 DEF ClosedFields, OsProcessIsUnused, Has, Tables
<1>6. r = IF left.processes[g] # {} \/ left.exitProcesses[g] # <<>> THEN left
          ELSE IF OsProcessIsUnused(closed, g) /\ "EXIT" \notin closed.status[g] THEN freed ELSE closed
  BY DEF ExitProcessGroup
<1> HIDE DEF left, closed, freed, r
<1> QED BY <1>1, <1>2, <1>3, <1>4, <1>5, <1>6 DEF r

\* What p's leaving its group changes: the groups and perhaps the place of an unused PCB.
ExitEffect(s, r, p) ==
    /\ r.children = s.children /\ r.exitChildren = s.exitChildren
    /\ r.pgroup = [s.pgroup EXCEPT ![p] = NULL]
    /\ Listed(r) = Listed(s)
    /\ \A x \in Pids :
        /\ \A f \in Flags \ {"LEADER"} : Has(r, f, x) <=> Has(s, f, x)
        /\ ~Has(s, "UNUSED", x) => r.parent[x] = s.parent[x]
        /\ x \in ToSet(s.recycle) /\ (Has(s, "EXIT", x) \/ Has(s, "ZOMBIES", x)) => x \in ToSet(r.recycle)

\* The facts about the members of a group that its last member's exit rests on.
LEMMA AloneInGroup ==
    ASSUME NEW s, NEW X, s \in Tables, Grouped(s, X), NEW p \in Pids, NEW g \in Pids, s.pgroup[p] = g
    PROVE  /\ Alone(s, p, g) <=> \A q \in Pids : s.pgroup[q] = g => q = p
           /\ Has(s, "LEADER", g) /\ g \in s.groups
           /\ \A x, h \in Pids :
                LET r == [s.exitProcesses EXCEPT ![g] = Without(@, p)]
                    m == [s.processes EXCEPT ![g] = @ \ {p}]
                    l == [s.pgroup EXCEPT ![p] = NULL] IN
                /\ x \in ToSet(r[h]) <=> l[x] = h /\ Has(s, "ZOMBIES", x)
                /\ x \in m[h] <=> l[x] = h /\ ~Has(s, "ZOMBIES", x)
<1>1. /\ s.exitProcesses \in [Pids -> Seq(Pids)] /\ s.processes \in [Pids -> SUBSET Pids]
      /\ s.pgroup \in [Pids -> Pids \cup {NULL}]
      /\ s.exitProcesses[g] \in Seq(Pids)
  BY DEF Tables
<1>2. \A q \in Pids : /\ q \in s.processes[g] <=> s.pgroup[q] = g /\ ~Has(s, "ZOMBIES", q)
                      /\ q \in ToSet(s.exitProcesses[g]) <=> s.pgroup[q] = g /\ Has(s, "ZOMBIES", q)
  BY DEF Grouped
<1>3. Alone(s, p, g) <=> \A q \in Pids : s.pgroup[q] = g => q = p
  <2>1. ToSet(s.exitProcesses[g]) \subseteq Pids /\ s.processes[g] \subseteq Pids
    BY <1>1, ToSetIn
  <2> QED BY <1>2, <2>1 DEF Alone
<1>4. Has(s, "LEADER", g) /\ g \in s.groups
  BY DEF Grouped
<1>5. ASSUME NEW x \in Pids, NEW h \in Pids
      PROVE  LET r == [s.exitProcesses EXCEPT ![g] = Without(@, p)]
                 m == [s.processes EXCEPT ![g] = @ \ {p}]
                 l == [s.pgroup EXCEPT ![p] = NULL] IN
             /\ x \in ToSet(r[h]) <=> l[x] = h /\ Has(s, "ZOMBIES", x)
             /\ x \in m[h] <=> l[x] = h /\ ~Has(s, "ZOMBIES", x)
  <2>1. /\ x \in s.processes[h] <=> s.pgroup[x] = h /\ ~Has(s, "ZOMBIES", x)
        /\ x \in ToSet(s.exitProcesses[h]) <=> s.pgroup[x] = h /\ Has(s, "ZOMBIES", x)
    BY DEF Grouped
  <2>2. ToSet(Without(s.exitProcesses[g], p)) = ToSet(s.exitProcesses[g]) \ {p}
    BY <1>1, WithoutOne
  <2>3. NULL \notin Pids
    BY ProcessAssumption
  <2> QED BY <1>1, <2>1, <2>2, <2>3
<1> QED BY <1>3, <1>4, <1>5

LEMMA ExitProcessGroupKeeps ==
    ASSUME NEW s, NEW Y, TableInv(s, {}, Y), NEW p \in Pids, s.pgroup[p] # NULL
    PROVE  /\ TableInv(ExitProcessGroup(s, p), {p}, Y)
           /\ ExitEffect(s, ExitProcessGroup(s, p), p)
<1> DEFINE r == ExitProcessGroup(s, p)
<1>1. s \in Tables /\ Lists(s) /\ Flagged(s) /\ Family(s, Y) /\ Grouped(s, {})
  BY DEF TableInv
<1>2. PICK g \in Pids : s.pgroup[p] = g
  BY <1>1 DEF Tables
<1>3. /\ s.status \in [Pids -> SUBSET Flags] /\ s.parent \in [Pids -> Pids \cup {NULL}]
      /\ s.children \in [Pids -> SUBSET Pids] /\ s.exitChildren \in [Pids -> Seq(Pids)]
      /\ s.pgroup \in [Pids -> Pids \cup {NULL}] /\ s.groups \in SUBSET Pids
      /\ s.free \in Seq(Pids) /\ s.recycle \in Seq(Pids)
  BY <1>1 DEF Tables
<1>4. NULL \notin Pids
  BY ProcessAssumption
<1>5. \/ KeptFields(s, r, p, g) /\ ~Alone(s, p, g)
      \/ ClosedFields(s, r, p, g) /\ Alone(s, p, g) /\ ~(Has(s, "UNUSED", g) /\ ~Has(s, "EXIT", g))
      \/ FreedFields(s, r, p, g) /\ Alone(s, p, g) /\ Has(s, "UNUSED", g) /\ ~Has(s, "EXIT", g)
  BY <1>1, <1>2, ExitProcessGroupFields
<1>6. /\ Alone(s, p, g) <=> \A q \in Pids : s.pgroup[q] = g => q = p
      /\ Has(s, "LEADER", g) /\ g \in s.groups
      /\ \A x, h \in Pids :
            LET e == [s.exitProcesses EXCEPT ![g] = Without(@, p)]
                m == [s.processes EXCEPT ![g] = @ \ {p}]
                l == [s.pgroup EXCEPT ![p] = NULL] IN
            /\ x \in ToSet(e[h]) <=> l[x] = h /\ Has(s, "ZOMBIES", x)
            /\ x \in m[h] <=> l[x] = h /\ ~Has(s, "ZOMBIES", x)
  BY <1>1, <1>2, AloneInGroup
<1>7. ~Has(s, "UNUSED", p)
  BY <1>1, <1>3 DEF Grouped, Flagged, Listed, Has
<1> HIDE DEF r
<1>8. CASE KeptFields(s, r, p, g) /\ ~Alone(s, p, g)
  <2>1. Lists(r) /\ Flagged(r) /\ Family(r, Y)
    BY <1>1, <1>8 DEF KeptFields, LeftFields, Lists, Flagged, Family, Listed, Has
  <2>2. Grouped(r, {p})
    <3>1. SUFFICES ASSUME NEW x \in Pids
                   PROVE  /\ r.pgroup[x] # NULL <=> (x \notin Listed(r) \/ Has(r, "ZOMBIES", x)) /\ x \notin {p}
                          /\ \A h \in Pids :
                               /\ x \in r.processes[h] <=> r.pgroup[x] = h /\ ~Has(r, "ZOMBIES", x)
                               /\ x \in ToSet(r.exitProcesses[h]) <=> r.pgroup[x] = h /\ Has(r, "ZOMBIES", x)
                          /\ x \in r.groups <=> \E q \in Pids : r.pgroup[q] = x
                          /\ x \in r.groups <=> Has(r, "LEADER", x)
      BY DEF Grouped
    <3>2. Listed(r) = Listed(s) /\ \A f : Has(r, f, x) <=> Has(s, f, x)
      BY <1>8 DEF KeptFields, LeftFields, Listed, Has
    <3>3. r.pgroup[x] # NULL <=> (x \notin Listed(r) \/ Has(r, "ZOMBIES", x)) /\ x \notin {p}
      BY <1>1, <1>3, <1>8, <3>2 DEF KeptFields, LeftFields, Grouped
    <3>4. x \in r.groups <=> Has(r, "LEADER", x)
      BY <1>1, <1>8, <3>2 DEF KeptFields, LeftFields, Grouped
    <3>5. x \in r.groups <=> \E q \in Pids : r.pgroup[q] = x
      BY <1>1, <1>2, <1>3, <1>4, <1>6, <1>8, <3>2 DEF KeptFields, LeftFields, Grouped
    <3> QED BY <1>6, <1>8, <3>2, <3>3, <3>4, <3>5 DEF KeptFields, LeftFields
  <2>3. ExitEffect(s, r, p)
    BY <1>8 DEF KeptFields, LeftFields, ExitEffect, Listed, Has
  <2>4. Relics(r)
    BY <1>8 DEF TableInv, Relics, KeptFields, LeftFields, Has
  <2> QED BY <1>8, <2>1, <2>2, <2>3, <2>4 DEF KeptFields, LeftFields, TableInv, r
<1>9. CASE ClosedFields(s, r, p, g) /\ Alone(s, p, g) /\ ~(Has(s, "UNUSED", g) /\ ~Has(s, "EXIT", g))
  <2>0. /\ Listed(r) = Listed(s)
        /\ \A x \in Pids : /\ \A f \in Flags \ {"LEADER"} : Has(r, f, x) <=> Has(s, f, x)
                           /\ Has(r, "LEADER", x) <=> Has(s, "LEADER", x) /\ x # g
    BY <1>3, <1>9 DEF ClosedFields, LeftFields, Listed, Has
  <2>1. Lists(r) /\ Family(r, Y)
    BY <1>1, <1>9, <2>0 DEF ClosedFields, LeftFields, Lists, Family, Listed, Has, Flags
  <2>2. Flagged(r)
    <3>1. \A x \in Pids : x # g => r.status[x] = s.status[x]
      BY <1>3, <1>9 DEF ClosedFields
    <3>2. g \notin ToSet(s.free) /\ r.status[g] # {"UNUSED"}
      <4>1. s.status[g] # {"UNUSED"}
        BY <1>6 DEF Has
      <4>2. ~Has(r, "UNUSED", g) \/ Has(r, "EXIT", g)
        BY <1>9, <2>0 DEF Flags
      <4> QED BY <1>1, <4>1, <4>2 DEF Flagged, Has
    <3>3. ASSUME NEW x \in Pids
          PROVE /\ x \in ToSet(r.recycle) =>
                     /\ ~Has(r, "INIT", x)
                /\ x \notin Listed(r) =>
                     /\ ~Has(r, "UNUSED", x)
                     /\ ~Has(r, "INIT", x) \/ ~Has(r, "EXIT", x)
                /\ Has(r, "ZOMBIES", x) => x \in ToSet(r.recycle) /\ ~Has(r, "UNUSED", x)
      BY <1>1, <1>9, <2>0 DEF Flagged, ClosedFields, LeftFields, Flags
    <3>4. ASSUME NEW x \in Pids PROVE x \in ToSet(r.free) <=> r.status[x] = {"UNUSED"}
      BY <1>1, <1>9, <3>1, <3>2 DEF Flagged, ClosedFields, LeftFields
    <3> QED BY <1>1, <2>0, <3>3, <3>4 DEF Flagged
  <2>3. Grouped(r, {p})
    <3>1. SUFFICES ASSUME NEW x \in Pids
                   PROVE  /\ r.pgroup[x] # NULL <=> (x \notin Listed(r) \/ Has(r, "ZOMBIES", x)) /\ x \notin {p}
                          /\ \A h \in Pids :
                               /\ x \in r.processes[h] <=> r.pgroup[x] = h /\ ~Has(r, "ZOMBIES", x)
                               /\ x \in ToSet(r.exitProcesses[h]) <=> r.pgroup[x] = h /\ Has(r, "ZOMBIES", x)
                          /\ x \in r.groups <=> \E q \in Pids : r.pgroup[q] = x
                          /\ x \in r.groups <=> Has(r, "LEADER", x)
      BY DEF Grouped
    <3>2. Has(r, "ZOMBIES", x) <=> Has(s, "ZOMBIES", x)
      BY <2>0 DEF Flags
    <3>3. r.pgroup[x] # NULL <=> (x \notin Listed(r) \/ Has(r, "ZOMBIES", x)) /\ x \notin {p}
      BY <1>1, <1>3, <1>9, <2>0, <3>2 DEF ClosedFields, LeftFields, Grouped
    <3>4. x \in r.groups <=> Has(r, "LEADER", x)
      BY <1>1, <1>9, <2>0 DEF ClosedFields, LeftFields, Grouped
    <3>5. x \in r.groups <=> \E q \in Pids : r.pgroup[q] = x
      BY <1>1, <1>2, <1>3, <1>4, <1>6, <1>9 DEF ClosedFields, LeftFields, Grouped
    <3> QED BY <1>6, <1>9, <3>2, <3>3, <3>4, <3>5 DEF ClosedFields, LeftFields
  <2>4. ExitEffect(s, r, p)
    BY <1>9, <2>0 DEF ClosedFields, LeftFields, ExitEffect
  <2>5. Relics(r)
    <3>1. \A x \in Pids : /\ Has(r, "ZOMBIES", x) <=> Has(s, "ZOMBIES", x)
                          /\ Has(r, "UNUSED", x) <=> Has(s, "UNUSED", x)
      BY <2>0 DEF Flags
    <3> QED BY <1>9, <3>1 DEF TableInv, Relics, ClosedFields, LeftFields
  <2> QED BY <1>9, <2>1, <2>2, <2>3, <2>4, <2>5 DEF ClosedFields, LeftFields, TableInv, r
<1>10. CASE FreedFields(s, r, p, g) /\ Alone(s, p, g) /\ Has(s, "UNUSED", g) /\ ~Has(s, "EXIT", g)
  <2>0. /\ g # p /\ g \in ToSet(s.recycle) /\ g \notin ToSet(s.free)
        /\ ~Has(s, "ZOMBIES", g) /\ ~Has(s, "INIT", g) /\ s.pgroup[g] = NULL
        /\ s.children[g] = {} /\ s.exitChildren[g] = <<>>
    <3>1. s.status[g] # {"UNUSED"}
      BY <1>6 DEF Has
    <3>2. g \in ToSet(s.recycle) /\ g \notin ToSet(s.free)
      BY <1>1, <1>10, <3>1 DEF Flagged, Listed
    <3>3. ~Has(s, "ZOMBIES", g) /\ ~Has(s, "INIT", g)
      BY <1>1, <1>10, <3>2 DEF Flagged
    <3> QED BY <1>1, <1>7, <1>10, <3>2, <3>3 DEF Grouped, Family, Listed
  <2>1. /\ ToSet(r.free) = ToSet(s.free) \cup {g} /\ IsInjective(r.free)
        /\ ToSet(r.recycle) = ToSet(s.recycle) \ {g} /\ IsInjective(r.recycle)
    BY <1>1, <1>3, <1>10, <2>0, AppendList, WithoutOne, SMTT(40) DEF FreedFields, Lists
  <2>2. Lists(r) /\ Listed(r) = Listed(s)
    BY <1>1, <2>0, <2>1 DEF Lists, Listed
  <2>3. r.children = s.children /\ r.exitChildren = s.exitChildren
    <3>1. r.children = [s.children EXCEPT ![g] = {}] /\ r.exitChildren = [s.exitChildren EXCEPT ![g] = <<>>]
      BY <1>10 DEF FreedFields
    <3>2. r.children \in [Pids -> SUBSET Pids] /\ r.exitChildren \in [Pids -> Seq(Pids)]
      BY <1>10 DEF FreedFields, Tables
    <3>3. \A x \in Pids : r.children[x] = s.children[x] /\ r.exitChildren[x] = s.exitChildren[x]
      BY <1>3, <2>0, <3>1
    <3> QED BY <1>3, <3>2, <3>3
  <2>4. r.pgroup = [s.pgroup EXCEPT ![p] = NULL]
    BY <1>3, <1>10, <2>0, ZenonT(60) DEF FreedFields
  <2>5. /\ \A x \in Pids : x # g => r.status[x] = s.status[x] /\ r.parent[x] = s.parent[x]
        /\ r.status[g] = {"UNUSED"} /\ r.parent[g] = NULL
    BY <1>3, <1>10 DEF FreedFields
  <2>6. \A x \in Pids : /\ \A f \in Flags \ {"LEADER"} : Has(r, f, x) <=> Has(s, f, x)
                        /\ Has(r, "LEADER", x) <=> Has(s, "LEADER", x) /\ x # g
    BY <1>10, <2>0, <2>5 DEF Has, Flags
  <2>7. Flagged(r)
    <3>1. ASSUME NEW x \in Pids, x # g
          PROVE /\ x \in ToSet(r.free) <=> r.status[x] = {"UNUSED"}
                /\ x \in ToSet(r.recycle) =>
                     /\ ~Has(r, "INIT", x)
                /\ x \notin Listed(r) =>
                     /\ ~Has(r, "UNUSED", x)
                     /\ ~Has(r, "INIT", x) \/ ~Has(r, "EXIT", x)
                /\ Has(r, "ZOMBIES", x) => x \in ToSet(r.recycle) /\ ~Has(r, "UNUSED", x)
      BY <1>1, <2>1, <2>2, <2>5, <3>1 DEF Flagged, Has
    <3>2. /\ g \in ToSet(r.free) /\ g \notin ToSet(r.recycle) /\ r.status[g] = {"UNUSED"}
          /\ ~Has(r, "ZOMBIES", g) /\ g \in Listed(r)
      BY <2>1, <2>5 DEF Has, Listed
    <3> QED BY <1>1, <2>2, <3>1, <3>2 DEF Flagged
  <2>8. Family(r, Y)
    <3>1. /\ g # Root /\ \A x \in Pids : g \notin s.children[x] /\ g \notin ToSet(s.exitChildren[x])
      BY <1>1, <2>0 DEF Flagged, Family, Listed
    <3>2. \A x \in Pids : /\ Has(r, "ZOMBIES", x) <=> Has(s, "ZOMBIES", x)
                          /\ Has(r, "INIT", x) <=> Has(s, "INIT", x)
      BY <2>6 DEF Flags
    <3>3. ASSUME NEW x \in Pids
          PROVE /\ r.parent[x] # x
                /\ x \notin Listed(r) \cup Y \cup {Root} => r.parent[x] \in Pids /\ x \in r.children[r.parent[x]]
                /\ \A c \in r.children[x] : r.parent[c] = x /\ c \notin Listed(r)
                /\ \A c \in ToSet(r.exitChildren[x]) : r.parent[c] = x /\ Has(r, "ZOMBIES", c)
                /\ Has(r, "ZOMBIES", x) => r.parent[x] \in Pids /\ x \in ToSet(r.exitChildren[r.parent[x]])
                /\ IsInjective(r.exitChildren[x])
                /\ x \in Listed(r) \/ Has(r, "INIT", x) => r.children[x] = {} /\ r.exitChildren[x] = <<>>
      <4>1. s.exitChildren[x] \in Seq(Pids) /\ ToSet(s.exitChildren[x]) \subseteq Pids /\ s.children[x] \subseteq Pids
        BY <1>3, ToSetIn
      <4>2. g \in Listed(s)
        BY <2>0 DEF Listed
      <4> QED BY <1>1, <1>4, <2>0, <2>2, <2>3, <2>5, <3>1, <3>2, <4>1, <4>2 DEF Family
    <3>4. r.parent[Root] = NULL
      BY <1>1, <2>5, <3>1, ProcessAssumption DEF Family
    <3> QED BY <3>3, <3>4 DEF Family
  <2>9. Grouped(r, {p})
    <3>1. SUFFICES ASSUME NEW x \in Pids
                   PROVE  /\ r.pgroup[x] # NULL <=> (x \notin Listed(r) \/ Has(r, "ZOMBIES", x)) /\ x \notin {p}
                          /\ \A h \in Pids :
                               /\ x \in r.processes[h] <=> r.pgroup[x] = h /\ ~Has(r, "ZOMBIES", x)
                               /\ x \in ToSet(r.exitProcesses[h]) <=> r.pgroup[x] = h /\ Has(r, "ZOMBIES", x)
                          /\ x \in r.groups <=> \E q \in Pids : r.pgroup[q] = x
                          /\ x \in r.groups <=> Has(r, "LEADER", x)
      BY DEF Grouped
    <3>2. Has(r, "ZOMBIES", x) <=> Has(s, "ZOMBIES", x)
      BY <2>6 DEF Flags
    <3>3. r.pgroup[x] # NULL <=> (x \notin Listed(r) \/ Has(r, "ZOMBIES", x)) /\ x \notin {p}
      BY <1>1, <1>3, <2>2, <2>4, <3>2 DEF Grouped
    <3>4. x \in r.groups <=> Has(r, "LEADER", x)
      BY <1>1, <1>10, <2>6 DEF FreedFields, Grouped
    <3>5. x \in r.groups <=> \E q \in Pids : r.pgroup[q] = x
      <4>1. r.groups = s.groups \ {g}
        BY <1>10 DEF FreedFields
      <4>2. \A q \in Pids : r.pgroup[q] = IF q = p THEN NULL ELSE s.pgroup[q]
        BY <1>3, <2>4
      <4>3. x \in s.groups <=> \E q \in Pids : s.pgroup[q] = x
        BY <1>1 DEF Grouped
      <4> QED BY <1>2, <1>4, <1>6, <1>10, <4>1, <4>2, <4>3
    <3>6. /\ r.processes = [s.processes EXCEPT ![g] = @ \ {p}]
          /\ r.exitProcesses = [s.exitProcesses EXCEPT ![g] = Without(@, p)]
      BY <1>10 DEF FreedFields
    <3> QED BY <1>6, <2>4, <3>2, <3>3, <3>4, <3>5, <3>6
  <2>10. ExitEffect(s, r, p)
    <3>1. \A x \in Pids : ~Has(s, "UNUSED", x) => r.parent[x] = s.parent[x]
      BY <1>10, <2>5
    <3>2. \A x \in Pids : x \in ToSet(s.recycle) /\ (Has(s, "EXIT", x) \/ Has(s, "ZOMBIES", x)) => x \in ToSet(r.recycle)
      BY <1>10, <2>0, <2>1
    <3> QED BY <2>2, <2>3, <2>4, <2>6, <3>1, <3>2 DEF ExitEffect
  <2>11. Relics(r)
    <3>1. ASSUME NEW x \in Pids, x \in ToSet(r.recycle)
          PROVE  Has(r, "ZOMBIES", x) \/ Has(r, "UNUSED", x) \/ r.parent[x] = NULL
      <4>1. x # g /\ x \in ToSet(s.recycle) /\ r.status[x] = s.status[x] /\ r.parent[x] = s.parent[x]
        BY <2>1, <2>5, <3>1
      <4> QED BY <4>1 DEF TableInv, Relics, Has
    <3> QED BY <3>1 DEF Relics
  <2> QED BY <1>10, <2>2, <2>7, <2>8, <2>9, <2>10, <2>11 DEF FreedFields, TableInv, r
<1> QED BY <1>5, <1>8, <1>9, <1>10

-----------------------------------------------------------------------------
(* A zombie is taken                                                        *)

\* What may happen to the table while nobody is forked, reparented or killed.
Calm(s, r) ==
    /\ r.children = s.children
    /\ Listed(r) = Listed(s)
    /\ \A x \in Pids :
        /\ Has(r, "INIT", x) <=> Has(s, "INIT", x)
        /\ ToSet(r.exitChildren[x]) \subseteq ToSet(s.exitChildren[x])
        /\ x \notin Listed(s) => r.parent[x] = s.parent[x] /\ (Has(r, "EXIT", x) <=> Has(s, "EXIT", x))
        /\ Has(r, "ZOMBIES", x) => Has(s, "ZOMBIES", x) /\ r.pgroup[x] = s.pgroup[x]
        /\ x \in ToSet(s.recycle) /\ Has(s, "EXIT", x) => x \in ToSet(r.recycle) /\ Has(r, "EXIT", x)

\* The exited children without c.
ChildTaken(s, r, c) ==
    \A x \in Pids : /\ ToSet(r.exitChildren[x]) = ToSet(s.exitChildren[x]) \ {c}
                    /\ IsInjective(r.exitChildren[x])

\* c is unused and stays on the recycle list.
TakenFields(s, r, c) ==
    /\ r \in Tables
    /\ r.status = [s.status EXCEPT ![c] = (@ \ {"ZOMBIES"}) \cup {"UNUSED"}]
    /\ r.parent = s.parent /\ r.children = s.children
    /\ r.pgroup = s.pgroup /\ r.groups = s.groups
    /\ r.processes = s.processes /\ r.exitProcesses = s.exitProcesses
    /\ r.free = s.free
    /\ ToSet(r.recycle) = ToSet(s.recycle) /\ IsInjective(r.recycle)
    /\ ChildTaken(s, r, c)

\* c goes to the free list.
TakenFreeFields(s, r, c) ==
    /\ r \in Tables
    /\ r.status = [s.status EXCEPT ![c] = {"UNUSED"}]
    /\ r.parent = [s.parent EXCEPT ![c] = NULL] /\ r.children = s.children
    /\ r.pgroup = s.pgroup /\ r.groups = s.groups
    /\ r.processes = s.processes /\ r.exitProcesses = s.exitProcesses
    /\ r.free = Append(s.free, c)
    /\ ToSet(r.recycle) = ToSet(s.recycle) \ {c} /\ IsInjective(r.recycle)
    /\ ChildTaken(s, r, c)

LEMMA RecycleZombiesFields ==
    ASSUME NEW s, NEW c \in Pids, TableInv(s, {}, {}), Has(s, "ZOMBIES", c)
    PROVE  LET l == ExitProcessGroup(s, c)
               r == OsRecycleZombiesProcess(s, c)
           IN  IF Has(l, "EXIT", c) \/ Has(l, "LEADER", c) THEN TakenFields(l, r, c) ELSE TakenFreeFields(l, r, c)
<1> DEFINE l == ExitProcessGroup(s, c)
           r == OsRecycleZombiesProcess(s, c)
<1>1. s.pgroup[c] # NULL
  BY DEF TableInv, Grouped
<1>2. TableInv(l, {c}, {}) /\ ExitEffect(s, l, c)
  BY <1>1, ExitProcessGroupKeeps
<1> DEFINE out == [l EXCEPT !.children = [p \in Pids |-> @[p] \ {c}],
                            !.exitChildren = [p \in Pids |-> Without(@[p], c)],
                            !.status[c] = IF OsProcessIsDead(l, c)
                                          THEN (@ \ {"ZOMBIES"}) \cup {"UNUSED"} ELSE @,
                            !.recycle = Without(@, c)]
<1>3. r = IF "EXIT" \in out.status[c] THEN [out EXCEPT !.recycle = <<c>> \o @]
          ELSE IF OsProcessIsPGroupLeader(out, c) THEN [out EXCEPT !.recycle = Append(@, c)]
          ELSE OsInsertPCBToFreeList(out, c)
  BY DEF OsRecycleZombiesProcess
<1> HIDE DEF l, r
<1>4. /\ l \in Tables /\ Lists(l) /\ Flagged(l) /\ Family(l, {}) /\ Grouped(l, {c})
      /\ OsProcessIsDead(l, c) /\ Has(l, "ZOMBIES", c) /\ c \in ToSet(l.recycle)
  BY <1>2 DEF TableInv, ExitEffect, OsProcessIsDead, Has, Flags, Flagged
<1>5. /\ l.recycle \in Seq(Pids) /\ l.free \in Seq(Pids) /\ l.children \in [Pids -> SUBSET Pids]
      /\ l.exitChildren \in [Pids -> Seq(Pids)] /\ l.status \in [Pids -> SUBSET Flags]
      /\ l.parent \in [Pids -> Pids \cup {NULL}] /\ l.pgroup \in [Pids -> Pids \cup {NULL}]
  BY <1>4 DEF Tables
<1>6. /\ Without(l.recycle, c) \in Seq(Pids) /\ ToSet(Without(l.recycle, c)) = ToSet(l.recycle) \ {c}
      /\ IsInjective(Without(l.recycle, c))
      /\ \A p \in Pids : /\ Without(l.exitChildren[p], c) \in Seq(Pids)
                         /\ ToSet(Without(l.exitChildren[p], c)) = ToSet(l.exitChildren[p]) \ {c}
                         /\ IsInjective(Without(l.exitChildren[p], c))
  BY <1>4, <1>5, WithoutOne DEF Lists, Family
<1>7. \A p \in Pids : l.children[p] \ {c} = l.children[p]
  BY <1>4, <1>5 DEF Family, Listed
<1>8. /\ out \in Tables
      /\ out.status = [l.status EXCEPT ![c] = (@ \ {"ZOMBIES"}) \cup {"UNUSED"}]
      /\ out.children = [p \in Pids |-> l.children[p] \ {c}]
      /\ out.exitChildren = [p \in Pids |-> Without(l.exitChildren[p], c)]
      /\ out.recycle = Without(l.recycle, c)
      /\ out.parent = l.parent /\ out.pgroup = l.pgroup /\ out.groups = l.groups
      /\ out.processes = l.processes /\ out.exitProcesses = l.exitProcesses /\ out.free = l.free
  <2>1. \A p \in Pids : l.children[p] \ {c} \in SUBSET Pids
    BY <1>5
  <2>2. (l.status[c] \ {"ZOMBIES"}) \cup {"UNUSED"} \in SUBSET Flags
    BY <1>5 DEF Flags
  <2> QED BY <1>4, <1>5, <1>6, <2>1, <2>2 DEF Tables
<1> HIDE DEF out
<1>9. /\ out.children = l.children
      /\ out.status[c] = (l.status[c] \ {"ZOMBIES"}) \cup {"UNUSED"}
      /\ ChildTaken(l, out, c)
      /\ \A x \in Pids : x # c => out.status[x] = l.status[x]
  <2>1. out.children = l.children
    <3>1. out.children = [p \in Pids |-> l.children[p]]
      BY <1>7, <1>8
    <3> QED BY <1>5, <3>1
  <2>2. out.status[c] = (l.status[c] \ {"ZOMBIES"}) \cup {"UNUSED"} /\ \A x \in Pids : x # c => out.status[x] = l.status[x]
    BY <1>5, <1>8
  <2>3. ChildTaken(l, out, c)
    BY <1>6, <1>8 DEF ChildTaken
  <2> QED BY <2>1, <2>2, <2>3
<1>10. (Has(l, "EXIT", c) <=> "EXIT" \in out.status[c]) /\ (Has(l, "LEADER", c) <=> OsProcessIsPGroupLeader(out, c))
  BY <1>9 DEF Has, OsProcessIsPGroupLeader
<1>11. ASSUME NEW q \in Seq(Pids), ToSet(q) = ToSet(l.recycle), IsInjective(q)
       PROVE  TakenFields(l, [out EXCEPT !.recycle = q], c)
  <2> DEFINE o == [out EXCEPT !.recycle = q]
  <2>1. /\ o \in Tables /\ o.recycle = q /\ o.status = out.status /\ o.parent = out.parent
        /\ o.children = out.children /\ o.exitChildren = out.exitChildren /\ o.pgroup = out.pgroup
        /\ o.groups = out.groups /\ o.processes = out.processes /\ o.exitProcesses = out.exitProcesses
        /\ o.free = out.free
    BY <1>8 DEF Tables
  <2> HIDE DEF o
  <2>2. TakenFields(l, o, c)
    BY <1>8, <1>9, <1>11, <2>1 DEF TakenFields, ChildTaken
  <2> QED BY <2>2 DEF o
<1>12. CASE Has(l, "EXIT", c)
  <2>1. /\ <<c>> \o out.recycle \in Seq(Pids) /\ ToSet(<<c>> \o out.recycle) = ToSet(l.recycle)
        /\ IsInjective(<<c>> \o out.recycle)
    <3>1. /\ <<c>> \o Without(l.recycle, c) \in Seq(Pids)
          /\ ToSet(<<c>> \o Without(l.recycle, c)) = ToSet(Without(l.recycle, c)) \cup {c}
          /\ IsInjective(<<c>> \o Without(l.recycle, c))
      BY <1>6, PushList
    <3>2. ToSet(Without(l.recycle, c)) \cup {c} = ToSet(l.recycle)
      BY <1>4, <1>6
    <3> QED BY <3>1, <3>2, <1>8
  <2>2. r = [out EXCEPT !.recycle = <<c>> \o out.recycle]
    BY <1>3, <1>10, <1>12
  <2> QED BY <1>11, <1>12, <2>1, <2>2 DEF l, r
<1>13. CASE ~Has(l, "EXIT", c) /\ Has(l, "LEADER", c)
  <2>1. /\ Append(out.recycle, c) \in Seq(Pids) /\ ToSet(Append(out.recycle, c)) = ToSet(l.recycle)
        /\ IsInjective(Append(out.recycle, c))
    <3>1. /\ Append(Without(l.recycle, c), c) \in Seq(Pids)
          /\ ToSet(Append(Without(l.recycle, c), c)) = ToSet(Without(l.recycle, c)) \cup {c}
          /\ IsInjective(Append(Without(l.recycle, c), c))
      BY <1>6, AppendList
    <3>2. ToSet(Without(l.recycle, c)) \cup {c} = ToSet(l.recycle)
      BY <1>4, <1>6
    <3> QED BY <3>1, <3>2, <1>8
  <2>2. r = [out EXCEPT !.recycle = Append(out.recycle, c)]
    BY <1>3, <1>10, <1>13
  <2> QED BY <1>11, <1>13, <2>1, <2>2 DEF l, r
<1>14. CASE ~Has(l, "EXIT", c) /\ ~Has(l, "LEADER", c)
  <2>1. r \in Tables /\ FreeFields(out, r, c)
    BY <1>3, <1>8, <1>10, <1>14, InsertPCBFields
  <2>2. r.status = [l.status EXCEPT ![c] = {"UNUSED"}]
    <3>1. r.status = [out.status EXCEPT ![c] = {"UNUSED"}]
      BY <2>1 DEF FreeFields
    <3>2. out.status = [l.status EXCEPT ![c] = (@ \ {"ZOMBIES"}) \cup {"UNUSED"}]
      BY <1>8
    <3> QED BY <1>5, <3>1, <3>2
  <2>3. l.children[c] = {} /\ l.exitChildren[c] = <<>> /\ l.pgroup[c] = NULL
    BY <1>4 DEF Family, Listed, Grouped
  <2>4. r.children = l.children
    <3>1. r.children = [l.children EXCEPT ![c] = {}]
      BY <1>9, <2>1 DEF FreeFields
    <3> QED BY <1>5, <2>3, <3>1
  <2>5. r.pgroup = l.pgroup
    <3>1. r.pgroup = [l.pgroup EXCEPT ![c] = NULL]
      BY <1>8, <2>1 DEF FreeFields
    <3> QED BY <1>5, <2>3, <3>1
  <2>6. ChildTaken(l, r, c)
    <3>1. r.exitChildren = [out.exitChildren EXCEPT ![c] = <<>>]
      BY <2>1 DEF FreeFields
    <3>2. \A x \in Pids : r.exitChildren[x] = IF x = c THEN <<>> ELSE out.exitChildren[x]
      BY <3>1, <1>8
    <3>3. <<>> \in Seq(Pids) /\ ToSet(<<>>) = {} /\ IsInjective(<<>>)
      BY DEF ToSet, IsInjective
    <3> QED BY <1>9, <2>3, <3>2, <3>3 DEF ChildTaken
  <2>7. TakenFreeFields(l, r, c)
    <3>1. /\ r.parent = [l.parent EXCEPT ![c] = NULL] /\ r.groups = l.groups
          /\ r.processes = l.processes /\ r.exitProcesses = l.exitProcesses
          /\ r.free = Append(l.free, c) /\ r.recycle = Without(l.recycle, c)
      BY <1>8, <2>1 DEF FreeFields
    <3> QED BY <1>6, <2>1, <2>2, <2>4, <2>5, <2>6, <3>1 DEF TakenFreeFields
  <2> QED BY <1>14, <2>7 DEF l, r
<1> QED BY <1>12, <1>13, <1>14 DEF l, r

LEMMA TakenKeeps ==
    ASSUME NEW s, NEW r, NEW c \in Pids, TableInv(s, {c}, {}), Has(s, "ZOMBIES", c),
           \/ TakenFields(s, r, c) /\ (Has(s, "EXIT", c) \/ Has(s, "LEADER", c))
           \/ TakenFreeFields(s, r, c) /\ ~Has(s, "EXIT", c) /\ ~Has(s, "LEADER", c)
    PROVE  /\ TableInv(r, {}, {}) /\ Listed(r) = Listed(s)
           /\ ~Has(r, "ZOMBIES", c)
           /\ \A x \in Pids : x # c => r.status[x] = s.status[x] /\ r.parent[x] = s.parent[x]
           /\ \A x \in Pids : Has(s, "EXIT", x) => Has(r, "EXIT", x) /\ (x \in ToSet(s.recycle) => x \in ToSet(r.recycle))
           /\ Has(r, "INIT", c) <=> Has(s, "INIT", c)
<1>1. s \in Tables /\ Lists(s) /\ Flagged(s) /\ Family(s, {}) /\ Grouped(s, {c})
  BY DEF TableInv
<1>2. /\ s.status \in [Pids -> SUBSET Flags] /\ s.parent \in [Pids -> Pids \cup {NULL}]
      /\ s.children \in [Pids -> SUBSET Pids] /\ s.exitChildren \in [Pids -> Seq(Pids)]
      /\ s.pgroup \in [Pids -> Pids \cup {NULL}]
      /\ s.free \in Seq(Pids) /\ s.recycle \in Seq(Pids)
  BY <1>1 DEF Tables
<1>3. /\ c \in ToSet(s.recycle) /\ c \notin ToSet(s.free) /\ c \in Listed(s) /\ c # Root
      /\ ~Has(s, "UNUSED", c) /\ ~Has(s, "INIT", c) /\ s.pgroup[c] = NULL
      /\ s.children[c] = {} /\ s.exitChildren[c] = <<>>
  BY <1>1 DEF Flagged, Grouped, Family, Listed, Lists
<1>4. /\ r \in Tables /\ r.children = s.children /\ r.pgroup = s.pgroup /\ r.groups = s.groups
      /\ r.processes = s.processes /\ r.exitProcesses = s.exitProcesses /\ ChildTaken(s, r, c)
  BY DEF TakenFields, TakenFreeFields
<1>5. /\ \A x \in Pids : x # c => r.status[x] = s.status[x] /\ r.parent[x] = s.parent[x]
      /\ Has(r, "UNUSED", c) /\ ~Has(r, "ZOMBIES", c) /\ ~Has(r, "INIT", c)
      /\ Has(r, "EXIT", c) <=> Has(s, "EXIT", c)
      /\ Has(r, "LEADER", c) <=> Has(s, "LEADER", c)
  <2>1. CASE TakenFields(s, r, c) /\ (Has(s, "EXIT", c) \/ Has(s, "LEADER", c))
    BY <1>2, <1>3, <2>1 DEF TakenFields, Has
  <2>2. CASE TakenFreeFields(s, r, c) /\ ~Has(s, "EXIT", c) /\ ~Has(s, "LEADER", c)
    BY <1>2, <1>3, <2>2 DEF TakenFreeFields, Has
  <2> QED BY <2>1, <2>2
<1>6. /\ IsInjective(r.free) /\ IsInjective(r.recycle)
      /\ \/ /\ Has(s, "EXIT", c) \/ Has(s, "LEADER", c)
            /\ ToSet(r.free) = ToSet(s.free) /\ ToSet(r.recycle) = ToSet(s.recycle)
         \/ /\ ~Has(s, "EXIT", c) /\ r.status[c] = {"UNUSED"}
            /\ ToSet(r.free) = ToSet(s.free) \cup {c} /\ ToSet(r.recycle) = ToSet(s.recycle) \ {c}
  <2>1. CASE TakenFields(s, r, c) /\ (Has(s, "EXIT", c) \/ Has(s, "LEADER", c))
    BY <1>1, <2>1 DEF TakenFields, Lists
  <2>2. CASE TakenFreeFields(s, r, c) /\ ~Has(s, "EXIT", c) /\ ~Has(s, "LEADER", c)
    <3>1. r.status[c] = {"UNUSED"}
      BY <1>2, <2>2 DEF TakenFreeFields
    <3>2. ToSet(r.free) = ToSet(s.free) \cup {c} /\ IsInjective(r.free)
      BY <1>1, <1>2, <1>3, <2>2, AppendList DEF TakenFreeFields, Lists
    <3> QED BY <2>2, <3>1, <3>2 DEF TakenFreeFields
  <2> QED BY <2>1, <2>2
<1>7. Lists(r) /\ Listed(r) = Listed(s)
  BY <1>1, <1>3, <1>6 DEF Lists, Listed
<1>8. Flagged(r)
  <2>1. ASSUME NEW x \in Pids
        PROVE /\ x \in ToSet(r.free) <=> r.status[x] = {"UNUSED"}
              /\ x \in ToSet(r.recycle) =>
                   /\ ~Has(r, "INIT", x)
              /\ x \notin Listed(r) =>
                   /\ ~Has(r, "UNUSED", x)
                   /\ ~Has(r, "INIT", x) \/ ~Has(r, "EXIT", x)
              /\ Has(r, "ZOMBIES", x) => x \in ToSet(r.recycle) /\ ~Has(r, "UNUSED", x)
    <3>1. CASE x # c
      BY <1>1, <1>5, <1>6, <1>7, <3>1 DEF Flagged, Has
    <3>2. CASE x = c
      <4>1. Has(s, "EXIT", c) \/ Has(s, "LEADER", c) => r.status[c] # {"UNUSED"}
        BY <1>5 DEF Has
      <4> QED BY <1>3, <1>5, <1>6, <1>7, <3>2, <4>1
    <3> QED BY <3>1, <3>2
  <2> QED BY <1>1, <1>7, <2>1 DEF Flagged
<1>9. Family(r, {})
  <2>1. \A x \in Pids : /\ Has(r, "ZOMBIES", x) <=> Has(s, "ZOMBIES", x) /\ x # c
                        /\ Has(r, "INIT", x) <=> Has(s, "INIT", x)
    BY <1>3, <1>5 DEF Has
  <2>2. r.parent[c] = s.parent[c] \/ r.parent[c] = NULL
    BY <1>2 DEF TakenFields, TakenFreeFields
  <2>3. ASSUME NEW x \in Pids
        PROVE /\ r.parent[x] # x
              /\ x \notin Listed(r) \cup {} \cup {Root} => r.parent[x] \in Pids /\ x \in r.children[r.parent[x]]
              /\ \A d \in r.children[x] : r.parent[d] = x /\ d \notin Listed(r)
              /\ \A d \in ToSet(r.exitChildren[x]) : r.parent[d] = x /\ Has(r, "ZOMBIES", d)
              /\ Has(r, "ZOMBIES", x) => r.parent[x] \in Pids /\ x \in ToSet(r.exitChildren[r.parent[x]])
              /\ IsInjective(r.exitChildren[x])
              /\ x \in Listed(r) \/ Has(r, "INIT", x) => r.children[x] = {} /\ r.exitChildren[x] = <<>>
    <3>1. ToSet(s.exitChildren[x]) \subseteq Pids /\ s.children[x] \subseteq Pids
      BY <1>2, ToSetIn
    <3>2. \A y \in Pids : ToSet(r.exitChildren[y]) = ToSet(s.exitChildren[y]) \ {c} /\ IsInjective(r.exitChildren[y])
      BY <1>4 DEF ChildTaken
    <3>3. r.parent[x] # x
      BY <1>1, <1>5, <2>2, ProcessAssumption DEF Family
    <3>4. x \notin Listed(r) \cup {} \cup {Root} => r.parent[x] \in Pids /\ x \in r.children[r.parent[x]]
      BY <1>1, <1>3, <1>4, <1>5, <1>7 DEF Family
    <3>5. \A d \in r.children[x] : r.parent[d] = x /\ d \notin Listed(r)
      BY <1>1, <1>3, <1>4, <1>5, <1>7, <3>1 DEF Family
    <3>6. \A d \in ToSet(r.exitChildren[x]) : r.parent[d] = x /\ Has(r, "ZOMBIES", d)
      BY <1>1, <1>5, <2>1, <3>1, <3>2 DEF Family
    <3>7. Has(r, "ZOMBIES", x) => r.parent[x] \in Pids /\ x \in ToSet(r.exitChildren[r.parent[x]])
      <4>1. SUFFICES ASSUME Has(r, "ZOMBIES", x)
                     PROVE  r.parent[x] \in Pids /\ x \in ToSet(r.exitChildren[r.parent[x]])
        OBVIOUS
      <4>2. x # c /\ Has(s, "ZOMBIES", x) /\ r.parent[x] = s.parent[x]
        BY <1>5, <2>1, <4>1
      <4>3. s.parent[x] \in Pids /\ x \in ToSet(s.exitChildren[s.parent[x]])
        BY <1>1, <4>2 DEF Family
      <4> QED BY <3>2, <4>2, <4>3
    <3>8. x \in Listed(r) \/ Has(r, "INIT", x) => r.children[x] = {} /\ r.exitChildren[x] = <<>>
      <4>1. r.exitChildren[x] \in Seq(Pids)
        BY <1>4 DEF Tables
      <4>2. s.exitChildren[x] = <<>> => r.exitChildren[x] = <<>>
        <5>1. s.exitChildren[x] = <<>> => ToSet(r.exitChildren[x]) = {}
          BY <3>2 DEF ToSet
        <5> QED BY <4>1, <5>1, ToSetIn
      <4> QED BY <1>1, <1>4, <1>7, <2>1, <4>2 DEF Family
    <3> QED BY <3>2, <3>3, <3>4, <3>5, <3>6, <3>7, <3>8
  <2>4. r.parent[Root] = NULL
    BY <1>1, <1>3, <1>5, ProcessAssumption DEF Family
  <2> QED BY <2>3, <2>4 DEF Family
<1>10. Grouped(r, {})
  <2>1. \A x \in Pids : /\ Has(r, "ZOMBIES", x) <=> Has(s, "ZOMBIES", x) /\ x # c
                        /\ Has(r, "LEADER", x) <=> Has(s, "LEADER", x)
    BY <1>5 DEF Has
  <2> QED BY <1>1, <1>3, <1>4, <1>7, <2>1, ProcessAssumption DEF Grouped
<1>11. \A x \in Pids : Has(s, "EXIT", x) => Has(r, "EXIT", x) /\ (x \in ToSet(s.recycle) => x \in ToSet(r.recycle))
  BY <1>5, <1>6 DEF Has
<1>12. Relics(r)
  <2>1. ASSUME NEW x \in Pids, x \in ToSet(r.recycle), x # c
        PROVE  Has(r, "ZOMBIES", x) \/ Has(r, "UNUSED", x) \/ r.parent[x] = NULL
    <3>1. x \in ToSet(s.recycle) /\ r.status[x] = s.status[x] /\ r.parent[x] = s.parent[x]
      BY <1>5, <1>6, <2>1
    <3> QED BY <3>1 DEF TableInv, Relics, Has
  <2> QED BY <1>5, <2>1 DEF Relics
<1> QED BY <1>3, <1>4, <1>5, <1>7, <1>8, <1>9, <1>10, <1>11, <1>12 DEF TableInv

LEMMA RecycleZombiesKeeps ==
    ASSUME NEW s, NEW c \in Pids, TableInv(s, {}, {}), Has(s, "ZOMBIES", c)
    PROVE  LET r == OsRecycleZombiesProcess(s, c) IN
           TableInv(r, {}, {}) /\ Calm(s, r) /\ ChildTaken(s, r, c)
<1> DEFINE l == ExitProcessGroup(s, c)
           r == OsRecycleZombiesProcess(s, c)
<1>1. s.pgroup[c] # NULL
  BY DEF TableInv, Grouped
<1>2. TableInv(l, {c}, {}) /\ ExitEffect(s, l, c)
  BY <1>1, ExitProcessGroupKeeps
<1>3. Has(l, "ZOMBIES", c)
  BY <1>2 DEF ExitEffect, Flags
<1>4. \/ TakenFields(l, r, c) /\ (Has(l, "EXIT", c) \/ Has(l, "LEADER", c))
      \/ TakenFreeFields(l, r, c) /\ ~Has(l, "EXIT", c) /\ ~Has(l, "LEADER", c)
  BY RecycleZombiesFields
<1> HIDE DEF l, r
<1>5. /\ TableInv(r, {}, {}) /\ Listed(r) = Listed(l)
      /\ ~Has(r, "ZOMBIES", c)
      /\ \A x \in Pids : x # c => r.status[x] = l.status[x] /\ r.parent[x] = l.parent[x]
      /\ \A x \in Pids : Has(l, "EXIT", x) => Has(r, "EXIT", x) /\ (x \in ToSet(l.recycle) => x \in ToSet(r.recycle))
      /\ Has(r, "INIT", c) <=> Has(l, "INIT", c)
  BY <1>2, <1>3, <1>4, TakenKeeps
<1>6. r.children = l.children /\ ChildTaken(l, r, c) /\ r.pgroup = l.pgroup
  BY <1>4 DEF TakenFields, TakenFreeFields
<1>7. ChildTaken(s, r, c)
  BY <1>2, <1>6 DEF ExitEffect, ChildTaken
<1>8. Calm(s, r)
  <2>1. r.children = s.children /\ Listed(r) = Listed(s)
    BY <1>2, <1>5, <1>6 DEF ExitEffect
  <2>2. ASSUME NEW x \in Pids
        PROVE /\ Has(r, "INIT", x) <=> Has(s, "INIT", x)
              /\ ToSet(r.exitChildren[x]) \subseteq ToSet(s.exitChildren[x])
              /\ x \notin Listed(s) => r.parent[x] = s.parent[x] /\ (Has(r, "EXIT", x) <=> Has(s, "EXIT", x))
              /\ Has(r, "ZOMBIES", x) => Has(s, "ZOMBIES", x) /\ r.pgroup[x] = s.pgroup[x]
              /\ x \in ToSet(s.recycle) /\ Has(s, "EXIT", x) => x \in ToSet(r.recycle) /\ Has(r, "EXIT", x)
    <3>1. /\ Has(l, "INIT", x) <=> Has(s, "INIT", x)
          /\ Has(l, "EXIT", x) <=> Has(s, "EXIT", x)
          /\ Has(l, "ZOMBIES", x) <=> Has(s, "ZOMBIES", x)
          /\ ~Has(s, "UNUSED", x) => l.parent[x] = s.parent[x]
          /\ x \in ToSet(s.recycle) /\ Has(s, "EXIT", x) => x \in ToSet(l.recycle)
          /\ x # c => l.pgroup[x] = s.pgroup[x]
      <4>1. s.pgroup \in [Pids -> Pids \cup {NULL}]
        BY DEF TableInv, Tables
      <4> QED BY <1>2, <4>1 DEF ExitEffect, Flags
    <3>2. x # c => \A f : Has(r, f, x) <=> Has(l, f, x)
      BY <1>5 DEF Has
    <3>3. x \notin Listed(s) => x # c /\ ~Has(s, "UNUSED", x)
      BY DEF TableInv, Flagged, Listed
    <3>4. ToSet(r.exitChildren[x]) \subseteq ToSet(s.exitChildren[x])
      BY <1>7 DEF ChildTaken
    <3>5. Has(r, "ZOMBIES", x) => x # c
      BY <1>5
    <3> QED BY <1>5, <1>6, <3>1, <3>2, <3>3, <3>4, <3>5
  <2> QED BY <2>1, <2>2 DEF Calm
<1> QED BY <1>5, <1>7, <1>8 DEF r

LEMMA CalmOn ==
    ASSUME NEW s, NEW r, NEW q, Calm(s, r), Calm(r, q)
    PROVE  Calm(s, q)
BY DEF Calm

LEMMA CalmSelf ==
    ASSUME NEW s
    PROVE  Calm(s, s)
BY DEF Calm

\* One turn of the loop of OsChildProcessResourcesFree.
FreeStep(g, i, s, list) == IF i = 0 THEN s ELSE OsRecycleZombiesProcess(g[i - 1], list[i])

\* The loop is defined.
LEMMA FreeExists ==
    ASSUME NEW s, NEW list \in Seq(Pids)
    PROVE  \E g : g = [i \in 0..Len(list) |-> FreeStep(g, i, s, list)]
<1> DEFINE P(n) == \E g : DOMAIN g = 0..n /\ g = [i \in 0..n |-> FreeStep(g, i, s, list)]
           Bad == {n \in 0..Len(list) : ~P(n)}
<1>1. SUFFICES ASSUME Bad # {} PROVE FALSE
  BY DEF FreeStep
<1>2. Bad \in SUBSET Nat
  OBVIOUS
<1>3. PICK n \in Bad : \A y \in Bad : n <= y
  BY <1>1, <1>2, NatMin
<1>4. n \in 0..Len(list) /\ ~P(n)
  OBVIOUS
<1>5. CASE n = 0
  <2>1. PICK g : g = [i \in 0..0 |-> s]
    OBVIOUS
  <2>2. DOMAIN g = 0..0 /\ g = [i \in 0..0 |-> FreeStep(g, i, s, list)]
    BY <2>1 DEF FreeStep
  <2> QED BY <1>4, <1>5, <2>2
<1>6. CASE n # 0
  <2>1. n - 1 \in 0..Len(list) /\ n - 1 \notin Bad
    BY <1>3, <1>4, <1>6
  <2>2. PICK g : DOMAIN g = 0..(n - 1) /\ g = [i \in 0..(n - 1) |-> FreeStep(g, i, s, list)]
    BY <2>1
  <2>3. PICK h : h = [i \in 0..n |-> FreeStep(g, i, s, list)]
    OBVIOUS
  <2>4. \A i \in 0..n : i # 0 => h[i - 1] = g[i - 1]
    <3>1. SUFFICES ASSUME NEW i \in 0..n, i # 0 PROVE h[i - 1] = g[i - 1]
      OBVIOUS
    <3>2. i - 1 \in 0..(n - 1) /\ i - 1 \in 0..n
      BY <1>4, <3>1
    <3>3. h[i - 1] = FreeStep(g, i - 1, s, list)
      BY <2>3, <3>2
    <3>4. g[i - 1] = FreeStep(g, i - 1, s, list)
      BY <2>2, <3>2
    <3> QED BY <3>3, <3>4
  <2>5. \A i \in 0..n : FreeStep(g, i, s, list) = FreeStep(h, i, s, list)
    BY <2>4 DEF FreeStep
  <2>6. DOMAIN h = 0..n /\ h = [i \in 0..n |-> FreeStep(h, i, s, list)]
    BY <2>3, <2>5
  <2> QED BY <1>4, <2>6
<1> QED BY <1>5, <1>6

\* The table after n turns: the first n exited children of p are taken.
FreedUpTo(s, r, p, n) ==
    /\ TableInv(r, {}, {}) /\ Calm(s, r)
    /\ ToSet(r.exitChildren[p]) = {s.exitChildren[p][k] : k \in n + 1..Len(s.exitChildren[p])}

LEMMA ChildResourcesFreed ==
    ASSUME NEW s, NEW p \in Pids, TableInv(s, {}, {})
    PROVE  LET r == OsChildProcessResourcesFree(s, p) IN
           TableInv(r, {}, {}) /\ Calm(s, r) /\ r.exitChildren[p] = <<>>
<1>1. PICK list \in Seq(Pids) : list = s.exitChildren[p]
  BY DEF TableInv, Tables
<1> DEFINE Walk(g) == g = [i \in 0..Len(list) |-> IF i = 0 THEN s ELSE OsRecycleZombiesProcess(g[i - 1], list[i])]
<1>2. \E g : Walk(g)
  <2>1. PICK g : g = [i \in 0..Len(list) |-> FreeStep(g, i, s, list)]
    BY FreeExists
  <2>2. Walk(g)
    BY <2>1 DEF FreeStep
  <2> QED BY <2>2
<1>3. PICK f : f = CHOOSE g : Walk(g)
  OBVIOUS
<1>4. Walk(f)
  BY <1>2, <1>3
<1>5. OsChildProcessResourcesFree(s, p) = f[Len(list)]
  BY <1>1, <1>3 DEF OsChildProcessResourcesFree
<1>6. \A i \in 0..Len(list) : f[i] = FreeStep(f, i, s, list)
  BY <1>4 DEF FreeStep
<1>7. /\ IsInjective(list) /\ ToSet(list) = {list[k] : k \in 1..Len(list)}
      /\ \A k \in 1..Len(list) : list[k] \in ToSet(list)
  BY <1>1, ToSetIn DEF TableInv, Family
<1> DEFINE Bad == {n \in 0..Len(list) : ~FreedUpTo(s, f[n], p, n)}
<1>8. ASSUME Bad # {} PROVE FALSE
  <2>1. Bad \in SUBSET Nat
    OBVIOUS
  <2>2. PICK n \in Bad : \A y \in Bad : n <= y
    BY <1>8, <2>1, NatMin
  <2>3. n \in 0..Len(list) /\ ~FreedUpTo(s, f[n], p, n)
    OBVIOUS
  <2>4. CASE n = 0
    <3>1. f[0] = s
      BY <1>6, <2>3, <2>4 DEF FreeStep
    <3>2. FreedUpTo(s, s, p, 0)
      BY <1>1, <1>7, CalmSelf DEF FreedUpTo
    <3> QED BY <2>3, <2>4, <3>1, <3>2
  <2>5. CASE n # 0
    <3>1. n - 1 \in 0..Len(list) /\ n \in 1..Len(list) /\ n - 1 \notin Bad
      BY <2>2, <2>3, <2>5
    <3>2. PICK r : r = f[n - 1]
      OBVIOUS
    <3>3. FreedUpTo(s, r, p, n - 1)
      BY <3>1, <3>2
    <3>4. PICK c \in Pids : c = list[n]
      BY <3>1
    <3>5. f[n] = OsRecycleZombiesProcess(r, c)
      BY <1>6, <2>3, <2>5, <3>2, <3>4 DEF FreeStep
    <3>6. ToSet(r.exitChildren[p]) = {list[k] : k \in n..Len(list)}
      BY <1>1, <3>1, <3>3 DEF FreedUpTo
    <3>7. c \in ToSet(r.exitChildren[p])
      BY <3>1, <3>4, <3>6
    <3>8. TableInv(r, {}, {}) /\ Calm(s, r) /\ Has(r, "ZOMBIES", c)
      BY <3>3, <3>7 DEF FreedUpTo, TableInv, Family
    <3>9. PICK q : q = OsRecycleZombiesProcess(r, c)
      OBVIOUS
    <3>10. TableInv(q, {}, {}) /\ Calm(r, q) /\ ChildTaken(r, q, c)
      BY <3>8, <3>9, RecycleZombiesKeeps
    <3>11. Calm(s, q)
      BY <3>8, <3>10, CalmOn
    <3>12. ToSet(q.exitChildren[p]) = {list[k] : k \in n + 1..Len(list)}
      <4>1. ToSet(q.exitChildren[p]) = {list[k] : k \in n..Len(list)} \ {list[n]}
        BY <3>4, <3>6, <3>10 DEF ChildTaken
      <4>2. \A k \in n..Len(list) : list[k] = list[n] => k = n
        <5>1. n..Len(list) \subseteq DOMAIN list /\ n \in DOMAIN list
          BY <3>1
        <5> QED BY <1>7, <5>1 DEF IsInjective
      <4>3. n..Len(list) = (n + 1..Len(list)) \cup {n} /\ n \notin n + 1..Len(list)
        BY <3>1
      <4> QED BY <4>1, <4>2, <4>3
    <3>13. FreedUpTo(s, q, p, n)
      BY <1>1, <3>10, <3>11, <3>12 DEF FreedUpTo
    <3> QED BY <2>3, <3>5, <3>9, <3>13
  <2> QED BY <2>4, <2>5
<1>9. FreedUpTo(s, f[Len(list)], p, Len(list))
  BY <1>8
<1>10. PICK r : r = f[Len(list)]
  OBVIOUS
<1>11. TableInv(r, {}, {}) /\ Calm(s, r) /\ ToSet(r.exitChildren[p]) = {}
  <2>1. Len(list) + 1..Len(list) = {}
    OBVIOUS
  <2> QED BY <1>1, <1>9, <1>10, <2>1 DEF FreedUpTo
<1>12. r.exitChildren[p] \in Seq(Pids)
  BY <1>11 DEF TableInv, Tables
<1> QED BY <1>5, <1>10, <1>11, <1>12, ToSetIn

-----------------------------------------------------------------------------
(* The exit of a process                                                    *)

\* The exit of p, child of q: p is a zombie and its children are those of init.
ZombieFields(s, r, p, q, g) ==
    /\ r \in Tables
    /\ r.status = [s.status EXCEPT ![p] = @ \cup {"ZOMBIES"}]
    /\ r.parent = [c \in Pids |-> IF c \in s.children[p] THEN Root ELSE s.parent[c]]
    /\ \A x \in Pids : r.children[x] = (IF x = p THEN {} ELSE IF x = Root THEN s.children[x] \cup s.children[p]
                                        ELSE s.children[x]) \ {p}
    /\ r.exitChildren = [s.exitChildren EXCEPT ![q] = Append(@, p)]
    /\ r.pgroup = s.pgroup /\ r.groups = s.groups
    /\ r.processes = [s.processes EXCEPT ![g] = @ \ {p}]
    /\ r.exitProcesses = [s.exitProcesses EXCEPT ![g] = Append(@, p)]
    /\ r.free = s.free /\ r.recycle = <<p>> \o s.recycle

LEMMA ZombieTable ==
    ASSUME NEW s \in Tables, NEW p \in Pids, NEW q \in Pids, NEW g \in Pids,
           s.parent[p] = q, s.pgroup[p] = g, p # q, p # Root,
           \A x \in Pids : p \in s.children[x] => x = q
    PROVE  ZombieFields(s, OsDealAliveChildProcess(Zombie(s, p), p), p, q, g)
<1> DEFINE d == Zombie(s, p)
           r == OsDealAliveChildProcess(d, p)
<1>1. /\ s.status \in [Pids -> SUBSET Flags] /\ s.parent \in [Pids -> Pids \cup {NULL}]
      /\ s.children \in [Pids -> SUBSET Pids] /\ s.exitChildren \in [Pids -> Seq(Pids)]
      /\ s.processes \in [Pids -> SUBSET Pids] /\ s.exitProcesses \in [Pids -> Seq(Pids)]
      /\ s.recycle \in Seq(Pids)
  BY DEF Tables
<1>2. /\ s.status[p] \cup {"ZOMBIES"} \in SUBSET Flags
      /\ Append(s.exitChildren[q], p) \in Seq(Pids) /\ Append(s.exitProcesses[g], p) \in Seq(Pids)
      /\ <<p>> \o s.recycle \in Seq(Pids)
      /\ s.children[q] \ {p} \in SUBSET Pids /\ s.processes[g] \ {p} \in SUBSET Pids
  BY <1>1, PushList DEF Flags
<1>3. /\ d \in Tables
      /\ d.status = [s.status EXCEPT ![p] = @ \cup {"ZOMBIES"}]
      /\ d.parent = s.parent
      /\ d.children = [s.children EXCEPT ![q] = @ \ {p}]
      /\ d.exitChildren = [s.exitChildren EXCEPT ![q] = Append(@, p)]
      /\ d.pgroup = s.pgroup /\ d.groups = s.groups
      /\ d.processes = [s.processes EXCEPT ![g] = @ \ {p}]
      /\ d.exitProcesses = [s.exitProcesses EXCEPT ![g] = Append(@, p)]
      /\ d.free = s.free /\ d.recycle = <<p>> \o s.recycle
  BY <1>1, <1>2 DEF Tables, Zombie
<1> HIDE DEF d
<1>4. /\ d.children \in [Pids -> SUBSET Pids] /\ d.parent \in [Pids -> Pids \cup {NULL}]
      /\ d.children[p] = s.children[p] /\ Root \in Pids
  <2>1. d.children \in [Pids -> SUBSET Pids] /\ d.parent \in [Pids -> Pids \cup {NULL}]
    BY <1>3 DEF Tables
  <2>2. d.children[p] = s.children[p]
    BY <1>1, <1>3
  <2> QED BY <2>1, <2>2, ProcessAssumption
<1>5. /\ [c \in Pids |-> IF c \in d.children[p] THEN Root ELSE d.parent[c]] \in [Pids -> Pids \cup {NULL}]
      /\ [d.children EXCEPT ![p] = {}, ![Root] = @ \cup d.children[p]] \in [Pids -> SUBSET Pids]
  BY <1>4
<1>6. /\ r \in Tables
      /\ r.parent = [c \in Pids |-> IF c \in d.children[p] THEN Root ELSE d.parent[c]]
      /\ r.children = [d.children EXCEPT ![p] = {}, ![Root] = @ \cup d.children[p]]
      /\ r.status = d.status /\ r.exitChildren = d.exitChildren /\ r.pgroup = d.pgroup
      /\ r.groups = d.groups /\ r.processes = d.processes /\ r.exitProcesses = d.exitProcesses
      /\ r.free = d.free /\ r.recycle = d.recycle
  BY <1>3, <1>4, <1>5 DEF Tables, OsDealAliveChildProcess
<1> HIDE DEF r
<1>7. \A x \in Pids : d.children[x] = s.children[x] \ {p}
  BY <1>1, <1>3
<1>8. ASSUME NEW x \in Pids
      PROVE  r.children[x] = (IF x = p THEN {} ELSE IF x = Root THEN s.children[x] \cup s.children[p]
                              ELSE s.children[x]) \ {p}
  <2>1. r.children[x] = IF x = p THEN {} ELSE IF x = Root THEN d.children[x] \cup d.children[p] ELSE d.children[x]
    BY <1>4, <1>6
  <2> QED BY <1>7, <2>1
<1> QED BY <1>3, <1>4, <1>6, <1>8, SMTT(40) DEF ZombieFields, r, d

\* What the rest of the system sees of the exit of p, child of q.
ExitedEffect(s, r, p, q) ==
    /\ Listed(r) = Listed(s) \cup {p}
    /\ ToSet(s.recycle) \subseteq ToSet(r.recycle)
    /\ r.pgroup = s.pgroup
    /\ \A x \in Pids :
        /\ \A f \in {"INIT", "EXIT"} : Has(r, f, x) <=> Has(s, f, x)
        /\ x # p => (s.children[x] \ {p}) \subseteq r.children[x]
        /\ x # q => ToSet(r.exitChildren[x]) = ToSet(s.exitChildren[x])
        /\ x = q => ToSet(r.exitChildren[x]) = ToSet(s.exitChildren[x]) \cup {p}

LEMMA ExitKeeps ==
    ASSUME NEW s, NEW p \in Pids, TableInv(s, {}, {}), p # Root, p \notin Listed(s),
           Has(s, "EXIT", p), s.exitChildren[p] = <<>>, ~Has(s, "INIT", Root)
    PROVE  /\ TableInv(OsDealAliveChildProcess(Zombie(s, p), p), {}, {})
           /\ s.parent[p] \in Pids /\ s.parent[p] # p /\ s.pgroup[p] \in Pids
           /\ ExitedEffect(s, OsDealAliveChildProcess(Zombie(s, p), p), p, s.parent[p])
<1>1. s \in Tables /\ Lists(s) /\ Flagged(s) /\ Family(s, {}) /\ Grouped(s, {})
  BY DEF TableInv
<1>2. /\ s.status \in [Pids -> SUBSET Flags] /\ s.parent \in [Pids -> Pids \cup {NULL}]
      /\ s.children \in [Pids -> SUBSET Pids] /\ s.exitChildren \in [Pids -> Seq(Pids)]
      /\ s.processes \in [Pids -> SUBSET Pids] /\ s.exitProcesses \in [Pids -> Seq(Pids)]
      /\ s.pgroup \in [Pids -> Pids \cup {NULL}]
      /\ s.free \in Seq(Pids) /\ s.recycle \in Seq(Pids)
  BY <1>1 DEF Tables
<1>3. PICK q \in Pids : s.parent[p] = q /\ q # p /\ p \in s.children[q]
  BY <1>1 DEF Family
<1>4. PICK g \in Pids : s.pgroup[p] = g
  BY <1>1, <1>2 DEF Grouped
<1>5. PICK r : r = OsDealAliveChildProcess(Zombie(s, p), p)
  OBVIOUS
<1>6. \A x \in Pids : p \in s.children[x] => x = q
  BY <1>1, <1>3 DEF Family
<1>7. ZombieFields(s, r, p, q, g)
  BY <1>1, <1>3, <1>4, <1>5, <1>6, ZombieTable
<1>8. /\ ~Has(s, "UNUSED", p) /\ ~Has(s, "ZOMBIES", p) /\ ~Has(s, "INIT", p)
      /\ p \notin ToSet(s.free) /\ p \notin ToSet(s.recycle)
  BY <1>1 DEF Flagged, Listed
<1>9. /\ \A x \in Pids : x # p => r.status[x] = s.status[x]
      /\ Has(r, "ZOMBIES", p) /\ \A f \in Flags \ {"ZOMBIES"} : Has(r, f, p) <=> Has(s, f, p)
  <2>1. r.status = [s.status EXCEPT ![p] = @ \cup {"ZOMBIES"}]
    BY <1>7 DEF ZombieFields
  <2> QED BY <1>2, <2>1 DEF Has
<1>10. /\ ToSet(r.recycle) = ToSet(s.recycle) \cup {p} /\ IsInjective(r.recycle)
       /\ ToSet(r.free) = ToSet(s.free) /\ IsInjective(r.free)
  <2>1. r.free = s.free /\ r.recycle = <<p>> \o s.recycle
    BY <1>7 DEF ZombieFields
  <2>2. /\ ToSet(<<p>> \o s.recycle) = ToSet(s.recycle) \cup {p}
        /\ IsInjective(s.recycle) /\ p \notin ToSet(s.recycle) => IsInjective(<<p>> \o s.recycle)
    BY <1>2, PushList
  <2> QED BY <1>1, <1>8, <2>1, <2>2 DEF Lists
<1>11. Lists(r) /\ Listed(r) = Listed(s) \cup {p}
  BY <1>1, <1>8, <1>10 DEF Lists, Listed
<1>12. Flagged(r)
  <2>1. ASSUME NEW x \in Pids
        PROVE /\ x \in ToSet(r.free) <=> r.status[x] = {"UNUSED"}
              /\ x \in ToSet(r.recycle) =>
                   /\ ~Has(r, "INIT", x)
              /\ x \notin Listed(r) =>
                   /\ ~Has(r, "UNUSED", x)
                   /\ ~Has(r, "INIT", x) \/ ~Has(r, "EXIT", x)
              /\ Has(r, "ZOMBIES", x) => x \in ToSet(r.recycle) /\ ~Has(r, "UNUSED", x)
    <3>1. CASE x # p
      BY <1>1, <1>9, <1>10, <1>11, <3>1 DEF Flagged, Has
    <3>2. CASE x = p
      <4>1. r.status[p] # {"UNUSED"}
        BY <1>9 DEF Has
      <4>2. ~Has(r, "INIT", p) /\ ~Has(r, "UNUSED", p)
        BY <1>8, <1>9 DEF Flags
      <4> QED BY <1>8, <1>9, <1>10, <1>11, <3>2, <4>1, <4>2
    <3> QED BY <3>1, <3>2
  <2> QED BY <1>1, <1>11, <2>1 DEF Flagged
<1>13. \A x \in Pids : /\ r.parent[x] = IF x \in s.children[p] THEN Root ELSE s.parent[x]
                       /\ r.children[x] = (IF x = p THEN {} ELSE IF x = Root THEN s.children[x] \cup s.children[p]
                                           ELSE s.children[x]) \ {p}
  BY <1>7 DEF ZombieFields
<1>14. \A x \in Pids : /\ r.exitChildren[x] = IF x = q THEN Append(s.exitChildren[x], p) ELSE s.exitChildren[x]
                       /\ ToSet(r.exitChildren[x]) = IF x = q THEN ToSet(s.exitChildren[x]) \cup {p}
                                                     ELSE ToSet(s.exitChildren[x])
  <2>1. SUFFICES ASSUME NEW x \in Pids
                 PROVE  /\ r.exitChildren[x] = IF x = q THEN Append(s.exitChildren[x], p) ELSE s.exitChildren[x]
                        /\ ToSet(r.exitChildren[x]) = IF x = q THEN ToSet(s.exitChildren[x]) \cup {p}
                                                      ELSE ToSet(s.exitChildren[x])
    OBVIOUS
  <2>2. r.exitChildren[x] = IF x = q THEN Append(s.exitChildren[x], p) ELSE s.exitChildren[x]
    <3>1. r.exitChildren = [s.exitChildren EXCEPT ![q] = Append(@, p)]
      BY <1>7 DEF ZombieFields
    <3> QED BY <1>2, <3>1
  <2>3. ToSet(Append(s.exitChildren[x], p)) = ToSet(s.exitChildren[x]) \cup {p}
    BY <1>2, AppendList
  <2> QED BY <2>2, <2>3
<1>15. Family(r, {})
  <2>1. \A x \in Pids : /\ Has(r, "ZOMBIES", x) <=> Has(s, "ZOMBIES", x) \/ x = p
                        /\ Has(r, "INIT", x) <=> Has(s, "INIT", x)
    BY <1>9 DEF Has, Flags
  <2>2. /\ p \notin s.children[p] /\ Root \notin s.children[p] /\ q \notin Listed(s) /\ ~Has(s, "INIT", q)
        /\ Root \in Pids /\ s.parent[Root] = NULL /\ NULL \notin Pids
    BY <1>1, <1>3, ProcessAssumption DEF Family
  <2>3. ASSUME NEW x \in Pids
        PROVE /\ r.parent[x] # x
              /\ x \notin Listed(r) \cup {} \cup {Root} => r.parent[x] \in Pids /\ x \in r.children[r.parent[x]]
              /\ \A d \in r.children[x] : r.parent[d] = x /\ d \notin Listed(r)
              /\ \A d \in ToSet(r.exitChildren[x]) : r.parent[d] = x /\ Has(r, "ZOMBIES", d)
              /\ Has(r, "ZOMBIES", x) => r.parent[x] \in Pids /\ x \in ToSet(r.exitChildren[r.parent[x]])
              /\ IsInjective(r.exitChildren[x])
              /\ x \in Listed(r) \/ Has(r, "INIT", x) => r.children[x] = {} /\ r.exitChildren[x] = <<>>
    <3>1. ToSet(s.exitChildren[x]) \subseteq Pids /\ s.children[x] \subseteq Pids /\ s.children[p] \subseteq Pids
      BY <1>2, ToSetIn
    <3>2. r.parent[x] # x
      BY <1>1, <1>13, <2>2 DEF Family
    <3>3. x \notin Listed(r) \cup {} \cup {Root} => r.parent[x] \in Pids /\ x \in r.children[r.parent[x]]
      <4>1. SUFFICES ASSUME x \notin Listed(r) \cup {} \cup {Root}
                     PROVE  r.parent[x] \in Pids /\ x \in r.children[r.parent[x]]
        OBVIOUS
      <4>2. PICK y \in Pids : y = s.parent[x] /\ x \in s.children[y] /\ x # p
        BY <1>1, <1>11, <4>1 DEF Family
      <4>3. CASE y = p
        <5>1. r.parent[x] = Root
          BY <1>13, <4>2, <4>3
        <5>2. x \in r.children[Root]
          BY <1>13, <2>2, <4>2, <4>3
        <5> QED BY <2>2, <5>1, <5>2
      <4>4. CASE y # p
        <5>1. x \notin s.children[p]
          BY <1>1, <4>2, <4>4 DEF Family
        <5>2. r.parent[x] = y
          BY <1>13, <4>2, <5>1
        <5>3. x \in r.children[y]
          BY <1>13, <4>2, <4>4
        <5> QED BY <5>2, <5>3
      <4> QED BY <4>3, <4>4
    <3>4. \A d \in r.children[x] : r.parent[d] = x /\ d \notin Listed(r)
      <4>1. SUFFICES ASSUME NEW d \in r.children[x] PROVE r.parent[d] = x /\ d \notin Listed(r)
        OBVIOUS
      <4>2. d # p /\ x # p /\ (d \in s.children[x] \/ (x = Root /\ d \in s.children[p]))
        BY <1>13, <4>1
      <4>3. d \in Pids
        BY <3>1, <4>2
      <4>4. d \notin Listed(r)
        BY <1>1, <1>11, <4>2 DEF Family
      <4>5. CASE d \in s.children[p]
        <5>1. r.parent[d] = Root /\ s.parent[d] = p
          BY <1>1, <1>13, <4>3, <4>5 DEF Family
        <5>2. x = Root
          BY <1>1, <4>2, <5>1 DEF Family
        <5> QED BY <4>4, <5>1, <5>2
      <4>6. CASE d \notin s.children[p]
        BY <1>1, <1>13, <4>2, <4>3, <4>4, <4>6 DEF Family
      <4> QED BY <4>5, <4>6
    <3>5. \A d \in ToSet(r.exitChildren[x]) : r.parent[d] = x /\ Has(r, "ZOMBIES", d)
      <4>1. SUFFICES ASSUME NEW d \in ToSet(r.exitChildren[x]) PROVE r.parent[d] = x /\ Has(r, "ZOMBIES", d)
        OBVIOUS
      <4>2. CASE d = p
        <5>1. ~Has(s, "ZOMBIES", p)
          BY <1>8
        <5>2. x = q
          BY <1>1, <1>14, <4>1, <4>2, <5>1 DEF Family
        <5> QED BY <1>3, <1>13, <2>1, <2>2, <4>2, <5>2
      <4>3. CASE d # p
        <5>1. d \in ToSet(s.exitChildren[x]) /\ d \in Pids
          BY <1>14, <3>1, <4>1, <4>3
        <5>2. s.parent[d] = x /\ Has(s, "ZOMBIES", d)
          BY <1>1, <5>1 DEF Family
        <5>3. d \notin s.children[p]
          BY <1>1, <5>1, <5>2 DEF Family, Flagged, Listed
        <5> QED BY <1>13, <2>1, <5>1, <5>2, <5>3
      <4> QED BY <4>2, <4>3
    <3>6. Has(r, "ZOMBIES", x) => r.parent[x] \in Pids /\ x \in ToSet(r.exitChildren[r.parent[x]])
      <4>1. SUFFICES ASSUME Has(r, "ZOMBIES", x)
                     PROVE  r.parent[x] \in Pids /\ x \in ToSet(r.exitChildren[r.parent[x]])
        OBVIOUS
      <4>2. CASE x = p
        <5>1. r.parent[x] = q
          BY <1>3, <1>13, <2>2, <4>2
        <5> QED BY <1>14, <4>2, <5>1
      <4>3. CASE x # p
        <5>1. Has(s, "ZOMBIES", x)
          BY <2>1, <4>1, <4>3
        <5>2. PICK y \in Pids : y = s.parent[x] /\ x \in ToSet(s.exitChildren[y])
          BY <1>1, <5>1 DEF Family
        <5>3. x \notin s.children[p]
          BY <1>1, <5>1 DEF Family, Flagged, Listed
        <5> QED BY <1>13, <1>14, <5>2, <5>3
      <4> QED BY <4>2, <4>3
    <3>7. IsInjective(r.exitChildren[x])
      <4>1. p \notin ToSet(s.exitChildren[x])
        BY <1>1, <1>8 DEF Family
      <4>2. s.exitChildren[x] \in Seq(Pids) /\ IsInjective(s.exitChildren[x])
        BY <1>1, <1>2 DEF Family
      <4>3. IsInjective(Append(s.exitChildren[x], p))
        BY <4>1, <4>2, AppendList
      <4> QED BY <1>14, <4>2, <4>3
    <3>8. x \in Listed(r) \/ Has(r, "INIT", x) => r.children[x] = {} /\ r.exitChildren[x] = <<>>
      <4>1. CASE x = p
        BY <1>3, <1>13, <1>14, <4>1
      <4>2. CASE x # p
        <5>1. SUFFICES ASSUME x \in Listed(s) \/ Has(s, "INIT", x)
                       PROVE  r.children[x] = {} /\ r.exitChildren[x] = <<>>
          BY <1>11, <2>1, <4>2
        <5>2. s.children[x] = {} /\ s.exitChildren[x] = <<>> /\ x # q
          BY <1>1, <2>2, <5>1 DEF Family
        <5>3. CASE x = Root
          <6>1. Has(s, "INIT", Root)
            BY <1>1, <5>1, <5>3 DEF Flagged
          <6> QED BY <6>1
        <5>4. CASE x # Root
          BY <1>13, <1>14, <4>2, <5>2, <5>4
        <5> QED BY <5>3, <5>4
      <4> QED BY <4>1, <4>2
    <3> QED BY <3>2, <3>3, <3>4, <3>5, <3>6, <3>7, <3>8
  <2>4. r.parent[Root] = NULL
    BY <1>13, <2>2
  <2> QED BY <2>3, <2>4 DEF Family
<1>16. Grouped(r, {})
  <2>1. \A x \in Pids : /\ Has(r, "ZOMBIES", x) <=> Has(s, "ZOMBIES", x) \/ x = p
                        /\ Has(r, "LEADER", x) <=> Has(s, "LEADER", x)
    BY <1>9 DEF Has, Flags
  <2>2. r.pgroup = s.pgroup /\ r.groups = s.groups
    BY <1>7 DEF ZombieFields
  <2>3. \A h \in Pids : /\ r.processes[h] = IF h = g THEN s.processes[h] \ {p} ELSE s.processes[h]
                        /\ ToSet(r.exitProcesses[h]) = IF h = g THEN ToSet(s.exitProcesses[h]) \cup {p}
                                                       ELSE ToSet(s.exitProcesses[h])
    <3>1. ToSet(Append(s.exitProcesses[g], p)) = ToSet(s.exitProcesses[g]) \cup {p}
      BY <1>2, AppendList
    <3> QED BY <1>2, <1>7, <3>1 DEF ZombieFields
  <2>4. ASSUME NEW x \in Pids, NEW h \in Pids
        PROVE  /\ x \in r.processes[h] <=> r.pgroup[x] = h /\ ~Has(r, "ZOMBIES", x)
               /\ x \in ToSet(r.exitProcesses[h]) <=> r.pgroup[x] = h /\ Has(r, "ZOMBIES", x)
    <3>1. /\ x \in s.processes[h] <=> s.pgroup[x] = h /\ ~Has(s, "ZOMBIES", x)
          /\ x \in ToSet(s.exitProcesses[h]) <=> s.pgroup[x] = h /\ Has(s, "ZOMBIES", x)
      BY <1>1 DEF Grouped
    <3>2. CASE x = p
      BY <1>4, <1>8, <2>1, <2>2, <2>3, <3>1, <3>2
    <3>3. CASE x # p
      BY <2>1, <2>2, <2>3, <3>1, <3>3, ZenonT(60)
    <3> QED BY <3>2, <3>3
  <2>5. \A x \in Pids : r.pgroup[x] # NULL <=> (x \notin Listed(r) \/ Has(r, "ZOMBIES", x)) /\ x \notin {}
    BY <1>1, <1>11, <2>1, <2>2 DEF Grouped
  <2> QED BY <1>1, <2>1, <2>2, <2>4, <2>5 DEF Grouped
<1>17. ExitedEffect(s, r, p, q)
  <2>1. \A x \in Pids : \A f \in {"INIT", "EXIT"} : Has(r, f, x) <=> Has(s, f, x)
    BY <1>9 DEF Has, Flags
  <2>2. \A x \in Pids : x # p => (s.children[x] \ {p}) \subseteq r.children[x]
    BY <1>13
  <2>3. r.pgroup = s.pgroup
    BY <1>7 DEF ZombieFields
  <2> QED BY <1>10, <1>11, <1>14, <2>1, <2>2, <2>3 DEF ExitedEffect
<1>18. r \in Tables
  BY <1>7 DEF ZombieFields
<1>19. Relics(r)
  <2>1. ASSUME NEW x \in Pids, x \in ToSet(r.recycle), x # p
        PROVE  Has(r, "ZOMBIES", x) \/ Has(r, "UNUSED", x) \/ r.parent[x] = NULL
    <3>1. x \in ToSet(s.recycle) /\ r.status[x] = s.status[x] /\ x \in Listed(s)
      BY <1>9, <1>10, <2>1 DEF Listed
    <3>2. x \notin s.children[p]
      BY <1>1, <3>1 DEF Family
    <3>3. r.parent[x] = s.parent[x]
      BY <1>7, <3>2 DEF ZombieFields
    <3> QED BY <3>1, <3>3 DEF TableInv, Relics, Has
  <2> QED BY <1>9, <2>1 DEF Relics
<1> QED BY <1>3, <1>4, <1>5, <1>11, <1>12, <1>15, <1>16, <1>17, <1>18, <1>19 DEF TableInv

-----------------------------------------------------------------------------
(* A process joins a group                                                  *)

JoinFields(s, r, p, h) ==
    /\ r \in Tables
    /\ r.status = [s.status EXCEPT ![h] = @ \cup {"LEADER"}]
    /\ r.groups = s.groups \cup {h}
    /\ r.processes = [s.processes EXCEPT ![h] = @ \cup {p}]
    /\ r.pgroup = [s.pgroup EXCEPT ![p] = h]
    /\ r.parent = s.parent /\ r.children = s.children /\ r.exitChildren = s.exitChildren
    /\ r.exitProcesses = s.exitProcesses /\ r.free = s.free /\ r.recycle = s.recycle

LEMMA JoinKeeps ==
    ASSUME NEW s, NEW r, NEW p \in Pids, NEW h \in Pids, NEW Y, TableInv(s, {p}, Y), JoinFields(s, r, p, h),
           p \notin Listed(s), h \notin ToSet(s.free)
    PROVE  /\ TableInv(r, {}, Y)
           /\ Listed(r) = Listed(s)
           /\ \A x \in Pids : \A f \in Flags \ {"LEADER"} : Has(r, f, x) <=> Has(s, f, x)
<1>1. s \in Tables /\ Lists(s) /\ Flagged(s) /\ Family(s, Y) /\ Grouped(s, {p})
  BY DEF TableInv
<1>2. /\ s.status \in [Pids -> SUBSET Flags] /\ s.pgroup \in [Pids -> Pids \cup {NULL}]
      /\ s.processes \in [Pids -> SUBSET Pids] /\ NULL \notin Pids
  BY <1>1, ProcessAssumption DEF Tables
<1>3. /\ Listed(r) = Listed(s) /\ r.free = s.free /\ r.recycle = s.recycle
      /\ \A x \in Pids : /\ \A f \in Flags \ {"LEADER"} : Has(r, f, x) <=> Has(s, f, x)
                         /\ Has(r, "LEADER", x) <=> Has(s, "LEADER", x) \/ x = h
                         /\ x # h => r.status[x] = s.status[x]
  BY <1>2 DEF JoinFields, Listed, Has
<1>4. Lists(r)
  BY <1>1 DEF JoinFields, Lists
<1>5. Flagged(r)
  <2>1. \A x \in Pids : r.status[x] = {"UNUSED"} <=> s.status[x] = {"UNUSED"}
    <3>1. s.status[h] # {"UNUSED"} /\ r.status[h] # {"UNUSED"}
      BY <1>1, <1>3 DEF Flagged, Has
    <3> QED BY <1>3, <3>1
  <2>2. \A x \in Pids : /\ Has(r, "INIT", x) <=> Has(s, "INIT", x)
                        /\ Has(r, "EXIT", x) <=> Has(s, "EXIT", x)
                        /\ Has(r, "ZOMBIES", x) <=> Has(s, "ZOMBIES", x)
                        /\ Has(r, "UNUSED", x) <=> Has(s, "UNUSED", x)
                        /\ Has(s, "LEADER", x) => Has(r, "LEADER", x)
    BY <1>3 DEF Flags
  <2> QED BY <1>1, <1>3, <2>1, <2>2 DEF Flagged
<1>6. Family(r, Y)
  <2>1. \A x \in Pids : /\ Has(r, "INIT", x) <=> Has(s, "INIT", x)
                        /\ Has(r, "ZOMBIES", x) <=> Has(s, "ZOMBIES", x)
    BY <1>3 DEF Flags
  <2>2. r.parent = s.parent /\ r.children = s.children /\ r.exitChildren = s.exitChildren
    BY DEF JoinFields
  <2>3. \A x \in Pids : ToSet(s.exitChildren[x]) \subseteq Pids
    BY <1>1, ToSetIn DEF Tables
  <2> QED BY <1>1, <1>3, <2>1, <2>2, <2>3 DEF Family
<1>7. Grouped(r, {})
  <2>1. SUFFICES ASSUME NEW x \in Pids
                 PROVE  /\ r.pgroup[x] # NULL <=> (x \notin Listed(r) \/ Has(r, "ZOMBIES", x)) /\ x \notin {}
                        /\ \A g \in Pids :
                             /\ x \in r.processes[g] <=> r.pgroup[x] = g /\ ~Has(r, "ZOMBIES", x)
                             /\ x \in ToSet(r.exitProcesses[g]) <=> r.pgroup[x] = g /\ Has(r, "ZOMBIES", x)
                        /\ x \in r.groups <=> \E q \in Pids : r.pgroup[q] = x
                        /\ x \in r.groups <=> Has(r, "LEADER", x)
    BY DEF Grouped
  <2>2. /\ Has(r, "ZOMBIES", x) <=> Has(s, "ZOMBIES", x)
        /\ ~Has(s, "ZOMBIES", p) /\ s.pgroup[p] = NULL
    BY <1>1, <1>3 DEF Flags, Flagged, Grouped, Listed
  <2>3. /\ \A q \in Pids : r.pgroup[q] = IF q = p THEN h ELSE s.pgroup[q]
        /\ \A g \in Pids : r.processes[g] = IF g = h THEN s.processes[g] \cup {p} ELSE s.processes[g]
        /\ r.groups = s.groups \cup {h} /\ r.exitProcesses = s.exitProcesses
    BY <1>2 DEF JoinFields
  <2>4. r.pgroup[x] # NULL <=> (x \notin Listed(r) \/ Has(r, "ZOMBIES", x)) /\ x \notin {}
    BY <1>1, <1>2, <1>3, <2>2, <2>3 DEF Grouped
  <2>5. ASSUME NEW g \in Pids
        PROVE  /\ x \in r.processes[g] <=> r.pgroup[x] = g /\ ~Has(r, "ZOMBIES", x)
               /\ x \in ToSet(r.exitProcesses[g]) <=> r.pgroup[x] = g /\ Has(r, "ZOMBIES", x)
    <3>1. /\ x \in s.processes[g] <=> s.pgroup[x] = g /\ ~Has(s, "ZOMBIES", x)
          /\ x \in ToSet(s.exitProcesses[g]) <=> s.pgroup[x] = g /\ Has(s, "ZOMBIES", x)
      BY <1>1 DEF Grouped
    <3>2. CASE x = p
      BY <1>2, <2>2, <2>3, <3>1, <3>2
    <3>3. CASE x # p
      BY <2>2, <2>3, <3>1, <3>3
    <3> QED BY <3>2, <3>3
  <2>6. x \in r.groups <=> \E q \in Pids : r.pgroup[q] = x
    <3>1. x \in s.groups <=> \E q \in Pids : s.pgroup[q] = x
      BY <1>1 DEF Grouped
    <3> QED BY <1>2, <2>2, <2>3, <3>1
  <2>7. x \in r.groups <=> Has(r, "LEADER", x)
    BY <1>1, <1>3, <2>3 DEF Grouped
  <2> QED BY <2>4, <2>5, <2>6, <2>7
<1>8. Relics(r)
  <2>1. \A x \in Pids : /\ Has(r, "ZOMBIES", x) <=> Has(s, "ZOMBIES", x)
                        /\ Has(r, "UNUSED", x) <=> Has(s, "UNUSED", x)
    BY <1>3 DEF Flags
  <2> QED BY <1>3, <2>1 DEF TableInv, Relics, JoinFields
<1> QED BY <1>3, <1>4, <1>5, <1>6, <1>7, <1>8 DEF TableInv, JoinFields

LEMMA SetGroupKeeps ==
    ASSUME NEW s, NEW p \in Pids, NEW g \in Pids, NEW memory \in BOOLEAN, TableInv(s, {}, {}),
           p \notin Listed(s), p # g => Has(s, "LEADER", g),
           memory \/ s.pgroup[p] \notin ToSet(ExitProcessGroup(s, p).free)
    PROVE  TableInv(SetGroup(s, p, g, memory), {}, {}) /\ Calm(s, SetGroup(s, p, g, memory))
<1> DEFINE l == ExitProcessGroup(s, p)
           r == SetGroup(s, p, g, memory)
<1>1. s \in Tables /\ Flagged(s) /\ Grouped(s, {})
  BY DEF TableInv
<1>2. PICK old \in Pids : s.pgroup[p] = old
  BY <1>1 DEF Grouped, Tables
<1>3. s.pgroup[p] # NULL /\ NULL \notin Pids
  BY <1>2, ProcessAssumption
<1>4. TableInv(l, {p}, {}) /\ ExitEffect(s, l, p)
  BY <1>3, ExitProcessGroupKeeps
<1>5. r = IF old = g THEN s
          ELSE IF g \in l.groups THEN [l EXCEPT !.processes[g] = @ \cup {p}, !.pgroup[p] = g]
          ELSE IF memory THEN OsCreateProcessGroup(l, g) ELSE BackToOldGroup(s, p, l)
  BY <1>2 DEF SetGroup
<1>6. memory \/ old \notin ToSet(l.free)
  BY <1>2
<1> HIDE DEF l, r
<1>7. /\ l \in Tables /\ Flagged(l) /\ Grouped(l, {p}) /\ p \notin Listed(l)
      /\ l.status \in [Pids -> SUBSET Flags] /\ l.pgroup \in [Pids -> Pids \cup {NULL}]
      /\ l.processes \in [Pids -> SUBSET Pids] /\ l.groups \in SUBSET Pids /\ "LEADER" \in Flags
      /\ s.pgroup \in [Pids -> Pids \cup {NULL}]
  BY <1>1, <1>4 DEF TableInv, ExitEffect, Tables, Flags
<1>8. CASE old = g
  BY <1>5, <1>8, CalmSelf DEF r
<1>9. CASE old # g
  <2>1. g \notin l.groups => p = g
    <3>1. SUFFICES ASSUME p # g PROVE g \in l.groups
      OBVIOUS
    <3>2. PICK q \in Pids : s.pgroup[q] = g
      BY <1>1, <3>1 DEF Grouped
    <3>3. l.pgroup[q] = g
      BY <1>2, <1>4, <1>7, <1>9, <3>2 DEF ExitEffect
    <3> QED BY <1>7, <3>3 DEF Grouped
  <2>2. \E h \in Pids : JoinFields(l, r, p, h) /\ h \notin ToSet(l.free)
    <3>1. CASE g \in l.groups
      <4>1. Has(l, "LEADER", g) /\ g \notin ToSet(l.free)
        BY <1>7, <3>1 DEF Grouped, Flagged, Has
      <4>2. l.status = [l.status EXCEPT ![g] = @ \cup {"LEADER"}]
        BY <1>7, <4>1 DEF Has
      <4>3. l.groups = l.groups \cup {g}
        BY <3>1
      <4>4. r = [l EXCEPT !.processes[g] = @ \cup {p}, !.pgroup[p] = g]
        BY <1>5, <1>9, <3>1
      <4>5. /\ r \in Tables /\ r.processes = [l.processes EXCEPT ![g] = @ \cup {p}]
            /\ r.pgroup = [l.pgroup EXCEPT ![p] = g] /\ r.status = l.status /\ r.groups = l.groups
            /\ r.parent = l.parent /\ r.children = l.children /\ r.exitChildren = l.exitChildren
            /\ r.exitProcesses = l.exitProcesses /\ r.free = l.free /\ r.recycle = l.recycle
        BY <1>7, <4>4 DEF Tables
      <4>6. JoinFields(l, r, p, g)
        BY <4>2, <4>3, <4>5 DEF JoinFields
      <4> QED BY <1>7, <4>1, <4>6 DEF Flagged
    <3>2. CASE g \notin l.groups /\ memory
      <4>1. p = g /\ l.processes[g] = {}
        <5>1. \A q \in Pids : q \notin l.processes[g]
          BY <1>7, <3>2 DEF Grouped
        <5> QED BY <1>7, <2>1, <3>2, <5>1
      <4>2. r = [l EXCEPT !.groups = @ \cup {p}, !.processes[p] = {p}, !.pgroup[p] = p,
                          !.status[p] = @ \cup {"LEADER"}]
        BY <1>5, <1>9, <3>2, <4>1 DEF OsCreateProcessGroup
      <4>3. /\ r \in Tables /\ r.processes = [l.processes EXCEPT ![p] = {p}]
            /\ r.pgroup = [l.pgroup EXCEPT ![p] = p] /\ r.status = [l.status EXCEPT ![p] = @ \cup {"LEADER"}]
            /\ r.groups = l.groups \cup {p}
            /\ r.parent = l.parent /\ r.children = l.children /\ r.exitChildren = l.exitChildren
            /\ r.exitProcesses = l.exitProcesses /\ r.free = l.free /\ r.recycle = l.recycle
        <5>1. PICK st \in [Pids -> SUBSET Flags] : st = [l.status EXCEPT ![p] = @ \cup {"LEADER"}]
          BY <1>7
        <5>2. PICK ps \in [Pids -> SUBSET Pids] : ps = [l.processes EXCEPT ![p] = {p}]
          BY <1>7
        <5>3. PICK pg \in [Pids -> Pids \cup {NULL}] : pg = [l.pgroup EXCEPT ![p] = p]
          BY <1>7
        <5>4. PICK gr \in SUBSET Pids : gr = l.groups \cup {p}
          BY <1>7
        <5>5. r = [l EXCEPT !.groups = gr, !.processes = ps, !.pgroup = pg, !.status = st]
          BY <1>7, <4>2, <5>1, <5>2, <5>3, <5>4 DEF Tables
        <5>6. /\ r \in Tables /\ r.processes = ps /\ r.pgroup = pg /\ r.status = st /\ r.groups = gr
              /\ r.parent = l.parent /\ r.children = l.children /\ r.exitChildren = l.exitChildren
              /\ r.exitProcesses = l.exitProcesses /\ r.free = l.free /\ r.recycle = l.recycle
          BY <1>7, <5>5 DEF Tables
        <5> QED BY <5>1, <5>2, <5>3, <5>4, <5>6
      <4>4. r.processes = [l.processes EXCEPT ![p] = @ \cup {p}]
        BY <4>1, <4>3
      <4>5. JoinFields(l, r, p, p)
        BY <4>3, <4>4 DEF JoinFields
      <4>6. p \notin ToSet(l.free) /\ p \notin ToSet(l.recycle)
        BY <1>7 DEF Listed
      <4> QED BY <4>5, <4>6
    <3>3. CASE g \notin l.groups /\ ~memory
      <4>1. r = [l EXCEPT !.processes[old] = @ \cup {p}, !.pgroup[p] = old, !.groups = @ \cup {old},
                          !.status[old] = IF old \in l.groups THEN @ ELSE @ \cup {"LEADER"}]
        BY <1>2, <1>5, <1>9, <3>3 DEF BackToOldGroup
      <4>2. /\ r \in Tables /\ r.processes = [l.processes EXCEPT ![old] = @ \cup {p}]
            /\ r.pgroup = [l.pgroup EXCEPT ![p] = old]
            /\ r.status = [l.status EXCEPT ![old] = IF old \in l.groups THEN @ ELSE @ \cup {"LEADER"}]
            /\ r.groups = l.groups \cup {old}
            /\ r.parent = l.parent /\ r.children = l.children /\ r.exitChildren = l.exitChildren
            /\ r.exitProcesses = l.exitProcesses /\ r.free = l.free /\ r.recycle = l.recycle
        <5>1. PICK st \in [Pids -> SUBSET Flags] :
                  st = [l.status EXCEPT ![old] = IF old \in l.groups THEN @ ELSE @ \cup {"LEADER"}]
          BY <1>7
        <5>2. PICK ps \in [Pids -> SUBSET Pids] : ps = [l.processes EXCEPT ![old] = @ \cup {p}]
          BY <1>7
        <5>3. PICK pg \in [Pids -> Pids \cup {NULL}] : pg = [l.pgroup EXCEPT ![p] = old]
          BY <1>7
        <5>4. PICK gr \in SUBSET Pids : gr = l.groups \cup {old}
          BY <1>7
        <5>5. r = [l EXCEPT !.groups = gr, !.processes = ps, !.pgroup = pg, !.status = st]
          BY <1>7, <4>1, <5>1, <5>2, <5>3, <5>4 DEF Tables
        <5>6. /\ r \in Tables /\ r.processes = ps /\ r.pgroup = pg /\ r.status = st /\ r.groups = gr
              /\ r.parent = l.parent /\ r.children = l.children /\ r.exitChildren = l.exitChildren
              /\ r.exitProcesses = l.exitProcesses /\ r.free = l.free /\ r.recycle = l.recycle
          BY <1>7, <5>5 DEF Tables
        <5> QED BY <5>1, <5>2, <5>3, <5>4, <5>6
      <4>3. old \in l.groups => l.status[old] = l.status[old] \cup {"LEADER"}
        BY <1>7 DEF Grouped, Has
      <4>4. r.status = [l.status EXCEPT ![old] = @ \cup {"LEADER"}]
        BY <4>2, <4>3
      <4>5. JoinFields(l, r, p, old)
        BY <4>2, <4>4 DEF JoinFields
      <4> QED BY <1>6, <3>3, <4>5
    <3> QED BY <3>1, <3>2, <3>3
  <2>3. PICK h \in Pids : JoinFields(l, r, p, h) /\ h \notin ToSet(l.free)
    BY <2>2
  <2>4. /\ TableInv(r, {}, {}) /\ Listed(r) = Listed(l)
        /\ \A x \in Pids : \A f \in Flags \ {"LEADER"} : Has(r, f, x) <=> Has(l, f, x)
    BY <1>4, <1>7, <2>3, JoinKeeps
  <2>5. Calm(s, r)
    <3>1. r.children = s.children /\ r.exitChildren = s.exitChildren /\ Listed(r) = Listed(s)
      BY <1>4, <2>3, <2>4 DEF ExitEffect, JoinFields
    <3>2. ASSUME NEW x \in Pids
          PROVE /\ Has(r, "INIT", x) <=> Has(s, "INIT", x)
                /\ ToSet(r.exitChildren[x]) \subseteq ToSet(s.exitChildren[x])
                /\ x \notin Listed(s) => r.parent[x] = s.parent[x] /\ (Has(r, "EXIT", x) <=> Has(s, "EXIT", x))
                /\ Has(r, "ZOMBIES", x) => Has(s, "ZOMBIES", x) /\ r.pgroup[x] = s.pgroup[x]
                /\ x \in ToSet(s.recycle) /\ Has(s, "EXIT", x) => x \in ToSet(r.recycle) /\ Has(r, "EXIT", x)
      <4>1. /\ Has(r, "INIT", x) <=> Has(s, "INIT", x)
            /\ Has(r, "EXIT", x) <=> Has(s, "EXIT", x)
            /\ Has(r, "ZOMBIES", x) <=> Has(s, "ZOMBIES", x)
            /\ ~Has(s, "UNUSED", x) => r.parent[x] = s.parent[x]
            /\ x \in ToSet(s.recycle) /\ Has(s, "EXIT", x) => x \in ToSet(r.recycle)
        BY <1>4, <2>3, <2>4 DEF ExitEffect, JoinFields, Flags
      <4>2. x # p => r.pgroup[x] = s.pgroup[x]
        BY <1>4, <1>7, <2>3 DEF ExitEffect, JoinFields
      <4>3. ~Has(s, "ZOMBIES", p)
        BY <1>1 DEF Flagged, Listed
      <4>4. x \notin Listed(s) => ~Has(s, "UNUSED", x)
        BY <1>1 DEF Flagged
      <4> QED BY <3>1, <4>1, <4>2, <4>3, <4>4
    <3> QED BY <3>1, <3>2 DEF Calm
  <2> QED BY <2>4, <2>5 DEF r
<1> QED BY <1>8, <1>9

-----------------------------------------------------------------------------
(* A fork                                                                   *)

\* The new process c, child of q and member of its group g, is taken off the free list.
CopyFields(s, r, c, q, g) ==
    /\ r \in Tables
    /\ r.status = [s.status EXCEPT ![c] = {"INIT"}]
    /\ r.parent = [s.parent EXCEPT ![c] = q]
    /\ r.children = [s.children EXCEPT ![q] = @ \cup {c}]
    /\ r.pgroup = [s.pgroup EXCEPT ![c] = g]
    /\ r.processes = [s.processes EXCEPT ![g] = @ \cup {c}]
    /\ r.exitChildren = s.exitChildren /\ r.groups = s.groups /\ r.exitProcesses = s.exitProcesses
    /\ r.free = Tail(s.free) /\ r.recycle = s.recycle

CopyTable(s, q) ==
    LET c == Head(s.free) IN
    [s EXCEPT !.free = Tail(@), !.status[c] = {"INIT"}, !.parent[c] = q,
              !.children[q] = @ \cup {c}, !.pgroup[c] = s.pgroup[q],
              !.processes[s.pgroup[q]] = @ \cup {c}]

LEMMA CopyTableFields ==
    ASSUME NEW s \in Tables, s.free # <<>>, NEW q \in Pids, s.pgroup[q] \in Pids
    PROVE  Head(s.free) \in Pids /\ CopyFields(s, CopyTable(s, q), Head(s.free), q, s.pgroup[q])
<1>1. s.free \in Seq(Pids)
  BY DEF Tables
<1>2. Head(s.free) \in Pids /\ Tail(s.free) \in Seq(Pids)
  BY <1>1, TailList
<1>3. PICK c \in Pids : c = Head(s.free)
  BY <1>2
<1>4. PICK g \in Pids : g = s.pgroup[q]
  OBVIOUS
<1>5. PICK fr \in Seq(Pids) : fr = Tail(s.free)
  BY <1>2
<1>6. /\ s.status \in [Pids -> SUBSET Flags] /\ s.parent \in [Pids -> Pids \cup {NULL}]
      /\ s.children \in [Pids -> SUBSET Pids] /\ s.processes \in [Pids -> SUBSET Pids]
      /\ s.pgroup \in [Pids -> Pids \cup {NULL}] /\ {"INIT"} \in SUBSET Flags
  BY DEF Tables, Flags
<1>7. PICK st \in [Pids -> SUBSET Flags] : st = [s.status EXCEPT ![c] = {"INIT"}]
  BY <1>6
<1>8. PICK pa \in [Pids -> Pids \cup {NULL}] : pa = [s.parent EXCEPT ![c] = q]
  BY <1>6
<1>9. PICK ch \in [Pids -> SUBSET Pids] : ch = [s.children EXCEPT ![q] = @ \cup {c}]
  BY <1>6
<1>10. PICK pg \in [Pids -> Pids \cup {NULL}] : pg = [s.pgroup EXCEPT ![c] = g]
  BY <1>6
<1>11. PICK ps \in [Pids -> SUBSET Pids] : ps = [s.processes EXCEPT ![g] = @ \cup {c}]
  BY <1>6
<1> DEFINE r == CopyTable(s, q)
<1>12. r = [s EXCEPT !.free = fr, !.status = st, !.parent = pa, !.children = ch, !.pgroup = pg, !.processes = ps]
  BY <1>3, <1>4, <1>5, <1>7, <1>8, <1>9, <1>10, <1>11 DEF CopyTable, Tables
<1> HIDE DEF r
<1>13. /\ r \in Tables /\ r.free = fr /\ r.status = st /\ r.parent = pa /\ r.children = ch
       /\ r.pgroup = pg /\ r.processes = ps /\ r.exitChildren = s.exitChildren
       /\ r.groups = s.groups /\ r.exitProcesses = s.exitProcesses /\ r.recycle = s.recycle
  BY <1>12 DEF Tables
<1> QED BY <1>3, <1>4, <1>5, <1>7, <1>8, <1>9, <1>10, <1>11, <1>13, Zenon DEF CopyFields, r

\* What the rest of the system sees of the fork of c by q.
ForkEffect(s, r, c, q) ==
    /\ c \in Listed(s) /\ Listed(r) = Listed(s) \ {c} /\ r.recycle = s.recycle
    /\ r.exitChildren = s.exitChildren
    /\ \A x \in Pids :
        /\ s.children[x] \subseteq r.children[x]
        /\ Has(r, "INIT", x) <=> Has(s, "INIT", x) \/ x = c
        /\ Has(r, "EXIT", x) <=> Has(s, "EXIT", x)
        /\ Has(r, "ZOMBIES", x) => r.pgroup[x] = s.pgroup[x]

LEMMA CopyKeeps ==
    ASSUME NEW s, NEW r, NEW c \in Pids, NEW q \in Pids, TableInv(s, {}, {}), s.free # <<>>, c = Head(s.free),
           q \notin Listed(s), ~Has(s, "INIT", q), CopyFields(s, r, c, q, s.pgroup[q])
    PROVE  TableInv(r, {}, {}) /\ ForkEffect(s, r, c, q) /\ c # Root
<1>1. s \in Tables /\ Lists(s) /\ Flagged(s) /\ Family(s, {}) /\ Grouped(s, {})
  BY DEF TableInv
<1>2. /\ s.status \in [Pids -> SUBSET Flags] /\ s.parent \in [Pids -> Pids \cup {NULL}]
      /\ s.children \in [Pids -> SUBSET Pids] /\ s.exitChildren \in [Pids -> Seq(Pids)]
      /\ s.processes \in [Pids -> SUBSET Pids] /\ s.exitProcesses \in [Pids -> Seq(Pids)]
      /\ s.pgroup \in [Pids -> Pids \cup {NULL}] /\ s.free \in Seq(Pids)
      /\ NULL \notin Pids
  BY <1>1, ProcessAssumption DEF Tables
<1>3. PICK g \in Pids : g = s.pgroup[q]
  BY <1>1, <1>2 DEF Grouped
<1>4. /\ ToSet(s.free) = ToSet(r.free) \cup {c} /\ c \notin ToSet(r.free) /\ IsInjective(r.free)
      /\ r.recycle = s.recycle
  <2>1. IsInjective(s.free) /\ r.free = Tail(s.free)
    BY <1>1 DEF Lists, CopyFields
  <2> QED BY <1>2, <2>1, TailList DEF CopyFields
<1>5. /\ c \in ToSet(s.free) /\ c \notin ToSet(s.recycle) /\ s.status[c] = {"UNUSED"} /\ c # Root /\ c # q
      /\ ~Has(s, "INIT", c) /\ ~Has(s, "ZOMBIES", c) /\ ~Has(s, "LEADER", c) /\ ~Has(s, "EXIT", c)
  BY <1>1, <1>4 DEF Lists, Flagged, Listed, Has
<1>6. c \in Listed(s) /\ Listed(r) = Listed(s) \ {c}
  BY <1>4, <1>5 DEF Listed
<1>7. \A x \in Pids : /\ x # c => r.status[x] = s.status[x] /\ r.parent[x] = s.parent[x] /\ r.pgroup[x] = s.pgroup[x]
                      /\ x # q => r.children[x] = s.children[x]
                      /\ x # g => r.processes[x] = s.processes[x]
  BY <1>2, <1>3 DEF CopyFields
<1>8. /\ r.status[c] = {"INIT"} /\ r.parent[c] = q /\ r.pgroup[c] = g
      /\ r.children[q] = s.children[q] \cup {c} /\ r.processes[g] = s.processes[g] \cup {c}
      /\ r.exitChildren = s.exitChildren /\ r.groups = s.groups /\ r.exitProcesses = s.exitProcesses
  BY <1>2, <1>3, SMTT(40) DEF CopyFields
<1>9. \A x \in Pids : /\ Has(r, "INIT", x) <=> Has(s, "INIT", x) \/ x = c
                      /\ Has(r, "EXIT", x) <=> Has(s, "EXIT", x)
                      /\ Has(r, "ZOMBIES", x) <=> Has(s, "ZOMBIES", x)
                      /\ Has(r, "LEADER", x) <=> Has(s, "LEADER", x)
                      /\ Has(r, "UNUSED", x) <=> Has(s, "UNUSED", x) /\ x # c
  BY <1>5, <1>7, <1>8 DEF Has
<1>10. Lists(r)
  BY <1>1, <1>4 DEF Lists
<1>11. Flagged(r)
  <2>1. Root \notin Listed(r)
    BY <1>1, <1>6 DEF Flagged
  <2>2. ASSUME NEW x \in Pids
        PROVE /\ x \in ToSet(r.free) <=> r.status[x] = {"UNUSED"}
              /\ x \in ToSet(r.recycle) =>
                     /\ ~Has(r, "INIT", x)
              /\ x \notin Listed(r) => /\ ~Has(r, "UNUSED", x)
                                       /\ ~Has(r, "INIT", x) \/ ~Has(r, "EXIT", x)
              /\ Has(r, "ZOMBIES", x) => x \in ToSet(r.recycle) /\ ~Has(r, "UNUSED", x)
    <3>1. CASE x = c
      BY <1>4, <1>5, <1>6, <1>8, <1>9, <3>1
    <3>2. CASE x # c
      BY <1>1, <1>4, <1>6, <1>7, <1>9, <3>2 DEF Flagged
    <3> QED BY <3>1, <3>2
  <2> QED BY <2>1, <2>2 DEF Flagged
<1>12. Family(r, {})
  <2>1. r.parent[Root] = NULL
    BY <1>1, <1>5, <1>7, ProcessAssumption DEF Family
  <2>2. /\ \A x \in Pids : c \notin s.children[x] /\ c \notin ToSet(s.exitChildren[x]) /\ s.children[x] \subseteq Pids
        /\ \A x \in Pids : ToSet(s.exitChildren[x]) \subseteq Pids
    <3>1. \A x \in Pids : c \notin s.children[x] /\ c \notin ToSet(s.exitChildren[x])
      BY <1>1, <1>5, <1>6 DEF Family
    <3>2. \A x \in Pids : ToSet(s.exitChildren[x]) \subseteq Pids
      BY <1>2, ToSetIn
    <3> QED BY <1>2, <3>1, <3>2
  <2>3. ASSUME NEW x \in Pids
        PROVE  /\ r.parent[x] # x
               /\ x \notin Listed(r) \cup {} \cup {Root} => r.parent[x] \in Pids /\ x \in r.children[r.parent[x]]
               /\ \A y \in r.children[x] : r.parent[y] = x /\ y \notin Listed(r)
               /\ \A y \in ToSet(r.exitChildren[x]) : r.parent[y] = x /\ Has(r, "ZOMBIES", y)
               /\ Has(r, "ZOMBIES", x) => r.parent[x] \in Pids /\ x \in ToSet(r.exitChildren[r.parent[x]])
               /\ IsInjective(r.exitChildren[x])
               /\ x \in Listed(r) \/ Has(r, "INIT", x) => r.children[x] = {} /\ r.exitChildren[x] = <<>>
    <3>1. r.parent[x] # x
      BY <1>1, <1>5, <1>7, <1>8 DEF Family
    <3>2. x \notin Listed(r) \cup {} \cup {Root} => r.parent[x] \in Pids /\ x \in r.children[r.parent[x]]
      <4>1. CASE x = c
        BY <1>8, <4>1
      <4>2. CASE x # c
        BY <1>1, <1>6, <1>7, <1>8, <4>2 DEF Family
      <4> QED BY <4>1, <4>2
    <3>3. \A y \in r.children[x] : r.parent[y] = x /\ y \notin Listed(r)
      <4>1. SUFFICES ASSUME NEW y \in r.children[x] PROVE r.parent[y] = x /\ y \notin Listed(r)
        OBVIOUS
      <4>2. CASE y = c
        <5>1. x = q
          BY <1>7, <2>2, <4>1, <4>2
        <5> QED BY <1>6, <1>8, <4>2, <5>1
      <4>3. CASE y # c
        <5>1. y \in s.children[x] /\ y \in Pids
          BY <1>7, <1>8, <2>2, <4>1, <4>3
        <5> QED BY <1>1, <1>6, <1>7, <4>3, <5>1 DEF Family
      <4> QED BY <4>2, <4>3
    <3>4. \A y \in ToSet(r.exitChildren[x]) : r.parent[y] = x /\ Has(r, "ZOMBIES", y)
      BY <1>1, <1>7, <1>8, <1>9, <2>2 DEF Family
    <3>5. Has(r, "ZOMBIES", x) => r.parent[x] \in Pids /\ x \in ToSet(r.exitChildren[r.parent[x]])
      BY <1>1, <1>5, <1>7, <1>8, <1>9 DEF Family
    <3>6. IsInjective(r.exitChildren[x])
      BY <1>1, <1>8 DEF Family
    <3>7. x \in Listed(r) \/ Has(r, "INIT", x) => r.children[x] = {} /\ r.exitChildren[x] = <<>>
      BY <1>1, <1>5, <1>6, <1>7, <1>8, <1>9 DEF Family
    <3> QED BY <3>1, <3>2, <3>3, <3>4, <3>5, <3>6, <3>7
  <2> QED BY <2>1, <2>3 DEF Family
<1>13. Grouped(r, {})
  <2>1. SUFFICES ASSUME NEW x \in Pids
                 PROVE  /\ r.pgroup[x] # NULL <=> (x \notin Listed(r) \/ Has(r, "ZOMBIES", x)) /\ x \notin {}
                        /\ \A h \in Pids :
                             /\ x \in r.processes[h] <=> r.pgroup[x] = h /\ ~Has(r, "ZOMBIES", x)
                             /\ x \in ToSet(r.exitProcesses[h]) <=> r.pgroup[x] = h /\ Has(r, "ZOMBIES", x)
                        /\ x \in r.groups <=> \E y \in Pids : r.pgroup[y] = x
                        /\ x \in r.groups <=> Has(r, "LEADER", x)
    BY DEF Grouped
  <2>2. s.pgroup[c] = NULL
    BY <1>1, <1>5, <1>6 DEF Grouped
  <2>3. r.pgroup[x] # NULL <=> (x \notin Listed(r) \/ Has(r, "ZOMBIES", x)) /\ x \notin {}
    <3>1. s.pgroup[x] # NULL <=> (x \notin Listed(s) \/ Has(s, "ZOMBIES", x))
      BY <1>1 DEF Grouped
    <3>2. CASE x = c
      BY <1>2, <1>6, <1>8, <3>2
    <3>3. CASE x # c
      BY <1>6, <1>7, <1>9, <3>1, <3>3
    <3> QED BY <3>2, <3>3
  <2>4. ASSUME NEW h \in Pids
        PROVE  /\ x \in r.processes[h] <=> r.pgroup[x] = h /\ ~Has(r, "ZOMBIES", x)
               /\ x \in ToSet(r.exitProcesses[h]) <=> r.pgroup[x] = h /\ Has(r, "ZOMBIES", x)
    <3>1. /\ x \in s.processes[h] <=> s.pgroup[x] = h /\ ~Has(s, "ZOMBIES", x)
          /\ x \in ToSet(s.exitProcesses[h]) <=> s.pgroup[x] = h /\ Has(s, "ZOMBIES", x)
      BY <1>1 DEF Grouped
    <3>2. CASE x = c
      BY <1>2, <1>5, <1>7, <1>8, <1>9, <2>2, <3>1, <3>2
    <3>3. CASE x # c
      BY <1>7, <1>8, <1>9, <3>1, <3>3
    <3> QED BY <3>2, <3>3
  <2>5. x \in r.groups <=> \E y \in Pids : r.pgroup[y] = x
    <3>1. x \in s.groups <=> \E y \in Pids : s.pgroup[y] = x
      BY <1>1 DEF Grouped
    <3>2. (\E y \in Pids : s.pgroup[y] = x) <=> \E y \in Pids : r.pgroup[y] = x
      <4>1. ASSUME NEW y \in Pids, s.pgroup[y] = x PROVE r.pgroup[y] = x
        BY <1>2, <1>7, <2>2, <4>1
      <4>2. ASSUME NEW y \in Pids, r.pgroup[y] = x PROVE \E z \in Pids : s.pgroup[z] = x
        BY <1>3, <1>7, <1>8, <4>2
      <4> QED BY <4>1, <4>2
    <3> QED BY <1>8, <3>1, <3>2
  <2>6. x \in r.groups <=> Has(r, "LEADER", x)
    BY <1>1, <1>8, <1>9 DEF Grouped
  <2> QED BY <2>3, <2>4, <2>5, <2>6
<1>14. ForkEffect(s, r, c, q)
  <2>1. \A x \in Pids : s.children[x] \subseteq r.children[x]
    BY <1>7, <1>8
  <2>2. \A x \in Pids : Has(r, "ZOMBIES", x) => r.pgroup[x] = s.pgroup[x]
    BY <1>5, <1>7, <1>9
  <2> QED BY <1>4, <1>6, <1>8, <1>9, <2>1, <2>2 DEF ForkEffect
<1>15. r \in Tables
  BY DEF CopyFields
<1>16. Relics(r)
  <2>1. \A x \in Pids : x \in ToSet(r.recycle) => x \in ToSet(s.recycle) /\ x # c
    BY <1>4, <1>5
  <2> QED BY <1>7, <1>9, <2>1 DEF TableInv, Relics
<1> QED BY <1>5, <1>10, <1>11, <1>12, <1>13, <1>14, <1>15, <1>16 DEF TableInv

-----------------------------------------------------------------------------
(* The flags of a living process                                            *)

\* Only the flags of c change, to st.
StatusFields(s, r, c, st) ==
    /\ r \in Tables /\ r.status = [s.status EXCEPT ![c] = st]
    /\ r.parent = s.parent /\ r.children = s.children /\ r.exitChildren = s.exitChildren
    /\ r.pgroup = s.pgroup /\ r.groups = s.groups /\ r.processes = s.processes
    /\ r.exitProcesses = s.exitProcesses /\ r.free = s.free /\ r.recycle = s.recycle

LEMMA StatusKeeps ==
    ASSUME NEW s, NEW r, NEW c \in Pids, NEW st \in SUBSET Flags, TableInv(s, {}, {}), c \notin Listed(s),
           StatusFields(s, r, c, st), "UNUSED" \notin st, "ZOMBIES" \notin st,
           "LEADER" \in st <=> Has(s, "LEADER", c), "INIT" \in st => Has(s, "INIT", c),
           "INIT" \notin st \/ "EXIT" \notin st
    PROVE  /\ TableInv(r, {}, {}) /\ Listed(r) = Listed(s)
           /\ \A x \in Pids : /\ x # c => r.status[x] = s.status[x]
                              /\ x = c => r.status[x] = st
<1>1. s \in Tables /\ Lists(s) /\ Flagged(s) /\ Family(s, {}) /\ Grouped(s, {})
  BY DEF TableInv
<1>2. \A x \in Pids : /\ x # c => r.status[x] = s.status[x]
                      /\ x = c => r.status[x] = st
  <2>1. s.status \in [Pids -> SUBSET Flags]
    BY <1>1 DEF Tables
  <2> QED BY <2>1 DEF StatusFields
<1>3. /\ r.free = s.free /\ r.recycle = s.recycle /\ Listed(r) = Listed(s)
      /\ r.parent = s.parent /\ r.children = s.children /\ r.exitChildren = s.exitChildren
      /\ r.pgroup = s.pgroup /\ r.groups = s.groups /\ r.processes = s.processes
      /\ r.exitProcesses = s.exitProcesses
  BY DEF StatusFields, Listed
<1>4. /\ ~Has(s, "ZOMBIES", c) /\ ~Has(s, "UNUSED", c) /\ c \notin ToSet(s.free) /\ c \notin ToSet(s.recycle)
  BY <1>1 DEF Flagged, Listed
<1>5. \A x \in Pids : /\ Has(r, "ZOMBIES", x) <=> Has(s, "ZOMBIES", x)
                      /\ Has(r, "UNUSED", x) <=> Has(s, "UNUSED", x)
                      /\ Has(r, "LEADER", x) <=> Has(s, "LEADER", x)
                      /\ Has(r, "INIT", x) => Has(s, "INIT", x)
                      /\ x # c => (Has(r, "EXIT", x) <=> Has(s, "EXIT", x))
  BY <1>2, <1>4 DEF Has
<1>6. Lists(r)
  BY <1>1, <1>3 DEF Lists
<1>7. Flagged(r)
  <2>1. ASSUME NEW x \in Pids
        PROVE /\ x \in ToSet(r.free) <=> r.status[x] = {"UNUSED"}
              /\ x \in ToSet(r.recycle) =>
                     /\ ~Has(r, "INIT", x)
              /\ x \notin Listed(r) => /\ ~Has(r, "UNUSED", x)
                                       /\ ~Has(r, "INIT", x) \/ ~Has(r, "EXIT", x)
              /\ Has(r, "ZOMBIES", x) => x \in ToSet(r.recycle) /\ ~Has(r, "UNUSED", x)
    <3>1. CASE x = c
      BY <1>2, <1>3, <1>4, <3>1 DEF Has
    <3>2. CASE x # c
      BY <1>1, <1>2, <1>3, <1>5, <3>2 DEF Flagged
    <3> QED BY <3>1, <3>2
  <2> QED BY <1>1, <1>3, <2>1 DEF Flagged
<1>8. Family(r, {})
  <2>1. \A x \in Pids : ToSet(s.exitChildren[x]) \subseteq Pids
    BY <1>1, ToSetIn DEF Tables
  <2> QED BY <1>1, <1>3, <1>5, <2>1 DEF Family
<1>9. Grouped(r, {})
  BY <1>1, <1>3, <1>5 DEF Grouped
<1>10. Relics(r)
  BY <1>3, <1>5 DEF TableInv, Relics
<1> QED BY <1>2, <1>3, <1>6, <1>7, <1>8, <1>9, <1>10 DEF TableInv, StatusFields

LEMMA StatusTable ==
    ASSUME NEW s \in Tables, NEW c \in Pids, NEW st \in SUBSET Flags
    PROVE  StatusFields(s, [s EXCEPT !.status[c] = st], c, st)
BY DEF StatusFields, Tables

-----------------------------------------------------------------------------
(* A fork fails                                                             *)

\* c has no parent any more.
Orphan(s, c) == [s EXCEPT !.children = [p \in Pids |-> @[p] \ {c}], !.parent[c] = NULL]

OrphanFields(s, r, c) ==
    /\ r.children = [p \in Pids |-> s.children[p] \ {c}]
    /\ r.status = s.status /\ r.exitChildren = s.exitChildren /\ r.pgroup = s.pgroup
    /\ r.free = s.free /\ r.recycle = s.recycle /\ r.parent[c] = NULL

LEMMA OrphanKeeps ==
    ASSUME NEW s, NEW c \in Pids, TableInv(s, {}, {}), c # Root, Has(s, "INIT", c)
    PROVE  TableInv(Orphan(s, c), {}, {c}) /\ OrphanFields(s, Orphan(s, c), c)
<1> DEFINE r == Orphan(s, c)
<1>2. s \in Tables /\ Lists(s) /\ Flagged(s) /\ Family(s, {}) /\ Grouped(s, {})
  BY DEF TableInv
<1>3. s.children \in [Pids -> SUBSET Pids] /\ s.parent \in [Pids -> Pids \cup {NULL}]
      /\ s.exitChildren \in [Pids -> Seq(Pids)]
  BY <1>2 DEF Tables
<1>4. PICK ch \in [Pids -> SUBSET Pids] : ch = [p \in Pids |-> s.children[p] \ {c}]
  BY <1>3
<1>5. PICK pa \in [Pids -> Pids \cup {NULL}] : pa = [s.parent EXCEPT ![c] = NULL]
  BY <1>3
<1>6. r = [s EXCEPT !.children = ch, !.parent = pa]
  BY <1>4, <1>5 DEF Orphan, Tables
<1> HIDE DEF r
<1>7. /\ r \in Tables /\ r.children = ch /\ r.parent = pa
      /\ r.status = s.status /\ r.exitChildren = s.exitChildren /\ r.pgroup = s.pgroup
      /\ r.processes = s.processes /\ r.exitProcesses = s.exitProcesses /\ r.groups = s.groups
      /\ r.free = s.free /\ r.recycle = s.recycle
  BY <1>2, <1>6 DEF Tables
<1>8. Lists(r) /\ Flagged(r) /\ Grouped(r, {}) /\ Listed(r) = Listed(s)
  BY <1>2, <1>7 DEF Lists, Flagged, Grouped, Listed, Has
<1>9. \A x \in Pids : /\ x # c => r.parent[x] = s.parent[x]
                      /\ r.parent[c] = NULL
                      /\ r.children[x] = s.children[x] \ {c}
                      /\ \A f : Has(r, f, x) <=> Has(s, f, x)
  BY <1>3, <1>4, <1>5, <1>7 DEF Has
<1>10. ~Has(s, "ZOMBIES", c) /\ NULL \notin Pids
  BY <1>2, ProcessAssumption DEF Flagged, Listed
<1>11. Family(r, {c})
  <2>1. r.parent[Root] = NULL
    BY <1>2, <1>9, ProcessAssumption DEF Family
  <2>2. \A x \in Pids : ToSet(s.exitChildren[x]) \subseteq Pids /\ c \notin ToSet(s.exitChildren[x])
    <3>1. \A x \in Pids : c \notin ToSet(s.exitChildren[x])
      BY <1>2, <1>10 DEF Family
    <3> QED BY <1>3, <3>1, ToSetIn
  <2>3. ASSUME NEW x \in Pids
        PROVE  /\ r.parent[x] # x
               /\ x \notin Listed(r) \cup {c} \cup {Root} => r.parent[x] \in Pids /\ x \in r.children[r.parent[x]]
               /\ \A y \in r.children[x] : r.parent[y] = x /\ y \notin Listed(r)
               /\ \A y \in ToSet(r.exitChildren[x]) : r.parent[y] = x /\ Has(r, "ZOMBIES", y)
               /\ Has(r, "ZOMBIES", x) => r.parent[x] \in Pids /\ x \in ToSet(r.exitChildren[r.parent[x]])
               /\ IsInjective(r.exitChildren[x])
               /\ x \in Listed(r) \/ Has(r, "INIT", x) => r.children[x] = {} /\ r.exitChildren[x] = <<>>
    <3>1. r.parent[x] # x
      BY <1>2, <1>9, <1>10 DEF Family
    <3>2. x \notin Listed(r) \cup {c} \cup {Root} => r.parent[x] \in Pids /\ x \in r.children[r.parent[x]]
      BY <1>2, <1>8, <1>9 DEF Family
    <3>3. ASSUME NEW y \in r.children[x] PROVE r.parent[y] = x /\ y \notin Listed(r)
      <4>1. y \in s.children[x] /\ y # c /\ y \in Pids
        BY <1>3, <1>9, <3>3
      <4> QED BY <1>2, <1>8, <1>9, <4>1 DEF Family
    <3>4. ASSUME NEW y \in ToSet(r.exitChildren[x]) PROVE r.parent[y] = x /\ Has(r, "ZOMBIES", y)
      <4>1. y \in ToSet(s.exitChildren[x]) /\ y # c /\ y \in Pids
        BY <1>7, <2>2, <3>4
      <4> QED BY <1>2, <1>9, <4>1 DEF Family
    <3>5. Has(r, "ZOMBIES", x) => r.parent[x] \in Pids /\ x \in ToSet(r.exitChildren[r.parent[x]])
      BY <1>2, <1>7, <1>9, <1>10 DEF Family
    <3>6. IsInjective(r.exitChildren[x])
      BY <1>2, <1>7 DEF Family
    <3>7. x \in Listed(r) \/ Has(r, "INIT", x) => r.children[x] = {} /\ r.exitChildren[x] = <<>>
      BY <1>2, <1>7, <1>8, <1>9 DEF Family
    <3> QED BY <3>1, <3>2, <3>3, <3>4, <3>5, <3>6, <3>7
  <2> QED BY <2>1, <2>3 DEF Family
<1>12. Relics(r)
  BY <1>7, <1>9 DEF TableInv, Relics
<1> QED BY <1>4, <1>7, <1>8, <1>9, <1>11, <1>12 DEF TableInv, OrphanFields, r

\* The block c, which has no family and no group, is put on the recycle list with flags that
\* have the resource task free it.
RecycledFields(s, r, c) ==
    /\ r \in Tables
    /\ r.children = s.children /\ r.exitChildren = s.exitChildren
    /\ r.pgroup = s.pgroup /\ r.groups = s.groups /\ r.processes = s.processes
    /\ r.exitProcesses = s.exitProcesses
    /\ r.parent[c] = NULL
    /\ \A x \in Pids : x # c => r.parent[x] = s.parent[x]
    /\ ToSet(r.free) = ToSet(s.free) \ {c} /\ ToSet(r.recycle) = ToSet(s.recycle) \cup {c}
    /\ IsInjective(r.free) /\ IsInjective(r.recycle)
    /\ \A x \in Pids : x # c => r.status[x] = s.status[x]
    /\ Has(r, "EXIT", c) /\ ~Has(r, "INIT", c) /\ ~Has(r, "ZOMBIES", c)
    /\ Has(r, "LEADER", c) <=> Has(s, "LEADER", c)

\* c has no family and is in no group in s, though it may lead one.
Unrelated(s, c) ==
    /\ s.pgroup[c] = NULL /\ ~Has(s, "ZOMBIES", c)
    /\ s.children[c] = {} /\ s.exitChildren[c] = <<>>
    /\ \A x \in Pids : c \notin s.children[x]

LEMMA RecycledKeeps ==
    ASSUME NEW s, NEW r, NEW c \in Pids, NEW X \in SUBSET {c}, NEW Y \in SUBSET {c}, TableInv(s, X, Y),
           c # Root, Unrelated(s, c), RecycledFields(s, r, c)
    PROVE  TableInv(r, {}, {}) /\ Listed(r) = Listed(s) \cup {c}
<1>1. s \in Tables /\ Lists(s) /\ Flagged(s) /\ Family(s, Y) /\ Grouped(s, X)
  BY DEF TableInv
<1>2. Listed(r) = Listed(s) \cup {c}
  BY DEF Listed, RecycledFields
<1>3. Lists(r)
  BY <1>1 DEF Lists, RecycledFields
<1>4. \A x \in Pids : /\ \A f \in {"INIT", "ZOMBIES"} : Has(r, f, x) <=> Has(s, f, x) /\ x # c
                      /\ Has(r, "LEADER", x) <=> Has(s, "LEADER", x)
  BY DEF Has, RecycledFields
<1>5. Flagged(r)
  <2>1. ASSUME NEW x \in Pids
        PROVE /\ x \in ToSet(r.free) <=> r.status[x] = {"UNUSED"}
              /\ x \in ToSet(r.recycle) =>
                     /\ ~Has(r, "INIT", x)
              /\ x \notin Listed(r) => /\ ~Has(r, "UNUSED", x)
                                       /\ ~Has(r, "INIT", x) \/ ~Has(r, "EXIT", x)
              /\ Has(r, "ZOMBIES", x) => x \in ToSet(r.recycle) /\ ~Has(r, "UNUSED", x)
    <3>1. CASE x = c
      BY <1>2, <3>1 DEF RecycledFields, Has
    <3>2. CASE x # c
      <4>1. /\ x \in ToSet(r.free) <=> x \in ToSet(s.free)
            /\ x \in ToSet(r.recycle) <=> x \in ToSet(s.recycle)
            /\ x \in Listed(r) <=> x \in Listed(s)
            /\ r.status[x] = s.status[x]
        BY <1>2, <3>2 DEF RecycledFields
      <4> QED BY <1>1, <4>1 DEF Flagged, Has
    <3> QED BY <3>1, <3>2
  <2> QED BY <1>1, <1>2, <2>1 DEF Flagged
<1>6. Family(r, {})
  <2>1. \A x \in Pids : ToSet(s.exitChildren[x]) \subseteq Pids /\ c \notin ToSet(s.exitChildren[x])
    <3>1. \A x \in Pids : c \notin ToSet(s.exitChildren[x])
      BY <1>1 DEF Family, Unrelated
    <3>2. \A x \in Pids : s.exitChildren[x] \in Seq(Pids)
      BY <1>1 DEF Tables
    <3> QED BY <3>1, <3>2, ToSetIn
  <2>2. ASSUME NEW x \in Pids
        PROVE  /\ r.parent[x] # x
               /\ x \notin Listed(r) \cup {} \cup {Root} => r.parent[x] \in Pids /\ x \in r.children[r.parent[x]]
               /\ \A y \in r.children[x] : r.parent[y] = x /\ y \notin Listed(r)
               /\ \A y \in ToSet(r.exitChildren[x]) : r.parent[y] = x /\ Has(r, "ZOMBIES", y)
               /\ Has(r, "ZOMBIES", x) => r.parent[x] \in Pids /\ x \in ToSet(r.exitChildren[r.parent[x]])
               /\ IsInjective(r.exitChildren[x])
               /\ x \in Listed(r) \/ Has(r, "INIT", x) => r.children[x] = {} /\ r.exitChildren[x] = <<>>
    <3>1. /\ \A y \in Pids : y # c => r.parent[y] = s.parent[y]
          /\ r.children = s.children /\ r.exitChildren = s.exitChildren
      BY DEF RecycledFields
    <3>2. x \notin Listed(r) \cup {} \cup {Root} => r.parent[x] \in Pids /\ x \in r.children[r.parent[x]]
      BY <1>1, <1>2, <3>1 DEF Family
    <3>3. \A y \in r.children[x] : r.parent[y] = x /\ y \notin Listed(r)
      <4>1. \A y \in s.children[x] : y # c /\ y \in Pids
        BY <1>1 DEF Unrelated, Tables
      <4> QED BY <1>1, <1>2, <3>1, <4>1 DEF Family
    <3>4. \A y \in ToSet(r.exitChildren[x]) : r.parent[y] = x /\ Has(r, "ZOMBIES", y)
      BY <1>1, <1>4, <2>1, <3>1 DEF Family
    <3>5. Has(r, "ZOMBIES", x) => r.parent[x] \in Pids /\ x \in ToSet(r.exitChildren[r.parent[x]])
      BY <1>1, <1>4, <3>1 DEF Family
    <3>6. x \in Listed(r) \/ Has(r, "INIT", x) => r.children[x] = {} /\ r.exitChildren[x] = <<>>
      BY <1>1, <1>2, <1>4, <3>1 DEF Family, Unrelated
    <3>7. r.parent[x] # x
      BY <1>1, ProcessAssumption DEF RecycledFields, Family
    <3>8. IsInjective(r.exitChildren[x])
      BY <1>1, <3>1 DEF Family
    <3> QED BY <3>2, <3>3, <3>4, <3>5, <3>6, <3>7, <3>8
  <2>3. r.parent[Root] = NULL
    BY <1>1, ProcessAssumption DEF Family, RecycledFields
  <2> QED BY <2>2, <2>3 DEF Family
<1>7. Grouped(r, {})
  <2>1. SUFFICES ASSUME NEW x \in Pids
                 PROVE  /\ r.pgroup[x] # NULL <=> (x \notin Listed(r) \/ Has(r, "ZOMBIES", x)) /\ x \notin {}
                        /\ \A h \in Pids :
                             /\ x \in r.processes[h] <=> r.pgroup[x] = h /\ ~Has(r, "ZOMBIES", x)
                             /\ x \in ToSet(r.exitProcesses[h]) <=> r.pgroup[x] = h /\ Has(r, "ZOMBIES", x)
                        /\ x \in r.groups <=> \E y \in Pids : r.pgroup[y] = x
                        /\ x \in r.groups <=> Has(r, "LEADER", x)
    BY DEF Grouped
  <2>2. /\ r.pgroup = s.pgroup /\ r.groups = s.groups /\ r.processes = s.processes
        /\ r.exitProcesses = s.exitProcesses
    BY DEF RecycledFields
  <2>3. /\ Has(r, "ZOMBIES", x) <=> Has(s, "ZOMBIES", x)
        /\ Has(r, "LEADER", x) <=> Has(s, "LEADER", x)
    BY <1>4 DEF Unrelated
  <2>4. r.pgroup[x] # NULL <=> (x \notin Listed(r) \/ Has(r, "ZOMBIES", x)) /\ x \notin {}
    <3>1. CASE x = c
      BY <1>2, <2>2, <2>3, <3>1 DEF Unrelated
    <3>2. CASE x # c
      BY <1>1, <1>2, <2>2, <2>3, <3>2 DEF Grouped
    <3> QED BY <3>1, <3>2
  <2> QED BY <1>1, <2>2, <2>3, <2>4 DEF Grouped
<1>8. Relics(r)
  <2>1. ASSUME NEW x \in Pids, x \in ToSet(r.recycle), x # c
        PROVE  Has(r, "ZOMBIES", x) \/ Has(r, "UNUSED", x) \/ r.parent[x] = NULL
    <3>1. x \in ToSet(s.recycle) /\ r.status[x] = s.status[x] /\ r.parent[x] = s.parent[x]
      BY <2>1 DEF RecycledFields
    <3> QED BY <3>1 DEF TableInv, Relics, Has
  <2>2. r.parent[c] = NULL
    BY DEF RecycledFields
  <2> QED BY <2>1, <2>2 DEF Relics
<1> QED BY <1>2, <1>3, <1>5, <1>6, <1>7, <1>8 DEF TableInv, RecycledFields

\* What the rest of the system sees when the fork of c fails.
GiveUpEffect(s, r, c) ==
    /\ Listed(r) = Listed(s) \cup {c}
    /\ r.exitChildren = s.exitChildren
    /\ \A x \in Pids :
        /\ r.children[x] = s.children[x] \ {c}
        /\ Has(r, "INIT", x) <=> Has(s, "INIT", x) /\ x # c
        /\ x # c => (Has(r, "EXIT", x) <=> Has(s, "EXIT", x))
        /\ Has(r, "ZOMBIES", x) => r.pgroup[x] = s.pgroup[x]
        /\ x \in ToSet(s.recycle) /\ Has(s, "EXIT", x) => x \in ToSet(r.recycle)

LEMMA DeInitKeeps ==
    ASSUME NEW s, NEW c \in Pids, TableInv(s, {}, {}), c # Root, Has(s, "INIT", c)
    PROVE  TableInv(OsDeInitPCB(s, c), {}, {}) /\ GiveUpEffect(s, OsDeInitPCB(s, c), c)
<1> DEFINE o == Orphan(s, c)
           a == ExitProcessGroup(o, c)
           r == OsDeInitPCB(s, c)
<1>1. s \in Tables /\ Flagged(s) /\ Family(s, {}) /\ Grouped(s, {})
  BY DEF TableInv
<1>2. c \notin Listed(s) /\ ~Has(s, "ZOMBIES", c) /\ ~Has(s, "EXIT", c) /\ s.pgroup[c] # NULL
  BY <1>1 DEF Flagged, Grouped, Listed, Has
<1>3. /\ TableInv(o, {}, {c})
      /\ o.children = [p \in Pids |-> s.children[p] \ {c}]
      /\ o.status = s.status /\ o.exitChildren = s.exitChildren /\ o.pgroup = s.pgroup
      /\ o.free = s.free /\ o.recycle = s.recycle /\ o.parent[c] = NULL
  <2>1. TableInv(o, {}, {c}) /\ OrphanFields(s, o, c)
    BY OrphanKeeps
  <2> QED BY <2>1 DEF OrphanFields
<1>4. r = [a EXCEPT !.status[c] = (@ \ {"INIT"}) \cup {"EXIT"}, !.recycle = <<c>> \o @]
  BY <1>2, <1>3 DEF OsDeInitPCB, Orphan
<1> HIDE DEF o, r
<1>5. TableInv(a, {c}, {c}) /\ ExitEffect(o, a, c)
  BY <1>2, <1>3, ExitProcessGroupKeeps
<1> HIDE DEF a
<1>6. /\ a \in Tables /\ Lists(a) /\ Flagged(a) /\ Grouped(a, {c}) /\ Listed(a) = Listed(s)
      /\ a.status \in [Pids -> SUBSET Flags] /\ a.recycle \in Seq(Pids)
      /\ a.pgroup = [s.pgroup EXCEPT ![c] = NULL] /\ a.exitChildren = s.exitChildren
      /\ a.children = [p \in Pids |-> s.children[p] \ {c}]
  BY <1>3, <1>5 DEF TableInv, Tables, ExitEffect, Listed
<1>7. \A x \in Pids : /\ Has(a, "INIT", x) <=> Has(s, "INIT", x)
                      /\ Has(a, "ZOMBIES", x) <=> Has(s, "ZOMBIES", x)
                      /\ Has(a, "EXIT", x) <=> Has(s, "EXIT", x)
                      /\ Has(a, "UNUSED", x) <=> Has(s, "UNUSED", x)
                      /\ x \in ToSet(s.recycle) /\ Has(s, "EXIT", x) => x \in ToSet(a.recycle)
  <2>1. \A x \in Pids : \A f : Has(o, f, x) <=> Has(s, f, x)
    BY <1>3 DEF Has
  <2> QED BY <1>3, <1>5, <2>1 DEF ExitEffect, Flags
<1>9. Unrelated(a, c)
  <2>1. a.pgroup[c] = NULL
    BY <1>6 DEF Grouped
  <2>2. a.children[c] = {} /\ a.exitChildren[c] = <<>>
    BY <1>1, <1>6 DEF Family
  <2> QED BY <1>2, <1>6, <1>7, <2>1, <2>2 DEF Unrelated
<1>10. RecycledFields(a, r, c)
  <2>1. PICK st \in [Pids -> SUBSET Flags] : st = [a.status EXCEPT ![c] = (@ \ {"INIT"}) \cup {"EXIT"}]
    BY <1>6 DEF Flags
  <2>2. /\ <<c>> \o a.recycle \in Seq(Pids) /\ ToSet(<<c>> \o a.recycle) = ToSet(a.recycle) \cup {c}
        /\ IsInjective(a.recycle) /\ c \notin ToSet(a.recycle) => IsInjective(<<c>> \o a.recycle)
    BY <1>6, PushList
  <2>3. PICK re \in Seq(Pids) : re = <<c>> \o a.recycle
    BY <2>2
  <2>4. r = [a EXCEPT !.status = st, !.recycle = re]
    BY <1>4, <1>6, <2>1, <2>3 DEF Tables
  <2>5. /\ r \in Tables /\ r.status = st /\ r.recycle = re /\ r.free = a.free
        /\ r.parent = a.parent /\ r.children = a.children /\ r.exitChildren = a.exitChildren
        /\ r.pgroup = a.pgroup /\ r.groups = a.groups /\ r.processes = a.processes
        /\ r.exitProcesses = a.exitProcesses
    BY <1>6, <2>4 DEF Tables
  <2>6. c \notin ToSet(a.free) /\ c \notin ToSet(a.recycle) /\ IsInjective(a.free) /\ IsInjective(a.recycle)
    BY <1>2, <1>6 DEF Listed, Lists
  <2>7. /\ ToSet(r.free) = ToSet(a.free) \ {c} /\ ToSet(r.recycle) = ToSet(a.recycle) \cup {c}
        /\ IsInjective(r.free) /\ IsInjective(r.recycle)
    BY <2>2, <2>3, <2>5, <2>6
  <2>8. \A x \in Pids : x # c => r.status[x] = a.status[x]
    BY <1>6, <2>1, <2>5
  <2>9. r.status[c] = (a.status[c] \ {"INIT"}) \cup {"EXIT"}
    BY <1>6, <2>1, <2>5
  <2>10. ~Has(a, "ZOMBIES", c)
    BY <1>2, <1>7
  <2>11. /\ Has(r, "EXIT", c) /\ ~Has(r, "INIT", c) /\ ~Has(r, "ZOMBIES", c)
         /\ Has(r, "LEADER", c) <=> Has(a, "LEADER", c)
    BY <2>9, <2>10 DEF Has
  <2>12. r.parent[c] = NULL
    <3>1. ~Has(o, "UNUSED", c)
      BY <1>1, <1>2, <1>3 DEF Flagged, Has
    <3> QED BY <1>3, <1>5, <2>5, <3>1 DEF ExitEffect
  <2> QED BY <2>5, <2>7, <2>8, <2>11, <2>12 DEF RecycledFields
<1>11. TableInv(r, {}, {}) /\ Listed(r) = Listed(a) \cup {c}
  BY <1>5, <1>9, <1>10, RecycledKeeps
<1>12. GiveUpEffect(s, r, c)
  <2>1. /\ r.exitChildren = s.exitChildren /\ r.pgroup = a.pgroup
        /\ r.children = [p \in Pids |-> s.children[p] \ {c}]
        /\ ToSet(r.recycle) = ToSet(a.recycle) \cup {c}
        /\ \A x \in Pids : x # c => r.status[x] = a.status[x]
        /\ ~Has(r, "INIT", c) /\ ~Has(r, "ZOMBIES", c)
    BY <1>6, <1>10 DEF RecycledFields
  <2>2. \A x \in Pids : x # c => a.pgroup[x] = s.pgroup[x]
    <3>1. s.pgroup \in [Pids -> Pids \cup {NULL}]
      BY <1>1 DEF Tables
    <3> QED BY <1>6, <3>1
  <2>3. \A x \in Pids : /\ Has(r, "INIT", x) <=> Has(s, "INIT", x) /\ x # c
                        /\ x # c => (Has(r, "EXIT", x) <=> Has(s, "EXIT", x))
    BY <1>7, <2>1 DEF Has
  <2> QED BY <1>6, <1>7, <1>11, <2>1, <2>2, <2>3 DEF GiveUpEffect
<1> QED BY <1>11, <1>12 DEF r

LEMMA DeInitEarlyKeeps ==
    ASSUME NEW s, NEW c \in Pids, TableInv(s, {}, {}), s.free # <<>>, c = Head(s.free),
           NEW st \in {{"INIT"}, {"UNUSED"}}
    PROVE  LET r == OsDeInitPCB([s EXCEPT !.free = Tail(@), !.status[c] = st], c) IN
           TableInv(r, {}, {}) /\ Calm(s, r)
<1> DEFINE f == [s EXCEPT !.free = Tail(@), !.status[c] = st]
           o == Orphan(f, c)
           r == OsDeInitPCB(f, c)
<1>1. s \in Tables /\ Lists(s) /\ Flagged(s) /\ Family(s, {}) /\ Grouped(s, {})
  BY DEF TableInv
<1>2. /\ s.status \in [Pids -> SUBSET Flags] /\ s.parent \in [Pids -> Pids \cup {NULL}]
      /\ s.children \in [Pids -> SUBSET Pids] /\ s.free \in Seq(Pids) /\ s.recycle \in Seq(Pids)
      /\ st \in SUBSET Flags
  BY <1>1 DEF Tables, Flags
<1>3. /\ Tail(s.free) \in Seq(Pids) /\ ToSet(s.free) = ToSet(Tail(s.free)) \cup {c}
      /\ IsInjective(Tail(s.free)) /\ c \notin ToSet(Tail(s.free))
  BY <1>1, <1>2, TailList DEF Lists
<1>4. /\ c \in ToSet(s.free) /\ c \in Listed(s) /\ c \notin ToSet(s.recycle) /\ s.status[c] = {"UNUSED"} /\ c # Root
      /\ ~Has(s, "ZOMBIES", c) /\ ~Has(s, "LEADER", c) /\ ~Has(s, "INIT", c) /\ ~Has(s, "EXIT", c)
  BY <1>1, <1>3 DEF Lists, Flagged, Listed, Has
<1>5. Unrelated(s, c)
  BY <1>1, <1>4 DEF Unrelated, Family, Grouped
<1>6. /\ f \in Tables /\ f.free = Tail(s.free) /\ f.status = [s.status EXCEPT ![c] = st]
      /\ f.parent = s.parent /\ f.children = s.children /\ f.exitChildren = s.exitChildren
      /\ f.pgroup = s.pgroup /\ f.groups = s.groups /\ f.processes = s.processes
      /\ f.exitProcesses = s.exitProcesses /\ f.recycle = s.recycle
  <2>1. PICK fr \in Seq(Pids) : fr = Tail(s.free)
    BY <1>3
  <2>2. PICK fs \in [Pids -> SUBSET Flags] : fs = [s.status EXCEPT ![c] = st]
    BY <1>2
  <2>3. f = [s EXCEPT !.free = fr, !.status = fs]
    BY <1>1, <2>1, <2>2 DEF Tables
  <2> HIDE DEF f
  <2> QED BY <1>1, <2>1, <2>2, <2>3 DEF Tables
<1> HIDE DEF f
<1>7. /\ o \in Tables /\ o.free = Tail(s.free) /\ o.status = [s.status EXCEPT ![c] = st]
      /\ o.parent = [s.parent EXCEPT ![c] = NULL] /\ o.children = s.children /\ o.exitChildren = s.exitChildren
      /\ o.pgroup = s.pgroup /\ o.groups = s.groups /\ o.processes = s.processes
      /\ o.exitProcesses = s.exitProcesses /\ o.recycle = s.recycle
  <2>1. PICK pa \in [Pids -> Pids \cup {NULL}] : pa = [s.parent EXCEPT ![c] = NULL]
    BY <1>2
  <2>2. [p \in Pids |-> s.children[p] \ {c}] = s.children
    <3>1. \A p \in Pids : s.children[p] \ {c} = s.children[p]
      BY <1>5 DEF Unrelated
    <3>2. s.children = [p \in Pids |-> s.children[p]]
      BY <1>2
    <3> QED BY <3>1, <3>2
  <2>3. o = [f EXCEPT !.children = s.children, !.parent = pa]
    BY <1>6, <2>1, <2>2, ZenonT(60) DEF Orphan, Tables
  <2> HIDE DEF o
  <2> QED BY <1>2, <1>6, <2>1, <2>3 DEF Tables
<1>8. r = [o EXCEPT !.status[c] = (@ \ {"INIT"}) \cup {"EXIT"}, !.recycle = <<c>> \o @]
  BY <1>5, <1>7 DEF OsDeInitPCB, Orphan, Unrelated
<1> HIDE DEF o, r
<1>9. RecycledFields(s, r, c)
  <2>1. o.status \in [Pids -> SUBSET Flags]
    BY <1>7 DEF Tables
  <2>2. PICK rs \in [Pids -> SUBSET Flags] : rs = [o.status EXCEPT ![c] = (@ \ {"INIT"}) \cup {"EXIT"}]
    BY <2>1 DEF Flags
  <2>3. /\ <<c>> \o s.recycle \in Seq(Pids) /\ ToSet(<<c>> \o s.recycle) = ToSet(s.recycle) \cup {c}
        /\ IsInjective(s.recycle) /\ c \notin ToSet(s.recycle) => IsInjective(<<c>> \o s.recycle)
    BY <1>2, PushList
  <2>4. PICK re \in Seq(Pids) : re = <<c>> \o s.recycle
    BY <2>3
  <2>5. r = [o EXCEPT !.status = rs, !.recycle = re]
    BY <1>7, <1>8, <2>2, <2>4 DEF Tables
  <2>6. /\ r \in Tables /\ r.status = rs /\ r.recycle = re /\ r.free = o.free
        /\ r.parent = o.parent /\ r.children = o.children /\ r.exitChildren = o.exitChildren
        /\ r.pgroup = o.pgroup /\ r.groups = o.groups /\ r.processes = o.processes
        /\ r.exitProcesses = o.exitProcesses
    BY <1>7, <2>5 DEF Tables
  <2>7. /\ ToSet(r.free) = ToSet(s.free) \ {c} /\ ToSet(r.recycle) = ToSet(s.recycle) \cup {c}
        /\ IsInjective(r.free) /\ IsInjective(r.recycle)
    BY <1>1, <1>3, <1>4, <1>7, <2>3, <2>4, <2>6 DEF Lists
  <2>8. /\ \A x \in Pids : x # c => r.status[x] = s.status[x]
        /\ r.status[c] = (st \ {"INIT"}) \cup {"EXIT"}
    BY <1>2, <1>7, <2>1, <2>2, <2>6
  <2>9. /\ Has(r, "EXIT", c) /\ ~Has(r, "INIT", c) /\ ~Has(r, "ZOMBIES", c)
        /\ Has(r, "LEADER", c) <=> Has(s, "LEADER", c)
    BY <1>4, <2>8 DEF Has
  <2>10. r.parent[c] = NULL /\ \A x \in Pids : x # c => r.parent[x] = s.parent[x]
    BY <1>2, <1>7, <2>6
  <2> QED BY <1>7, <2>6, <2>7, <2>8, <2>9, <2>10 DEF RecycledFields
<1>10. TableInv(r, {}, {}) /\ Listed(r) = Listed(s)
  <2>1. {} \in SUBSET {c}
    OBVIOUS
  <2>2. TableInv(r, {}, {}) /\ Listed(r) = Listed(s) \cup {c}
    BY <1>4, <1>5, <1>9, <2>1, RecycledKeeps
  <2> QED BY <1>4, <2>2
<1>11. Calm(s, r)
  <2>1. ASSUME NEW x \in Pids
        PROVE /\ Has(r, "INIT", x) <=> Has(s, "INIT", x)
              /\ ToSet(r.exitChildren[x]) \subseteq ToSet(s.exitChildren[x])
              /\ x \notin Listed(s) => r.parent[x] = s.parent[x] /\ (Has(r, "EXIT", x) <=> Has(s, "EXIT", x))
              /\ Has(r, "ZOMBIES", x) => Has(s, "ZOMBIES", x) /\ r.pgroup[x] = s.pgroup[x]
              /\ x \in ToSet(s.recycle) /\ Has(s, "EXIT", x) => x \in ToSet(r.recycle) /\ Has(r, "EXIT", x)
    <3>1. CASE x = c
      BY <1>4, <1>9, <3>1 DEF RecycledFields
    <3>2. CASE x # c
      BY <1>9, <3>2 DEF RecycledFields, Has
    <3> QED BY <3>1, <3>2
  <2>2. r.children = s.children
    BY <1>9 DEF RecycledFields
  <2> QED BY <1>10, <2>1, <2>2 DEF Calm
<1> QED BY <1>10, <1>11 DEF r, f

-----------------------------------------------------------------------------
(* The resource task                                                        *)

\* What the threads see of a table that changes among the blocks of the two lists only.
Quiet(s, r) ==
    /\ r.children = s.children
    /\ Listed(r) = Listed(s)
    /\ \A x \in Pids :
        /\ Has(r, "INIT", x) <=> Has(s, "INIT", x)
        /\ ToSet(r.exitChildren[x]) \subseteq ToSet(s.exitChildren[x])
        /\ x \notin Listed(s) => (Has(r, "EXIT", x) <=> Has(s, "EXIT", x))
        /\ Has(r, "ZOMBIES", x) => r.pgroup[x] = s.pgroup[x]

LEMMA CalmQuiet ==
    ASSUME NEW s, NEW r, Calm(s, r)
    PROVE  Quiet(s, r)
BY DEF Calm, Quiet

\* The table after OsProcessCBRecycleToFree has dealt with p.
PutTable(s, p) ==
    LET out == [s EXCEPT !.status[p] = @ \ {"EXIT"}, !.recycle = Without(@, p)]
    IN IF OsProcessIsPGroupLeader(out, p) \/ OsProcessIsDead(out, p)
       THEN [out EXCEPT !.recycle = Append(@, p)]
       ELSE OsInsertPCBToFreeList(out, p)

LEMMA PutKeeps ==
    ASSUME NEW s, NEW p \in Pids, TableInv(s, {}, {}), p \in ToSet(s.recycle), Has(s, "EXIT", p)
    PROVE  TableInv(PutTable(s, p), {}, {}) /\ Quiet(s, PutTable(s, p))
<1> DEFINE out == [s EXCEPT !.status[p] = @ \ {"EXIT"}, !.recycle = Without(@, p)]
           r == PutTable(s, p)
<1>1. s \in Tables /\ Lists(s) /\ Flagged(s) /\ Family(s, {}) /\ Grouped(s, {})
  BY DEF TableInv
<1>2. /\ s.status \in [Pids -> SUBSET Flags] /\ s.recycle \in Seq(Pids) /\ s.free \in Seq(Pids)
      /\ s.exitChildren \in [Pids -> Seq(Pids)] /\ s.children \in [Pids -> SUBSET Pids]
      /\ s.pgroup \in [Pids -> Pids \cup {NULL}] /\ s.parent \in [Pids -> Pids \cup {NULL}]
      /\ NULL \notin Pids
  BY <1>1, ProcessAssumption DEF Tables
<1>3. /\ Without(s.recycle, p) \in Seq(Pids) /\ ToSet(Without(s.recycle, p)) = ToSet(s.recycle) \ {p}
      /\ IsInjective(Without(s.recycle, p))
  BY <1>1, <1>2, WithoutOne DEF Lists
<1>4. /\ out \in Tables /\ out.status = [s.status EXCEPT ![p] = @ \ {"EXIT"}]
      /\ out.recycle = Without(s.recycle, p) /\ out.free = s.free
      /\ out.parent = s.parent /\ out.children = s.children /\ out.exitChildren = s.exitChildren
      /\ out.pgroup = s.pgroup /\ out.groups = s.groups /\ out.processes = s.processes
      /\ out.exitProcesses = s.exitProcesses
  <2>1. PICK st \in [Pids -> SUBSET Flags] : st = [s.status EXCEPT ![p] = @ \ {"EXIT"}]
    BY <1>2
  <2>2. PICK re \in Seq(Pids) : re = Without(s.recycle, p)
    BY <1>3
  <2>3. out = [s EXCEPT !.status = st, !.recycle = re]
    BY <1>1, <2>1, <2>2 DEF Tables
  <2> HIDE DEF out
  <2> QED BY <1>1, <2>1, <2>2, <2>3 DEF Tables
<1>5. r = IF OsProcessIsPGroupLeader(out, p) \/ OsProcessIsDead(out, p)
          THEN [out EXCEPT !.recycle = Append(@, p)] ELSE OsInsertPCBToFreeList(out, p)
  BY DEF PutTable
<1> HIDE DEF out, r
<1>6. /\ p \notin ToSet(s.free) /\ p \in Listed(s) /\ p # Root /\ ~Has(s, "INIT", p)
      /\ s.children[p] = {} /\ s.exitChildren[p] = <<>>
  BY <1>1 DEF Lists, Flagged, Listed, Family
<1>7. /\ \A x \in Pids : x # p => out.status[x] = s.status[x]
      /\ out.status[p] = s.status[p] \ {"EXIT"}
      /\ OsProcessIsPGroupLeader(out, p) <=> Has(s, "LEADER", p)
      /\ OsProcessIsDead(out, p) <=> Has(s, "ZOMBIES", p)
  BY <1>2, <1>4 DEF OsProcessIsPGroupLeader, OsProcessIsDead, Has
<1>8. \A x \in Pids : ToSet(s.exitChildren[x]) \subseteq Pids
  BY <1>2, ToSetIn
<1>9. CASE Has(s, "LEADER", p) \/ Has(s, "ZOMBIES", p)
  <2>1. r = [out EXCEPT !.recycle = Append(@, p)]
    BY <1>5, <1>7, <1>9
  <2>2. /\ Append(out.recycle, p) \in Seq(Pids) /\ ToSet(Append(out.recycle, p)) = ToSet(s.recycle)
        /\ IsInjective(Append(out.recycle, p))
    <3>1. PICK w \in Seq(Pids) : w = out.recycle /\ ToSet(w) = ToSet(s.recycle) \ {p} /\ IsInjective(w)
      BY <1>3, <1>4
    <3>2. /\ Append(w, p) \in Seq(Pids) /\ ToSet(Append(w, p)) = ToSet(w) \cup {p}
          /\ IsInjective(w) /\ p \notin ToSet(w) => IsInjective(Append(w, p))
      BY AppendList
    <3> QED BY <3>1, <3>2
  <2>3. /\ r \in Tables /\ r.recycle = Append(out.recycle, p)
        /\ r.status = out.status /\ r.free = s.free
        /\ r.parent = s.parent /\ r.children = s.children /\ r.exitChildren = s.exitChildren
        /\ r.pgroup = s.pgroup /\ r.groups = s.groups /\ r.processes = s.processes
        /\ r.exitProcesses = s.exitProcesses
    <3>1. PICK re \in Seq(Pids) : re = Append(out.recycle, p)
      BY <2>2
    <3>2. r = [out EXCEPT !.recycle = re]
      BY <1>4, <2>1, <3>1 DEF Tables
    <3> QED BY <1>4, <3>1, <3>2 DEF Tables
  <2>4. Listed(r) = Listed(s) /\ ToSet(r.recycle) = ToSet(s.recycle)
    BY <2>2, <2>3 DEF Listed
  <2>5. Lists(r)
    BY <1>1, <2>2, <2>3, <2>4 DEF Lists
  <2>6. \A x \in Pids : /\ \A f \in {"INIT", "ZOMBIES", "LEADER", "UNUSED"} : Has(r, f, x) <=> Has(s, f, x)
                        /\ x # p => r.status[x] = s.status[x]
    BY <1>7, <2>3 DEF Has
  <2>7. Flagged(r)
    <3>1. ASSUME NEW x \in Pids
          PROVE /\ x \in ToSet(r.free) <=> r.status[x] = {"UNUSED"}
                /\ x \in ToSet(r.recycle) =>
                       /\ ~Has(r, "INIT", x)
                /\ x \notin Listed(r) => /\ ~Has(r, "UNUSED", x)
                                         /\ ~Has(r, "INIT", x) \/ ~Has(r, "EXIT", x)
                /\ Has(r, "ZOMBIES", x) => x \in ToSet(r.recycle) /\ ~Has(r, "UNUSED", x)
      <4>1. CASE x = p
        <5>1. r.status[p] # {"UNUSED"}
          BY <1>9, <2>6 DEF Has
        <5> QED BY <1>1, <1>6, <1>9, <2>3, <2>4, <2>6, <4>1, <5>1 DEF Flagged
      <4>2. CASE x # p
        BY <1>1, <2>3, <2>4, <2>6, <4>2 DEF Flagged, Has
      <4> QED BY <4>1, <4>2
    <3> QED BY <1>1, <2>4, <3>1 DEF Flagged
  <2>8. Family(r, {})
    BY <1>1, <1>8, <2>3, <2>4, <2>6 DEF Family
  <2>9. Grouped(r, {})
    BY <1>1, <2>3, <2>4, <2>6 DEF Grouped
  <2>10. Quiet(s, r)
    <3>1. \A x \in Pids : x \notin Listed(s) => (Has(r, "EXIT", x) <=> Has(s, "EXIT", x))
      BY <1>6, <2>6 DEF Has
    <3> QED BY <2>3, <2>4, <2>6, <3>1 DEF Quiet
  <2>11. Relics(r)
    BY <2>3, <2>4, <2>6 DEF TableInv, Relics
  <2> QED BY <2>3, <2>5, <2>7, <2>8, <2>9, <2>10, <2>11 DEF TableInv, r
<1>10. CASE ~Has(s, "LEADER", p) /\ ~Has(s, "ZOMBIES", p)
  <2>1. r = OsInsertPCBToFreeList(out, p)
    BY <1>5, <1>7, <1>10
  <2>2. r \in Tables /\ FreeFields(out, r, p)
    BY <1>4, <2>1, InsertPCBFields
  <2>3. s.pgroup[p] = NULL
    BY <1>1, <1>6, <1>10 DEF Grouped
  <2>4. /\ ToSet(r.free) = ToSet(s.free) \cup {p} /\ IsInjective(r.free)
        /\ ToSet(r.recycle) = ToSet(s.recycle) \ {p} /\ IsInjective(r.recycle)
    <3>1. r.free = Append(s.free, p) /\ r.recycle = Without(s.recycle, p) /\ IsInjective(s.free)
      BY <1>1, <1>4, <2>2 DEF FreeFields, Lists
    <3> QED BY <1>2, <1>3, <1>6, <3>1, AppendList
  <2>5. Listed(r) = Listed(s) /\ Lists(r)
    BY <1>1, <2>4 DEF Listed, Lists
  <2>6. /\ \A x \in Pids : x # p => r.status[x] = s.status[x] /\ r.parent[x] = s.parent[x]
        /\ r.status[p] = {"UNUSED"} /\ r.parent[p] = NULL
    BY <1>2, <1>4, <1>7, <2>2 DEF FreeFields
  <2>7. r.children = s.children
    <3>1. r.children = [s.children EXCEPT ![p] = {}]
      BY <1>4, <2>2 DEF FreeFields
    <3> QED BY <1>2, <1>6, <3>1, ZenonT(60)
  <2>8. r.exitChildren = s.exitChildren
    <3>1. r.exitChildren = [s.exitChildren EXCEPT ![p] = <<>>]
      BY <1>4, <2>2 DEF FreeFields
    <3> QED BY <1>2, <1>6, <3>1, ZenonT(60)
  <2>9. r.pgroup = s.pgroup
    <3>1. r.pgroup = [s.pgroup EXCEPT ![p] = NULL]
      BY <1>4, <2>2 DEF FreeFields
    <3> QED BY <1>2, <2>3, <3>1
  <2>10. r.groups = s.groups /\ r.processes = s.processes /\ r.exitProcesses = s.exitProcesses
    BY <1>4, <2>2 DEF FreeFields
  <2>11. \A x \in Pids : \A f \in {"INIT", "ZOMBIES", "LEADER"} : Has(r, f, x) <=> Has(s, f, x)
    BY <1>6, <1>10, <2>6 DEF Has
  <2>12. Flagged(r)
    <3>1. ASSUME NEW x \in Pids
          PROVE /\ x \in ToSet(r.free) <=> r.status[x] = {"UNUSED"}
                /\ x \in ToSet(r.recycle) =>
                       /\ ~Has(r, "INIT", x)
                /\ x \notin Listed(r) => /\ ~Has(r, "UNUSED", x)
                                         /\ ~Has(r, "INIT", x) \/ ~Has(r, "EXIT", x)
                /\ Has(r, "ZOMBIES", x) => x \in ToSet(r.recycle) /\ ~Has(r, "UNUSED", x)
      <4>1. CASE x = p
        BY <1>6, <1>10, <2>4, <2>5, <2>6, <2>11, <4>1
      <4>2. CASE x # p
        BY <1>1, <2>4, <2>5, <2>6, <4>2 DEF Flagged, Has
      <4> QED BY <4>1, <4>2
    <3> QED BY <1>1, <2>5, <3>1 DEF Flagged
  <2>13. Family(r, {})
    <3>1. r.parent[Root] = NULL
      BY <1>1, <1>6, <2>6, ProcessAssumption DEF Family
    <3>2. ASSUME NEW x \in Pids
          PROVE  /\ r.parent[x] # x
                 /\ x \notin Listed(r) \cup {} \cup {Root} => r.parent[x] \in Pids /\ x \in r.children[r.parent[x]]
                 /\ \A y \in r.children[x] : r.parent[y] = x /\ y \notin Listed(r)
                 /\ \A y \in ToSet(r.exitChildren[x]) : r.parent[y] = x /\ Has(r, "ZOMBIES", y)
                 /\ Has(r, "ZOMBIES", x) => r.parent[x] \in Pids /\ x \in ToSet(r.exitChildren[r.parent[x]])
                 /\ IsInjective(r.exitChildren[x])
                 /\ x \in Listed(r) \/ Has(r, "INIT", x) => r.children[x] = {} /\ r.exitChildren[x] = <<>>
      <4>1. r.parent[x] # x
        <5>1. s.parent[x] # x
          BY <1>1 DEF Family
        <5> QED BY <1>2, <2>6, <5>1
      <4>2. x \notin Listed(r) \cup {} \cup {Root} => r.parent[x] \in Pids /\ x \in r.children[r.parent[x]]
        BY <1>1, <1>6, <2>5, <2>6, <2>7 DEF Family
      <4>3. ASSUME NEW y \in r.children[x] PROVE r.parent[y] = x /\ y \notin Listed(r)
        <5>1. y \in s.children[x] /\ y \in Pids
          BY <1>2, <2>7, <4>3
        <5>2. s.parent[y] = x /\ y \notin Listed(s) /\ y # p
          BY <1>1, <1>6, <5>1 DEF Family
        <5> QED BY <2>5, <2>6, <5>1, <5>2
      <4>4. ASSUME NEW y \in ToSet(r.exitChildren[x]) PROVE r.parent[y] = x /\ Has(r, "ZOMBIES", y)
        <5>1. y \in ToSet(s.exitChildren[x]) /\ y \in Pids
          BY <1>8, <2>8, <4>4
        <5>2. s.parent[y] = x /\ Has(s, "ZOMBIES", y) /\ y # p
          BY <1>1, <1>10, <5>1 DEF Family
        <5> QED BY <2>6, <2>11, <5>1, <5>2
      <4>5. Has(r, "ZOMBIES", x) => r.parent[x] \in Pids /\ x \in ToSet(r.exitChildren[r.parent[x]])
        BY <1>1, <1>10, <2>6, <2>8, <2>11 DEF Family
      <4>6. IsInjective(r.exitChildren[x])
        BY <1>1, <2>8 DEF Family
      <4>7. x \in Listed(r) \/ Has(r, "INIT", x) => r.children[x] = {} /\ r.exitChildren[x] = <<>>
        BY <1>1, <2>5, <2>7, <2>8, <2>11 DEF Family
      <4> QED BY <4>1, <4>2, <4>3, <4>4, <4>5, <4>6, <4>7
    <3> QED BY <3>1, <3>2 DEF Family
  <2>14. Grouped(r, {})
    BY <1>1, <2>5, <2>9, <2>10, <2>11 DEF Grouped
  <2>15. Quiet(s, r)
    <3>1. \A x \in Pids : x \notin Listed(s) => (Has(r, "EXIT", x) <=> Has(s, "EXIT", x))
      BY <1>6, <2>6 DEF Has
    <3> QED BY <2>5, <2>7, <2>8, <2>9, <2>11, <3>1 DEF Quiet
  <2>16. Relics(r)
    <3>1. ASSUME NEW x \in Pids, x \in ToSet(r.recycle)
          PROVE  Has(r, "ZOMBIES", x) \/ Has(r, "UNUSED", x) \/ r.parent[x] = NULL
      <4>1. x # p /\ x \in ToSet(s.recycle)
        BY <2>4, <3>1
      <4>2. r.status[x] = s.status[x] /\ r.parent[x] = s.parent[x]
        BY <2>6, <4>1
      <4> QED BY <4>1, <4>2 DEF TableInv, Relics, Has
    <3> QED BY <3>1 DEF Relics
  <2> QED BY <2>2, <2>5, <2>12, <2>13, <2>14, <2>15, <2>16 DEF TableInv, r
<1> QED BY <1>9, <1>10

-----------------------------------------------------------------------------
(* Threads                                                                  *)

LEMMA ProcFacts ==
    /\ \A t \in ThreadIds : Proc(t) \in Pids /\ t \in Threads[Proc(t)]
    /\ \A p \in Pids : \A t \in Threads[p] : t \in ThreadIds /\ Proc(t) = p
<1>1. ASSUME NEW t \in ThreadIds PROVE Proc(t) \in Pids /\ t \in Threads[Proc(t)]
  <2>1. \E p \in Pids : t \in Threads[p]
    BY ProcessAssumption
  <2>2. Proc(t) = CHOOSE p \in Pids : t \in Threads[p]
    BY DEF Proc, ProcOf
  <2> QED BY <2>1, <2>2
<1>2. ASSUME NEW p \in Pids, NEW t \in Threads[p] PROVE t \in ThreadIds /\ Proc(t) = p
  <2>1. t \in ThreadIds
    BY ProcessAssumption
  <2> QED BY <1>1, <2>1, ProcessAssumption
<1> QED BY <1>1, <1>2

\* A process whose threads run is alive.
LEMMA RunningFacts ==
    ASSUME TableInv(table, {}, {}), NEW t \in ThreadIds, Running(t)
    PROVE  /\ Proc(t) \in Pids /\ Proc(t) \notin Listed(table) /\ thread[t] = "RUN"
           /\ ~Has(table, "INIT", Proc(t)) /\ ~Has(table, "EXIT", Proc(t))
<1>1. Proc(t) \in Pids
  BY ProcFacts
<1>2. PICK p \in Pids : p = Proc(t)
  BY <1>1
<1>3. /\ ~Has(table, "INIT", p) /\ ~Has(table, "EXIT", p) /\ ~Has(table, "UNUSED", p)
      /\ p \notin ToSet(table.recycle) /\ thread[t] = "RUN"
  BY <1>2 DEF Running, Has
<1>4. p \notin Listed(table)
  BY <1>3 DEF TableInv, Flagged, Listed, Has
<1> QED BY <1>2, <1>3, <1>4

LEMMA QuietKeeps ==
    ASSUME TypeOK, ThreadInv, TableInv(table', {}, {}), Quiet(table, table'),
           UNCHANGED <<threadVars, forking>>
    PROVE  ThreadInv'
<1>1. /\ waitList' = waitList /\ thread' = thread /\ waitFlag' = waitFlag /\ waitID' = waitID
      /\ forking' = forking /\ abandoned' = abandoned
  BY DEF threadVars
<1>2. /\ table'.children = table.children /\ Listed(table') = Listed(table)
      /\ \A x \in Pids : /\ Has(table', "INIT", x) <=> Has(table, "INIT", x)
                         /\ ToSet(table'.exitChildren[x]) \subseteq ToSet(table.exitChildren[x])
                         /\ x \notin Listed(table) => (Has(table', "EXIT", x) <=> Has(table, "EXIT", x))
                         /\ Has(table', "ZOMBIES", x) => table'.pgroup[x] = table.pgroup[x]
  BY DEF Quiet
<1>3. Calls'
  BY <1>1, <1>2, ProcFacts DEF ThreadInv, Calls
<1>4. Forks'
  BY <1>1, <1>2, ProcessAssumption DEF ThreadInv, Forks
<1>5. Waits' /\ Sleepers'
  BY <1>1 DEF ThreadInv, Waits, Sleepers
<1>6. NoForgottenWaiter'
  <2>1. SUFFICES ASSUME NEW p \in Pids, NEW t \in Threads[p], thread'[t] = "PEND"
                 PROVE  /\ waitFlag'[t] = "PRO" => waitID'[t] \in table'.children[p] \/ t \in abandoned'
                        /\ waitFlag'[t] = "ANY" => /\ table'.children[p] # {} \/ t \in abandoned'
                                                   /\ \A c \in ToSet(table'.exitChildren[p]) : Announced(p, c)'
                        /\ waitFlag'[t] = "GID" =>
                               \A c \in ToSet(table'.exitChildren[p]) : table'.pgroup[c] = waitID'[t] => Announced(p, c)'
    BY DEF NoForgottenWaiter
  <2>2. /\ waitFlag[t] = "PRO" => waitID[t] \in table.children[p] \/ t \in abandoned
        /\ waitFlag[t] = "ANY" => /\ table.children[p] # {} \/ t \in abandoned
                                  /\ \A c \in ToSet(table.exitChildren[p]) : Announced(p, c)
        /\ waitFlag[t] = "GID" =>
               \A c \in ToSet(table.exitChildren[p]) : table.pgroup[c] = waitID[t] => Announced(p, c)
    BY <1>1, <2>1 DEF ThreadInv, NoForgottenWaiter
  <2>3. \A c : Announced(p, c) => Announced(p, c)'
    BY <1>1 DEF Announced
  <2>4. \A c \in ToSet(table'.exitChildren[p]) : c \in Pids /\ table'.pgroup[c] = table.pgroup[c]
    <3>1. ToSet(table'.exitChildren[p]) \subseteq Pids
      BY ToSetIn DEF TableInv, Tables
    <3>2. \A c \in ToSet(table'.exitChildren[p]) : Has(table', "ZOMBIES", c)
      BY DEF TableInv, Family
    <3> QED BY <1>2, <3>1, <3>2
  <2> QED BY <1>1, <1>2, <2>2, <2>3, <2>4
<1> QED BY <1>3, <1>4, <1>5, <1>6 DEF ThreadInv

\* The actions that are over when the table has changed calmly.
LEMMA CalmStep ==
    ASSUME IInv, TableInv(table', {}, {}), Calm(table, table'), resourceEvent' \in BOOLEAN,
           UNCHANGED <<threadVars, forking, recycling>>
    PROVE  IInv'
<1>1. Quiet(table, table')
  BY CalmQuiet
<1>2. ThreadInv'
  BY <1>1, QuietKeeps DEF IInv
<1>3. TypeOK'
  BY DEF IInv, TypeOK, TableInv, threadVars
<1>4. Recycler'
  BY DEF IInv, TypeOK, Recycler, Calm
<1> QED BY <1>2, <1>3, <1>4 DEF IInv

LEMMA FailsEarlyKeeps ==
    ASSUME IInv, NEW t \in ThreadIds, NEW status \in {{"INIT"}, {"UNUSED"}}, CopyProcessFailsEarly(t, status)
    PROVE  IInv'
<1>1. table.free # <<>> /\ TableInv(table, {}, {}) /\ table.free \in Seq(Pids)
  BY DEF CopyProcessFailsEarly, IInv, TableInv, Tables
<1>2. PICK c \in Pids : c = Head(table.free)
  BY <1>1, TailList
<1>3. table' = OsDeInitPCB([table EXCEPT !.free = Tail(@), !.status[c] = status], c)
  BY <1>2 DEF CopyProcessFailsEarly
<1>4. TableInv(table', {}, {}) /\ Calm(table, table')
  BY <1>1, <1>2, <1>3, DeInitEarlyKeeps
<1> QED BY <1>4, CalmStep DEF CopyProcessFailsEarly

LEMMA SetGroupIDKeeps ==
    ASSUME IInv, Unlucky = FALSE, NEW t \in ThreadIds, NEW p \in Pids, NEW g \in Pids, NEW memory \in BOOLEAN,
           OsSetProcessGroupID(t, p, g, memory)
    PROVE  IInv'
<1>1. TableInv(table, {}, {}) /\ Flagged(table)
  BY DEF IInv, TableInv
<1>2. MaySetGroup(table, Proc(t), p, g) /\ table' = SetGroup(table, p, g, memory)
  BY DEF OsSetProcessGroupID
<1>3. p \notin Listed(table)
  <2>1. /\ ~Has(table, "UNUSED", p) /\ ~Has(table, "ZOMBIES", p)
        /\ Proc(t) = table.parent[p] \/ Proc(t) = p
    BY <1>2 DEF MaySetGroup, OsProcessIsInactive, Has
  <2>2. p \notin ToSet(table.free)
    BY <1>1, <2>1 DEF Flagged, Has
  <2>3. Proc(t) \in Pids /\ Proc(t) \notin Listed(table) /\ NULL \notin Pids
    BY <1>1, RunningFacts, ProcessAssumption DEF OsSetProcessGroupID
  <2>4. p \notin ToSet(table.recycle)
    BY <1>1, <2>1, <2>3 DEF TableInv, Relics, Listed
  <2> QED BY <2>2, <2>4 DEF Listed
<1>4. p # g => Has(table, "LEADER", g)
  BY <1>2 DEF MaySetGroup, OsProcessIsPGroupLeader, Has
<1>5. memory \/ table.pgroup[p] \notin ToSet(ExitProcessGroup(table, p).free)
  BY DEF OsSetProcessGroupID, CanUndo
<1>6. TableInv(table', {}, {}) /\ Calm(table, table')
  BY <1>1, <1>2, <1>3, <1>4, <1>5, SetGroupKeeps
<1> QED BY <1>6, CalmStep DEF OsSetProcessGroupID, IInv, TypeOK

LEMMA WaitTakesKeeps ==
    ASSUME IInv, NEW t \in ThreadIds, NEW arg \in WaitArgs(Proc(t)), OsWaitTakes(t, arg)
    PROVE  IInv'
<1>1. PICK p \in Pids : p = Proc(t)
  BY ProcFacts
<1>2. /\ TableInv(table, {}, {}) /\ table \in Tables /\ Family(table, {}) /\ Grouped(table, {})
      /\ table.exitChildren[p] \in Seq(Pids) /\ table.exitProcesses \in [Pids -> Seq(Pids)]
      /\ table.children[p] \in SUBSET Pids /\ table.groups \in SUBSET Pids
  BY DEF IInv, TableInv, Tables
<1>3. \E c \in Pids : c = Head(Exited(p, arg)) /\ Has(table, "ZOMBIES", c)
  <2>1. CASE arg.flag = "PRO"
    <3>1. Exited(p, arg) = ListWithout(table.exitChildren[p], Pids \ {arg.id})
      BY <2>1 DEF Exited
    <3>2. PICK w : w = Exited(p, arg)
      OBVIOUS
    <3>3. w \in Seq(Pids) /\ ToSet(w) \subseteq ToSet(table.exitChildren[p]) /\ w # <<>>
      BY <1>1, <1>2, <3>1, <3>2, WithoutList DEF OsWaitTakes
    <3>4. Head(w) \in ToSet(w) /\ Head(w) \in Pids
      BY <3>3, TailList
    <3> QED BY <1>2, <3>2, <3>3, <3>4 DEF Family
  <2>2. CASE arg.flag = "GID"
    <3>1. arg.id \in Pids
      BY <1>1, <1>2, <2>2 DEF WaitArgs
    <3>2. PICK w : w = table.exitProcesses[arg.id]
      OBVIOUS
    <3>3. w = Exited(p, arg) /\ w \in Seq(Pids) /\ w # <<>>
      BY <1>1, <1>2, <2>2, <3>1, <3>2 DEF Exited, OsWaitTakes
    <3>4. Head(w) \in ToSet(w) /\ Head(w) \in Pids
      BY <3>3, TailList
    <3>5. PICK c \in Pids : c = Head(w)
      BY <3>4
    <3>6. Has(table, "ZOMBIES", c)
      BY <1>2, <3>1, <3>2, <3>4, <3>5 DEF Grouped
    <3> QED BY <3>3, <3>5, <3>6
  <2>3. CASE arg.flag = "ANY"
    <3>1. PICK w : w = table.exitChildren[p]
      OBVIOUS
    <3>2. w = Exited(p, arg) /\ w \in Seq(Pids) /\ w # <<>>
      BY <1>1, <1>2, <2>3, <3>1 DEF Exited, OsWaitTakes
    <3>3. Head(w) \in ToSet(w) /\ Head(w) \in Pids
      BY <3>2, TailList
    <3> QED BY <1>2, <3>1, <3>2, <3>3 DEF Family
  <2>4. arg.flag \in {"PRO", "GID", "ANY"}
    BY DEF WaitArgs
  <2> QED BY <2>1, <2>2, <2>3, <2>4
<1>4. PICK c \in Pids : c = Head(Exited(p, arg)) /\ Has(table, "ZOMBIES", c)
  BY <1>3
<1>5. table' = OsRecycleZombiesProcess(table, c)
  BY <1>1, <1>4 DEF OsWaitTakes
<1>6. TableInv(table', {}, {}) /\ Calm(table, table')
  BY <1>2, <1>4, <1>5, RecycleZombiesKeeps
<1> QED BY <1>6, CalmStep DEF OsWaitTakes, IInv, TypeOK

LEMMA WriteEventKeeps ==
    ASSUME IInv, OsWriteResourceEvent
    PROVE  IInv'
<1>1. table' = table
  BY DEF OsWriteResourceEvent
<1>2. TableInv(table', {}, {}) /\ Calm(table, table')
  BY <1>1, CalmSelf DEF IInv
<1> QED BY <1>2, CalmStep DEF OsWriteResourceEvent

LEMMA RecycleTakesKeeps ==
    ASSUME IInv, RecycleTakes
    PROVE  IInv'
<1>1. /\ table' = table /\ UNCHANGED <<threadVars, forking>> /\ TableInv(table', {}, {})
      /\ table.recycle \in Seq(Pids)
  BY DEF RecycleTakes, IInv, TableInv, Tables
<1>2. ThreadInv'
  <2>1. Quiet(table, table')
    BY <1>1, CalmSelf, CalmQuiet
  <2> QED BY <1>1, <2>1, QuietKeeps DEF IInv
<1>3. CASE table.recycle # <<>> /\ "EXIT" \in table.status[Head(table.recycle)]
  <2>1. recycling' = Head(table.recycle) /\ resourceEvent' = resourceEvent
    BY <1>3 DEF RecycleTakes
  <2>2. Head(table.recycle) \in Pids /\ Head(table.recycle) \in ToSet(table.recycle)
    BY <1>1, <1>3, TailList
  <2>3. TypeOK'
    BY <1>1, <2>1, <2>2 DEF IInv, TypeOK, threadVars
  <2>4. Recycler'
    BY <1>1, <1>3, <2>1, <2>2 DEF Recycler, Has
  <2> QED BY <1>1, <1>2, <2>3, <2>4 DEF IInv
<1>4. CASE ~(table.recycle # <<>> /\ "EXIT" \in table.status[Head(table.recycle)])
  <2>1. recycling' = recycling /\ resourceEvent' = FALSE
    BY <1>4 DEF RecycleTakes
  <2>2. TypeOK' /\ Recycler'
    BY <1>1, <2>1 DEF IInv, TypeOK, threadVars, Recycler
  <2> QED BY <1>1, <1>2, <2>2 DEF IInv
<1> QED BY <1>3, <1>4

LEMMA RecyclePutsKeeps ==
    ASSUME IInv, RecyclePuts
    PROVE  IInv'
<1>1. recycling # NULL /\ recycling \in Pids
  BY DEF RecyclePuts, IInv, TypeOK
<1>2. PICK p \in Pids : p = recycling
  BY <1>1
<1>3. table' = PutTable(table, p)
  BY <1>2 DEF RecyclePuts, PutTable
<1>4. TableInv(table', {}, {}) /\ Quiet(table, table')
  BY <1>1, <1>2, <1>3, PutKeeps DEF IInv, Recycler
<1>5. ThreadInv'
  BY <1>4, QuietKeeps DEF IInv, RecyclePuts
<1>6. TypeOK' /\ Recycler'
  BY <1>4 DEF IInv, TypeOK, TableInv, threadVars, Recycler, RecyclePuts
<1> QED BY <1>4, <1>5, <1>6 DEF IInv

LEMMA StutterKeeps ==
    ASSUME IInv, UNCHANGED vars
    PROVE  IInv'
<1>1. table' = table
  BY DEF vars
<1>2. TableInv(table', {}, {}) /\ Calm(table, table')
  BY <1>1, CalmSelf DEF IInv
<1>3. resourceEvent' \in BOOLEAN
  BY DEF vars, IInv, TypeOK
<1> QED BY <1>2, <1>3, CalmStep DEF vars, threadVars

-----------------------------------------------------------------------------
(* Forks                                                                    *)

LEMMA CopyParentKeeps ==
    ASSUME IInv, NEW t \in ThreadIds, NEW parent \in Pids, OsCopyParent(t, parent)
    PROVE  IInv'
<1>1. /\ TypeOK /\ TableInv(table, {}, {}) /\ Calls /\ Forks /\ Waits /\ Sleepers /\ NoForgottenWaiter /\ Recycler
      /\ table \in Tables /\ Family(table, {}) /\ Grouped(table, {}) /\ Flagged(table)
      /\ table.free # <<>> /\ table.free \in Seq(Pids)
      /\ thread \in [ThreadIds -> {"RUN", "FORK", "PEND", "WOKEN", "EXIT"}]
      /\ forking \in [ThreadIds -> Pids \cup {NULL}]
      /\ NULL \notin Pids
  BY ProcessAssumption DEF OsCopyParent, IInv, ThreadInv, TableInv, Tables, TypeOK
<1>2. PICK p \in Pids : p = Proc(t)
  BY ProcFacts
<1>3. p \notin Listed(table) /\ ~Has(table, "INIT", p) /\ thread[t] = "RUN"
  BY <1>1, <1>2, RunningFacts DEF OsCopyParent
<1>4. parent \notin Listed(table) /\ ~Has(table, "INIT", parent)
  <2>1. CASE parent = p
    BY <1>3, <2>1
  <2>2. CASE parent # p
    <3>1. parent = table.parent[p] /\ p # Root
      BY <1>1, <1>2, <2>2 DEF OsCopyParent, Family
    <3>2. p \in table.children[parent]
      BY <1>1, <1>3, <3>1 DEF Family
    <3> QED BY <1>1, <3>2 DEF Family
  <2> QED BY <2>1, <2>2
<1>5. table.pgroup[parent] \in Pids
  BY <1>1, <1>4 DEF Grouped, Tables
<1>6. PICK c \in Pids : c = Head(table.free)
  BY <1>1, TailList
<1>7. table' = CopyTable(table, parent)
  BY DEF OsCopyParent, CopyTable
<1>8. CopyFields(table, table', c, parent, table.pgroup[parent])
  BY <1>1, <1>5, <1>6, <1>7, CopyTableFields
<1>9. TableInv(table', {}, {}) /\ ForkEffect(table, table', c, parent) /\ c # Root
  BY <1>1, <1>4, <1>6, <1>8, CopyKeeps
<1>10. /\ c \in Listed(table) /\ Listed(table') = Listed(table) \ {c} /\ table'.recycle = table.recycle
       /\ table'.exitChildren = table.exitChildren
       /\ \A x \in Pids : /\ table.children[x] \subseteq table'.children[x]
                          /\ Has(table', "INIT", x) <=> Has(table, "INIT", x) \/ x = c
                          /\ Has(table', "EXIT", x) <=> Has(table, "EXIT", x)
                          /\ Has(table', "ZOMBIES", x) => table'.pgroup[x] = table.pgroup[x]
  BY <1>9 DEF ForkEffect
<1>11. /\ thread' = [thread EXCEPT ![t] = "FORK"] /\ forking' = [forking EXCEPT ![t] = c]
       /\ waitList' = waitList /\ waitFlag' = waitFlag /\ waitID' = waitID /\ abandoned' = abandoned
       /\ resourceEvent' = resourceEvent /\ recycling' = recycling
  BY <1>6 DEF OsCopyParent
<1>12. \A u \in ThreadIds : /\ u # t => thread'[u] = thread[u] /\ forking'[u] = forking[u]
                            /\ thread'[t] = "FORK" /\ forking'[t] = c
  BY <1>1, <1>11
<1>13. TypeOK'
  <2>1. thread' \in [ThreadIds -> {"RUN", "FORK", "PEND", "WOKEN", "EXIT"}]
    BY <1>1, <1>11
  <2>2. forking' \in [ThreadIds -> Pids \cup {NULL}]
    BY <1>1, <1>11
  <2> QED BY <1>1, <1>9, <1>11, <2>1, <2>2 DEF TypeOK, TableInv
<1>14. Calls'
  <2>1. SUFFICES ASSUME NEW u \in ThreadIds
                 PROVE  /\ thread'[u] # "RUN" => Proc(u) \notin Listed(table') /\ ~Has(table', "INIT", Proc(u))
                        /\ thread'[u] = "FORK" <=> forking'[u] # NULL
                        /\ thread'[u] = "EXIT" => Proc(u) # Root /\ Has(table', "EXIT", Proc(u))
                        /\ thread'[u] = "WOKEN" => waitID'[u] \in Pids \cup {INVALID}
    BY DEF Calls
  <2>2. CASE u = t
    BY <1>1, <1>2, <1>3, <1>10, <1>12, <2>2
  <2>3. CASE u # t
    <3>1. /\ thread[u] # "RUN" => Proc(u) \notin Listed(table) /\ ~Has(table, "INIT", Proc(u))
          /\ thread[u] = "FORK" <=> forking[u] # NULL
          /\ thread[u] = "EXIT" => Proc(u) # Root /\ Has(table, "EXIT", Proc(u))
          /\ thread[u] = "WOKEN" => waitID[u] \in Pids \cup {INVALID}
          /\ Proc(u) \in Pids
      BY <1>1, ProcFacts DEF Calls
    <3> QED BY <1>10, <1>11, <1>12, <2>3, <3>1
  <2> QED BY <2>2, <2>3
<1>15. Forks'
  <2>1. ~Has(table, "INIT", c)
    BY <1>1, <1>10 DEF Flagged, Listed, Has
  <2>2. \A u \in ThreadIds : forking[u] # c
    BY <1>1, <2>1 DEF Forks
  <2>3. forking[t] = NULL
    BY <1>1, <1>3 DEF Calls
  <2>4. ASSUME NEW x \in Pids PROVE Has(table', "INIT", x) <=> \E u \in ThreadIds : forking'[u] = x
    <3>1. Has(table, "INIT", x) <=> \E u \in ThreadIds : forking[u] = x
      BY <1>1 DEF Forks
    <3>2. ASSUME NEW u \in ThreadIds, forking[u] = x PROVE forking'[u] = x
      BY <1>1, <1>12, <2>3, <3>2
    <3>3. ASSUME NEW u \in ThreadIds, forking'[u] = x, x # c PROVE forking[u] = x
      BY <1>12, <3>3
    <3> QED BY <1>10, <1>12, <3>1, <3>2, <3>3
  <2>5. ASSUME NEW u \in ThreadIds, NEW v \in ThreadIds, forking'[u] = forking'[v], forking'[u] # NULL
        PROVE  u = v
    BY <1>1, <1>12, <2>2, <2>5 DEF Forks
  <2>6. ~Has(table', "INIT", Root)
    BY <1>1, <1>9, <1>10, ProcessAssumption DEF Forks
  <2> QED BY <2>4, <2>5, <2>6 DEF Forks
<1>16. Waits' /\ Sleepers'
  <2>1. \A u \in ThreadIds : thread'[u] = "PEND" <=> thread[u] = "PEND"
    BY <1>3, <1>12
  <2>2. \A q \in Pids : {u \in Threads[q] : thread'[u] = "PEND"} = {u \in Threads[q] : thread[u] = "PEND"}
    BY <2>1, ProcFacts
  <2> QED BY <1>1, <1>11, <2>1, <2>2 DEF Waits, Sleepers
<1>17. NoForgottenWaiter'
  <2>1. SUFFICES ASSUME NEW q \in Pids, NEW u \in Threads[q], thread'[u] = "PEND"
                 PROVE  /\ waitFlag'[u] = "PRO" => waitID'[u] \in table'.children[q] \/ u \in abandoned'
                        /\ waitFlag'[u] = "ANY" => /\ table'.children[q] # {} \/ u \in abandoned'
                                                   /\ \A x \in ToSet(table'.exitChildren[q]) : Announced(q, x)'
                        /\ waitFlag'[u] = "GID" =>
                               \A x \in ToSet(table'.exitChildren[q]) : table'.pgroup[x] = waitID'[u] => Announced(q, x)'
    BY DEF NoForgottenWaiter
  <2>2. thread[u] = "PEND" /\ u \in ThreadIds
    BY <1>12, <2>1, ProcFacts
  <2>3. /\ waitFlag[u] = "PRO" => waitID[u] \in table.children[q] \/ u \in abandoned
        /\ waitFlag[u] = "ANY" => /\ table.children[q] # {} \/ u \in abandoned
                                  /\ \A x \in ToSet(table.exitChildren[q]) : Announced(q, x)
        /\ waitFlag[u] = "GID" =>
               \A x \in ToSet(table.exitChildren[q]) : table.pgroup[x] = waitID[u] => Announced(q, x)
    BY <1>1, <2>1, <2>2 DEF NoForgottenWaiter
  <2>4. ASSUME NEW x, Announced(q, x) PROVE Announced(q, x)'
    <3>1. PICK w \in Threads[q] : thread[w] = "WOKEN" /\ waitID[w] = x
      BY <2>4 DEF Announced
    <3>2. thread'[w] = "WOKEN" /\ waitID'[w] = x
      BY <1>3, <1>11, <1>12, <3>1, ProcFacts
    <3> QED BY <3>2 DEF Announced
  <2>5. \A x \in ToSet(table'.exitChildren[q]) : table'.pgroup[x] = table.pgroup[x]
    <3>1. ToSet(table'.exitChildren[q]) \subseteq Pids
      BY <1>9, ToSetIn DEF TableInv, Tables
    <3>2. \A x \in ToSet(table'.exitChildren[q]) : Has(table', "ZOMBIES", x)
      BY <1>9 DEF TableInv, Family
    <3> QED BY <1>10, <3>1, <3>2
  <2> QED BY <1>10, <1>11, <2>3, <2>4, <2>5
<1>18. Recycler'
  BY <1>1, <1>10, <1>11 DEF Recycler, TypeOK
<1> QED BY <1>9, <1>13, <1>14, <1>15, <1>16, <1>17, <1>18 DEF IInv, ThreadInv

\* A thread u of q that waits for a child still has it in table r.
StillWaits(r, q, u) ==
    /\ waitFlag[u] = "PRO" => waitID[u] \in r.children[q] \/ u \in abandoned
    /\ waitFlag[u] = "ANY" => r.children[q] # {} \/ u \in abandoned

\* What the threads see of the table when the fork of c is over.
ForkOver(s, r, c) ==
    /\ Listed(r) \subseteq Listed(s) \cup {c}
    /\ \A x \in Pids :
        /\ Has(r, "INIT", x) <=> Has(s, "INIT", x) /\ x # c
        /\ ToSet(r.exitChildren[x]) \subseteq ToSet(s.exitChildren[x])
        /\ x \notin Listed(s) \cup {c} => (Has(r, "EXIT", x) <=> Has(s, "EXIT", x))
        /\ Has(r, "ZOMBIES", x) => r.pgroup[x] = s.pgroup[x]
        /\ x \in ToSet(s.recycle) /\ Has(s, "EXIT", x) => x \in ToSet(r.recycle) /\ Has(r, "EXIT", x)

LEMMA ForkOverKeeps ==
    ASSUME IInv, NEW t \in ThreadIds, thread[t] = "FORK", NEW c, c = forking[t],
           TableInv(table', {}, {}), ForkOver(table, table', c), resourceEvent' \in BOOLEAN, ForkReturns(t),
           abandoned \subseteq abandoned' /\ abandoned' \subseteq ThreadIds,
           \A q \in Pids : \A u \in Threads[q] : thread[u] = "PEND" =>
               table'.children[q] = table.children[q] \/ u \in abandoned' \/ StillWaits(table', q, u)
    PROVE  IInv'
<1>1. /\ TypeOK /\ Calls /\ Forks /\ Waits /\ Sleepers /\ NoForgottenWaiter /\ Recycler
      /\ thread \in [ThreadIds -> {"RUN", "FORK", "PEND", "WOKEN", "EXIT"}]
      /\ forking \in [ThreadIds -> Pids \cup {NULL}] /\ NULL \notin Pids
  BY ProcessAssumption DEF IInv, ThreadInv, TypeOK
<1>2. c \in Pids /\ Has(table, "INIT", c)
  BY <1>1 DEF Calls, Forks
<1>3. /\ thread' = [thread EXCEPT ![t] = "RUN"] /\ forking' = [forking EXCEPT ![t] = NULL]
      /\ waitList' = waitList /\ waitFlag' = waitFlag /\ waitID' = waitID /\ recycling' = recycling
  BY DEF ForkReturns
<1>4. \A u \in ThreadIds : /\ u # t => thread'[u] = thread[u] /\ forking'[u] = forking[u]
                           /\ thread'[t] = "RUN" /\ forking'[t] = NULL
  BY <1>1, <1>3
<1>5. /\ Listed(table') \subseteq Listed(table) \cup {c}
      /\ \A x \in Pids :
           /\ Has(table', "INIT", x) <=> Has(table, "INIT", x) /\ x # c
           /\ ToSet(table'.exitChildren[x]) \subseteq ToSet(table.exitChildren[x])
           /\ x \notin Listed(table) \cup {c} => (Has(table', "EXIT", x) <=> Has(table, "EXIT", x))
           /\ Has(table', "ZOMBIES", x) => table'.pgroup[x] = table.pgroup[x]
           /\ x \in ToSet(table.recycle) /\ Has(table, "EXIT", x) => x \in ToSet(table'.recycle) /\ Has(table', "EXIT", x)
  BY DEF ForkOver
<1>6. TypeOK'
  <2>1. thread' \in [ThreadIds -> {"RUN", "FORK", "PEND", "WOKEN", "EXIT"}]
    BY <1>1, <1>3
  <2>2. forking' \in [ThreadIds -> Pids \cup {NULL}]
    BY <1>1, <1>3
  <2> QED BY <1>1, <1>3, <2>1, <2>2 DEF TypeOK, TableInv
<1>7. Calls'
  <2>1. SUFFICES ASSUME NEW u \in ThreadIds
                 PROVE  /\ thread'[u] # "RUN" => Proc(u) \notin Listed(table') /\ ~Has(table', "INIT", Proc(u))
                        /\ thread'[u] = "FORK" <=> forking'[u] # NULL
                        /\ thread'[u] = "EXIT" => Proc(u) # Root /\ Has(table', "EXIT", Proc(u))
                        /\ thread'[u] = "WOKEN" => waitID'[u] \in Pids \cup {INVALID}
    BY DEF Calls
  <2>2. CASE u = t
    BY <1>4, <2>2
  <2>3. CASE u # t
    <3>1. /\ thread[u] # "RUN" => Proc(u) \notin Listed(table) /\ ~Has(table, "INIT", Proc(u))
          /\ thread[u] = "FORK" <=> forking[u] # NULL
          /\ thread[u] = "EXIT" => Proc(u) # Root /\ Has(table, "EXIT", Proc(u))
          /\ thread[u] = "WOKEN" => waitID[u] \in Pids \cup {INVALID}
          /\ Proc(u) \in Pids
      BY <1>1, ProcFacts DEF Calls
    <3>2. thread[u] # "RUN" => Proc(u) # c
      BY <1>2, <3>1
    <3> QED BY <1>3, <1>4, <1>5, <2>3, <3>1, <3>2
  <2> QED BY <2>2, <2>3
<1>8. Forks'
  <2>1. ASSUME NEW x \in Pids PROVE Has(table', "INIT", x) <=> \E u \in ThreadIds : forking'[u] = x
    <3>1. Has(table, "INIT", x) <=> \E u \in ThreadIds : forking[u] = x
      BY <1>1 DEF Forks
    <3>2. ASSUME NEW u \in ThreadIds, forking[u] = x, x # c PROVE forking'[u] = x
      BY <1>4, <3>2
    <3>3. ASSUME NEW u \in ThreadIds, forking'[u] = x PROVE forking[u] = x /\ x # c
      <4>1. u # t
        BY <1>1, <1>4, <3>3
      <4> QED BY <1>1, <1>4, <3>3, <4>1 DEF Forks
    <3> QED BY <1>5, <3>1, <3>2, <3>3
  <2>2. ASSUME NEW u \in ThreadIds, NEW v \in ThreadIds, forking'[u] = forking'[v], forking'[u] # NULL
        PROVE  u = v
    BY <1>1, <1>4, <2>2 DEF Forks
  <2>3. ~Has(table', "INIT", Root)
    BY <1>1, <1>5, ProcessAssumption DEF Forks
  <2> QED BY <2>1, <2>2, <2>3 DEF Forks
<1>9. Waits' /\ Sleepers'
  <2>1. \A u \in ThreadIds : thread'[u] = "PEND" <=> thread[u] = "PEND"
    BY <1>4
  <2>2. \A q \in Pids : {u \in Threads[q] : thread'[u] = "PEND"} = {u \in Threads[q] : thread[u] = "PEND"}
    BY <2>1, ProcFacts
  <2> QED BY <1>1, <1>3, <2>1, <2>2 DEF Waits, Sleepers
<1>10. NoForgottenWaiter'
  <2>1. SUFFICES ASSUME NEW q \in Pids, NEW u \in Threads[q], thread'[u] = "PEND"
                 PROVE  /\ waitFlag'[u] = "PRO" => waitID'[u] \in table'.children[q] \/ u \in abandoned'
                        /\ waitFlag'[u] = "ANY" => /\ table'.children[q] # {} \/ u \in abandoned'
                                                   /\ \A x \in ToSet(table'.exitChildren[q]) : Announced(q, x)'
                        /\ waitFlag'[u] = "GID" =>
                               \A x \in ToSet(table'.exitChildren[q]) : table'.pgroup[x] = waitID'[u] => Announced(q, x)'
    BY DEF NoForgottenWaiter
  <2>2. /\ thread[u] = "PEND" /\ u \in ThreadIds /\ waitFlag'[u] = waitFlag[u] /\ waitID'[u] = waitID[u]
        /\ table'.children[q] = table.children[q] \/ u \in abandoned' \/ StillWaits(table', q, u)
    BY <1>3, <1>4, <2>1, ProcFacts
  <2>3. /\ waitFlag[u] = "PRO" => waitID[u] \in table.children[q] \/ u \in abandoned
        /\ waitFlag[u] = "ANY" => /\ table.children[q] # {} \/ u \in abandoned
                                  /\ \A x \in ToSet(table.exitChildren[q]) : Announced(q, x)
        /\ waitFlag[u] = "GID" =>
               \A x \in ToSet(table.exitChildren[q]) : table.pgroup[x] = waitID[u] => Announced(q, x)
    BY <1>1, <2>1, <2>2 DEF NoForgottenWaiter
  <2>4. ASSUME NEW x, Announced(q, x) PROVE Announced(q, x)'
    <3>1. PICK w \in Threads[q] : thread[w] = "WOKEN" /\ waitID[w] = x
      BY <2>4 DEF Announced
    <3>2. thread'[w] = "WOKEN" /\ waitID'[w] = x
      BY <1>3, <1>4, <3>1, ProcFacts
    <3> QED BY <3>2 DEF Announced
  <2>5. \A x \in ToSet(table'.exitChildren[q]) : x \in ToSet(table.exitChildren[q]) /\ table'.pgroup[x] = table.pgroup[x]
    <3>1. ToSet(table'.exitChildren[q]) \subseteq Pids
      BY ToSetIn DEF TableInv, Tables
    <3>2. \A x \in ToSet(table'.exitChildren[q]) : Has(table', "ZOMBIES", x)
      BY DEF TableInv, Family
    <3> QED BY <1>5, <3>1, <3>2
  <2>6. /\ waitFlag[u] = "PRO" => waitID[u] \in table'.children[q] \/ u \in abandoned'
        /\ waitFlag[u] = "ANY" => table'.children[q] # {} \/ u \in abandoned'
    BY <2>2, <2>3 DEF StillWaits
  <2> QED BY <2>2, <2>3, <2>4, <2>5, <2>6
<1>11. Recycler'
  BY <1>1, <1>3, <1>5 DEF Recycler, TypeOK
<1> QED BY <1>6, <1>7, <1>8, <1>9, <1>10, <1>11 DEF IInv, ThreadInv

LEMMA ChildReadyKeeps ==
    ASSUME IInv, NEW t \in ThreadIds, OsChildSetProcessGroupAndSched(t)
    PROVE  IInv'
<1>1. /\ TypeOK /\ TableInv(table, {}, {}) /\ Calls /\ Forks /\ Flagged(table) /\ thread[t] = "FORK"
  BY DEF IInv, ThreadInv, TableInv, OsChildSetProcessGroupAndSched
<1>2. PICK c \in Pids : c = forking[t]
  BY <1>1 DEF Calls, TypeOK
<1>3. Has(table, "INIT", c) /\ c \notin Listed(table)
  <2>1. Has(table, "INIT", c)
    BY <1>1, <1>2 DEF Forks
  <2> QED BY <1>1, <2>1 DEF Flagged, Listed, Has
<1>4. PICK s : s = IF NeedsGroup(t) THEN SetGroup(table, c, c, TRUE) ELSE table
  OBVIOUS
<1>5. TableInv(s, {}, {}) /\ Calm(table, s)
  <2>1. CASE NeedsGroup(t)
    <3>1. TRUE \in BOOLEAN
      OBVIOUS
    <3> QED BY <1>1, <1>3, <1>4, <2>1, <3>1, SetGroupKeeps
  <2>2. CASE ~NeedsGroup(t)
    BY <1>1, <1>4, <2>2, CalmSelf
  <2> QED BY <2>1, <2>2
<1>6. /\ Listed(s) = Listed(table) /\ s.children = table.children /\ c \notin Listed(s)
      /\ \A x \in Pids : /\ Has(s, "INIT", x) <=> Has(table, "INIT", x)
                         /\ x \notin Listed(table) => (Has(s, "EXIT", x) <=> Has(table, "EXIT", x))
  BY <1>3, <1>5 DEF Calm
<1>7. s \in Tables /\ Flagged(s) /\ s.status[c] \in SUBSET Flags
  BY <1>5 DEF TableInv, Tables
<1>8. PICK st \in SUBSET Flags : st = s.status[c] \ {"INIT"}
  BY <1>7
<1>9. table' = [s EXCEPT !.status[c] = st]
  BY <1>2, <1>4, <1>8 DEF OsChildSetProcessGroupAndSched
<1>10. StatusFields(s, table', c, st)
  BY <1>7, <1>9, StatusTable
<1>11. ~Has(s, "UNUSED", c) /\ ~Has(s, "ZOMBIES", c) /\ Has(s, "INIT", c) /\ ~Has(s, "EXIT", c)
  BY <1>3, <1>6, <1>7 DEF Flagged, Listed
<1>12. /\ TableInv(table', {}, {}) /\ Listed(table') = Listed(s)
       /\ \A x \in Pids : /\ x # c => table'.status[x] = s.status[x]
                          /\ x = c => table'.status[x] = st
  <2>1. /\ "UNUSED" \notin st /\ "ZOMBIES" \notin st /\ "INIT" \notin st
        /\ "LEADER" \in st <=> Has(s, "LEADER", c)
    BY <1>8, <1>11 DEF Has
  <2> QED BY <1>5, <1>6, <1>10, <2>1, StatusKeeps
<1>13. ForkOver(table, table', c)
  <2>1. /\ table'.exitChildren = s.exitChildren /\ table'.pgroup = s.pgroup /\ table'.recycle = s.recycle
    BY <1>10 DEF StatusFields
  <2>2. ASSUME NEW x \in Pids
        PROVE /\ Has(table', "INIT", x) <=> Has(table, "INIT", x) /\ x # c
              /\ ToSet(table'.exitChildren[x]) \subseteq ToSet(table.exitChildren[x])
              /\ x \notin Listed(table) \cup {c} => (Has(table', "EXIT", x) <=> Has(table, "EXIT", x))
              /\ Has(table', "ZOMBIES", x) => table'.pgroup[x] = table.pgroup[x]
              /\ x \in ToSet(table.recycle) /\ Has(table, "EXIT", x) => x \in ToSet(table'.recycle) /\ Has(table', "EXIT", x)
    <3>1. /\ ToSet(s.exitChildren[x]) \subseteq ToSet(table.exitChildren[x])
          /\ Has(s, "ZOMBIES", x) => s.pgroup[x] = table.pgroup[x]
          /\ x \in ToSet(table.recycle) /\ Has(table, "EXIT", x) => x \in ToSet(s.recycle) /\ Has(s, "EXIT", x)
      BY <1>5 DEF Calm
    <3>2. CASE x = c
      <4>1. ~Has(table', "INIT", x) /\ ~Has(table', "ZOMBIES", x)
        BY <1>8, <1>11, <1>12, <3>2 DEF Has
      <4>2. x \notin ToSet(table.recycle)
        BY <1>3, <3>2 DEF Listed
      <4> QED BY <2>1, <3>1, <3>2, <4>1, <4>2
    <3>3. CASE x # c
      <4>1. \A f : Has(table', f, x) <=> Has(s, f, x)
        BY <1>12, <3>3 DEF Has
      <4> QED BY <1>6, <2>1, <3>1, <3>3, <4>1
    <3> QED BY <3>2, <3>3
  <2> QED BY <1>6, <1>12, <2>2 DEF ForkOver
<1>14. table'.children = table.children
  BY <1>6, <1>10 DEF StatusFields
<1>15. abandoned' = abandoned /\ abandoned \subseteq ThreadIds /\ resourceEvent' \in BOOLEAN /\ ForkReturns(t)
  BY <1>1 DEF OsChildSetProcessGroupAndSched, TypeOK
<1> QED BY <1>1, <1>2, <1>12, <1>13, <1>14, <1>15, ForkOverKeeps

LEMMA FailsLateKeeps ==
    ASSUME IInv, NEW t \in ThreadIds, CopyProcessFailsLate(t)
    PROVE  IInv'
<1>1. /\ TypeOK /\ TableInv(table, {}, {}) /\ Calls /\ Forks /\ Waits /\ NoForgottenWaiter /\ Flagged(table) /\ Family(table, {})
      /\ table \in Tables /\ thread[t] = "FORK"
  BY DEF IInv, ThreadInv, TableInv, CopyProcessFailsLate
<1>2. PICK c \in Pids : c = forking[t]
  BY <1>1 DEF Calls, TypeOK
<1>3. Has(table, "INIT", c) /\ c # Root /\ c \notin Listed(table)
  <2>1. Has(table, "INIT", c) /\ c # Root
    BY <1>1, <1>2 DEF Forks
  <2> QED BY <1>1, <2>1 DEF Flagged, Listed, Has
<1>4. /\ table' = OsDeInitPCB(table, c) /\ resourceEvent' = TRUE /\ ForkReturns(t)
      /\ abandoned' = abandoned \cup WaitsOnlyFor(table.parent[c], c)
  BY <1>2 DEF CopyProcessFailsLate
<1>5. TableInv(table', {}, {}) /\ GiveUpEffect(table, table', c)
  BY <1>1, <1>3, <1>4, DeInitKeeps
<1>6. ForkOver(table, table', c)
  <2>1. ASSUME NEW x \in Pids, x \in ToSet(table.recycle), Has(table, "EXIT", x) PROVE Has(table', "EXIT", x)
    <3>1. x # c
      BY <1>3, <2>1 DEF Listed
    <3> QED BY <1>5, <2>1, <3>1 DEF GiveUpEffect
  <2> QED BY <1>5, <2>1 DEF GiveUpEffect, ForkOver
<1>7. ASSUME NEW q \in Pids, NEW u \in Threads[q], thread[u] = "PEND"
      PROVE  table'.children[q] = table.children[q] \/ u \in abandoned' \/ StillWaits(table', q, u)
  <2>1. table'.children[q] = table.children[q] \ {c}
    BY <1>5 DEF GiveUpEffect
  <2>2. CASE c \notin table.children[q]
    BY <2>1, <2>2
  <2>3. CASE c \in table.children[q] /\ u \in WaitsOnlyFor(q, c)
    BY <1>1, <1>4, <2>3 DEF Family
  <2>4. CASE c \in table.children[q] /\ u \notin WaitsOnlyFor(q, c)
    <3>1. /\ waitFlag[u] = "PRO" => waitID[u] # c
          /\ waitFlag[u] = "ANY" => table.children[q] # {c}
      BY <1>7, <2>4 DEF WaitsOnlyFor
    <3>2. waitFlag[u] = "PRO" => waitID[u] \in table.children[q] \/ u \in abandoned
      BY <1>1, <1>7 DEF NoForgottenWaiter
    <3> QED BY <2>1, <2>4, <3>1, <3>2 DEF StillWaits
  <2> QED BY <2>2, <2>3, <2>4
<1>8. abandoned \subseteq abandoned' /\ abandoned' \subseteq ThreadIds
  <2>1. table.parent[c] \in Pids
    BY <1>1, <1>3 DEF Family
  <2> QED BY <1>1, <1>4, <2>1, ProcessAssumption DEF WaitsOnlyFor, TypeOK
<1> QED BY <1>1, <1>2, <1>4, <1>5, <1>6, <1>7, <1>8, ForkOverKeeps

-----------------------------------------------------------------------------
(* Exits                                                                    *)

\* The threads in W are woken.
LEMMA WakeKeeps ==
    ASSUME TypeOK, Waits, Sleepers, NEW W, waitList' = [q \in Pids |-> ListWithout(waitList[q], W)], waitFlag' = waitFlag,
           \A u \in ThreadIds : thread'[u] = "PEND" <=> thread[u] = "PEND" /\ u \notin W
    PROVE  Waits' /\ Sleepers' /\ waitList' \in [Pids -> Seq(ThreadIds)]
<1>1. ASSUME NEW q \in Pids
      PROVE  /\ waitList'[q] \in Seq(ThreadIds)
             /\ ToSet(waitList'[q]) = {u \in Threads[q] : thread'[u] = "PEND"}
             /\ ComeFirst(waitList'[q], {u \in ThreadIds : waitFlag[u] = "PRO"})
  <2>1. PICK l \in Seq(ThreadIds) : l = waitList[q]
    BY DEF TypeOK
  <2>2. waitList'[q] = ListWithout(l, W)
    BY <2>1
  <2>3. ListWithout(l, W) \in Seq(ThreadIds) /\ ToSet(ListWithout(l, W)) = ToSet(l) \ W
    BY WithoutList
  <2>4. ToSet(l) = {u \in Threads[q] : thread[u] = "PEND"}
    BY <2>1 DEF Waits
  <2>5. PICK K : K = {u \in ThreadIds : waitFlag[u] = "PRO"}
    OBVIOUS
  <2>6. ComeFirst(l, K)
    BY <2>1, <2>5 DEF Waits
  <2>7. ComeFirst(ListWithout(l, W), K)
    BY <2>6, WithoutFirst
  <2>8. {u \in Threads[q] : thread'[u] = "PEND"} = {u \in Threads[q] : thread[u] = "PEND"} \ W
    BY ProcFacts
  <2> QED BY <2>2, <2>3, <2>4, <2>5, <2>7, <2>8
<1>2. Waits'
  BY <1>1 DEF Waits
<1>3. Sleepers'
  BY DEF Sleepers
<1>4. waitList' \in [Pids -> Seq(ThreadIds)]
  BY <1>1
<1> QED BY <1>2, <1>3, <1>4

LEMMA GroupDestroyKeeps ==
    ASSUME IInv, NEW t \in ThreadIds, OsProcessThreadGroupDestroy(t)
    PROVE  IInv'
<1>1. /\ TypeOK /\ TableInv(table, {}, {}) /\ Calls /\ Forks /\ Waits /\ Sleepers /\ NoForgottenWaiter /\ Recycler
      /\ table \in Tables /\ Flagged(table)
      /\ thread \in [ThreadIds -> {"RUN", "FORK", "PEND", "WOKEN", "EXIT"}]
      /\ waitID \in [ThreadIds -> Pids \cup {NULL, INVALID}]
  BY DEF IInv, ThreadInv, TableInv, TypeOK
<1>2. PICK p \in Pids : p = Proc(t)
  BY ProcFacts
<1>3. /\ p \notin Listed(table) /\ ~Has(table, "INIT", p) /\ thread[t] = "RUN" /\ p # Root
  BY <1>1, <1>2, RunningFacts DEF OsProcessThreadGroupDestroy
<1>4. PICK W : W = {u \in Threads[p] : thread[u] = "PEND"}
  OBVIOUS
<1>5. /\ table' = [table EXCEPT !.status[p] = @ \cup {"EXIT"}]
      /\ thread' = [u \in ThreadIds |-> IF u \in {} \cup W THEN "WOKEN" ELSE [thread EXCEPT ![t] = "EXIT"][u]]
      /\ waitID' = [u \in ThreadIds |-> IF u \in {} THEN INVALID ELSE IF u \in W THEN INVALID ELSE waitID[u]]
      /\ waitList' = [q \in Pids |-> ListWithout(waitList[q], {} \cup W)]
      /\ abandoned' = abandoned \ ({} \cup W)
      /\ waitFlag' = waitFlag /\ forking' = forking /\ resourceEvent' = resourceEvent /\ recycling' = recycling
  BY <1>2, <1>4 DEF OsProcessThreadGroupDestroy, OsWaitWakeTask
<1>6. /\ {} \cup W = W /\ t \notin W
  BY <1>3, <1>4
<1>7. /\ \A u \in ThreadIds : /\ u \in W => thread'[u] = "WOKEN" /\ waitID'[u] = INVALID /\ thread[u] = "PEND" /\ Proc(u) = p
                              /\ u \notin W => waitID'[u] = waitID[u]
                              /\ u \notin W /\ u # t => thread'[u] = thread[u]
      /\ thread'[t] = "EXIT"
  <2>1. \A u \in W : thread[u] = "PEND" /\ Proc(u) = p
    BY <1>4, ProcFacts
  <2>2. \A u \in ThreadIds : [thread EXCEPT ![t] = "EXIT"][u] = IF u = t THEN "EXIT" ELSE thread[u]
    BY <1>1
  <2> QED BY <1>5, <1>6, <2>1, <2>2
<1>8. waitList' = [q \in Pids |-> ListWithout(waitList[q], W)]
  BY <1>5, <1>6
<1>9. /\ table.status[p] \in SUBSET Flags /\ ~Has(table, "UNUSED", p) /\ ~Has(table, "ZOMBIES", p)
  BY <1>1, <1>3 DEF Tables, Flagged, Listed
<1>10. PICK st \in SUBSET Flags : st = table.status[p] \cup {"EXIT"}
  BY <1>9 DEF Flags
<1>11. StatusFields(table, table', p, st)
  <2>1. table' = [table EXCEPT !.status[p] = st]
    BY <1>5, <1>10
  <2> QED BY <1>1, <2>1, StatusTable
<1>12. /\ TableInv(table', {}, {}) /\ Listed(table') = Listed(table)
       /\ \A x \in Pids : /\ x # p => table'.status[x] = table.status[x]
                          /\ x = p => table'.status[x] = st
  <2>1. /\ "UNUSED" \notin st /\ "ZOMBIES" \notin st /\ "INIT" \notin st
        /\ "LEADER" \in st <=> Has(table, "LEADER", p)
    BY <1>3, <1>9, <1>10 DEF Has
  <2> QED BY <1>1, <1>3, <1>11, <2>1, StatusKeeps
<1>13. /\ table'.children = table.children /\ table'.exitChildren = table.exitChildren
       /\ table'.pgroup = table.pgroup /\ table'.recycle = table.recycle
       /\ \A x \in Pids : /\ Has(table', "INIT", x) <=> Has(table, "INIT", x)
                          /\ Has(table, "EXIT", x) => Has(table', "EXIT", x)
       /\ Has(table', "EXIT", p)
  <2>1. /\ table'.children = table.children /\ table'.exitChildren = table.exitChildren
        /\ table'.pgroup = table.pgroup /\ table'.recycle = table.recycle
    BY <1>11 DEF StatusFields
  <2> QED BY <1>10, <1>12, <2>1 DEF Has
<1>14. Waits' /\ Sleepers' /\ waitList' \in [Pids -> Seq(ThreadIds)]
  <2>1. \A u \in ThreadIds : thread'[u] = "PEND" <=> thread[u] = "PEND" /\ u \notin W
    BY <1>3, <1>7
  <2> QED BY <1>1, <1>5, <1>8, <2>1, WakeKeeps
<1>15. TypeOK'
  <2>1. thread' \in [ThreadIds -> {"RUN", "FORK", "PEND", "WOKEN", "EXIT"}]
    <3>1. \A u \in ThreadIds : thread'[u] \in {"RUN", "FORK", "PEND", "WOKEN", "EXIT"}
      BY <1>1, <1>7
    <3> QED BY <1>5, <3>1
  <2>2. waitID' \in [ThreadIds -> Pids \cup {NULL, INVALID}]
    <3>1. \A u \in ThreadIds : waitID'[u] \in Pids \cup {NULL, INVALID}
      BY <1>1, <1>7
    <3> QED BY <1>5, <3>1
  <2> QED BY <1>1, <1>5, <1>12, <1>14, <2>1, <2>2 DEF TypeOK, TableInv
<1>16. Calls'
  <2>1. SUFFICES ASSUME NEW u \in ThreadIds
                 PROVE  /\ thread'[u] # "RUN" => Proc(u) \notin Listed(table') /\ ~Has(table', "INIT", Proc(u))
                        /\ thread'[u] = "FORK" <=> forking'[u] # NULL
                        /\ thread'[u] = "EXIT" => Proc(u) # Root /\ Has(table', "EXIT", Proc(u))
                        /\ thread'[u] = "WOKEN" => waitID'[u] \in Pids \cup {INVALID}
    BY DEF Calls
  <2>2. /\ thread[u] # "RUN" => Proc(u) \notin Listed(table) /\ ~Has(table, "INIT", Proc(u))
        /\ thread[u] = "FORK" <=> forking[u] # NULL
        /\ thread[u] = "EXIT" => Proc(u) # Root /\ Has(table, "EXIT", Proc(u))
        /\ thread[u] = "WOKEN" => waitID[u] \in Pids \cup {INVALID}
        /\ Proc(u) \in Pids
    BY <1>1, ProcFacts DEF Calls
  <2>3. CASE u = t
    BY <1>2, <1>3, <1>5, <1>7, <1>12, <1>13, <2>2, <2>3
  <2>4. CASE u # t /\ u \in W
    BY <1>5, <1>7, <1>12, <1>13, <2>2, <2>4
  <2>5. CASE u # t /\ u \notin W
    BY <1>5, <1>7, <1>12, <1>13, <2>2, <2>5
  <2> QED BY <2>3, <2>4, <2>5
<1>17. Forks'
  BY <1>1, <1>5, <1>13, ProcessAssumption DEF Forks
<1>18. NoForgottenWaiter'
  <2>1. SUFFICES ASSUME NEW q \in Pids, NEW u \in Threads[q], thread'[u] = "PEND"
                 PROVE  /\ waitFlag'[u] = "PRO" => waitID'[u] \in table'.children[q] \/ u \in abandoned'
                        /\ waitFlag'[u] = "ANY" => /\ table'.children[q] # {} \/ u \in abandoned'
                                                   /\ \A x \in ToSet(table'.exitChildren[q]) : Announced(q, x)'
                        /\ waitFlag'[u] = "GID" =>
                               \A x \in ToSet(table'.exitChildren[q]) : table'.pgroup[x] = waitID'[u] => Announced(q, x)'
    BY DEF NoForgottenWaiter
  <2>2. u \in ThreadIds /\ u \notin W /\ thread[u] = "PEND" /\ waitID'[u] = waitID[u]
    BY <1>7, <2>1, ProcFacts
  <2>3. /\ waitFlag[u] = "PRO" => waitID[u] \in table.children[q] \/ u \in abandoned
        /\ waitFlag[u] = "ANY" => /\ table.children[q] # {} \/ u \in abandoned
                                  /\ \A x \in ToSet(table.exitChildren[q]) : Announced(q, x)
        /\ waitFlag[u] = "GID" =>
               \A x \in ToSet(table.exitChildren[q]) : table.pgroup[x] = waitID[u] => Announced(q, x)
    BY <1>1, <2>1, <2>2 DEF NoForgottenWaiter
  <2>4. ASSUME NEW x, Announced(q, x) PROVE Announced(q, x)'
    <3>1. PICK w \in Threads[q] : thread[w] = "WOKEN" /\ waitID[w] = x
      BY <2>4 DEF Announced
    <3>2. w \in ThreadIds /\ w \notin W /\ w # t
      BY <1>3, <1>7, <3>1, ProcFacts
    <3>3. thread'[w] = "WOKEN" /\ waitID'[w] = x
      BY <1>7, <3>1, <3>2
    <3> QED BY <3>3 DEF Announced
  <2> QED BY <1>5, <1>13, <2>2, <2>3, <2>4
<1>19. Recycler'
  BY <1>1, <1>5, <1>13 DEF Recycler, TypeOK
<1> QED BY <1>12, <1>14, <1>15, <1>16, <1>17, <1>18, <1>19 DEF IInv, ThreadInv

LEMMA WaitReturnsKeeps ==
    ASSUME IInv, NEW t \in ThreadIds, OsWaitReturns(t)
    PROVE  IInv'
<1>1. /\ TypeOK /\ TableInv(table, {}, {}) /\ Calls /\ Forks /\ Waits /\ Sleepers /\ NoForgottenWaiter /\ Recycler
      /\ thread \in [ThreadIds -> {"RUN", "FORK", "PEND", "WOKEN", "EXIT"}]
      /\ waitID \in [ThreadIds -> Pids \cup {NULL, INVALID}]
      /\ waitFlag \in [ThreadIds -> {"NONE", "PRO", "GID", "ANY"}]
      /\ INVALID \notin Pids /\ NULL \notin Pids
      /\ thread[t] = "WOKEN"
  BY ProcessAssumption DEF IInv, ThreadInv, TypeOK, OsWaitReturns
<1>2. /\ thread' = [thread EXCEPT ![t] = "RUN"] /\ waitFlag' = [waitFlag EXCEPT ![t] = "NONE"]
      /\ waitID' = [waitID EXCEPT ![t] = NULL] /\ waitList' = waitList /\ forking' = forking
      /\ resourceEvent' = resourceEvent /\ recycling' = recycling /\ abandoned' = abandoned
  BY DEF OsWaitReturns
<1>3. \A u \in ThreadIds : /\ u # t => thread'[u] = thread[u] /\ waitFlag'[u] = waitFlag[u] /\ waitID'[u] = waitID[u]
                           /\ thread'[t] = "RUN" /\ waitFlag'[t] = "NONE"
  BY <1>1, <1>2
<1>4. /\ TableInv(table', {}, {}) /\ Calm(table, table')
      /\ \A x \in Pids : waitID[t] \notin ToSet(table'.exitChildren[x])
  <2>1. CASE waitID[t] # INVALID /\ OsProcessIsDead(table, waitID[t])
    <3>1. PICK c \in Pids : c = waitID[t]
      BY <1>1, <2>1 DEF Calls
    <3>2. table' = OsRecycleZombiesProcess(table, c)
      BY <2>1, <3>1 DEF OsWaitReturns
    <3>3. Has(table, "ZOMBIES", c)
      BY <2>1, <3>1 DEF OsProcessIsDead, Has
    <3>4. TableInv(table', {}, {}) /\ Calm(table, table') /\ ChildTaken(table, table', c)
      BY <1>1, <3>2, <3>3, RecycleZombiesKeeps
    <3> QED BY <3>1, <3>4 DEF ChildTaken
  <2>2. CASE ~(waitID[t] # INVALID /\ OsProcessIsDead(table, waitID[t]))
    <3>1. table' = table
      BY <2>2 DEF OsWaitReturns
    <3>2. \A x \in Pids : waitID[t] \notin ToSet(table.exitChildren[x])
      <4>1. SUFFICES ASSUME NEW x \in Pids, waitID[t] \in ToSet(table.exitChildren[x]) PROVE FALSE
        OBVIOUS
      <4>2. ToSet(table.exitChildren[x]) \subseteq Pids
        BY <1>1, ToSetIn DEF TableInv, Tables
      <4>3. Has(table, "ZOMBIES", waitID[t])
        BY <1>1, <4>1 DEF TableInv, Family
      <4> QED BY <1>1, <2>2, <4>1, <4>2, <4>3 DEF OsProcessIsDead, Has
    <3> QED BY <1>1, <3>1, <3>2, CalmSelf
  <2> QED BY <2>1, <2>2
<1>5. /\ table'.children = table.children /\ Listed(table') = Listed(table)
      /\ \A x \in Pids : /\ Has(table', "INIT", x) <=> Has(table, "INIT", x)
                         /\ ToSet(table'.exitChildren[x]) \subseteq ToSet(table.exitChildren[x])
                         /\ x \notin Listed(table) => (Has(table', "EXIT", x) <=> Has(table, "EXIT", x))
                         /\ Has(table', "ZOMBIES", x) => table'.pgroup[x] = table.pgroup[x]
                         /\ x \in ToSet(table.recycle) /\ Has(table, "EXIT", x) =>
                                x \in ToSet(table'.recycle) /\ Has(table', "EXIT", x)
  BY <1>4 DEF Calm
<1>6. TypeOK'
  <2>1. /\ thread' \in [ThreadIds -> {"RUN", "FORK", "PEND", "WOKEN", "EXIT"}]
        /\ waitFlag' \in [ThreadIds -> {"NONE", "PRO", "GID", "ANY"}]
    BY <1>1, <1>2
  <2>2. waitID' \in [ThreadIds -> Pids \cup {NULL, INVALID}]
    BY <1>1, <1>2
  <2> QED BY <1>1, <1>2, <1>4, <2>1, <2>2 DEF TypeOK, TableInv
<1>7. Calls'
  <2>1. SUFFICES ASSUME NEW u \in ThreadIds
                 PROVE  /\ thread'[u] # "RUN" => Proc(u) \notin Listed(table') /\ ~Has(table', "INIT", Proc(u))
                        /\ thread'[u] = "FORK" <=> forking'[u] # NULL
                        /\ thread'[u] = "EXIT" => Proc(u) # Root /\ Has(table', "EXIT", Proc(u))
                        /\ thread'[u] = "WOKEN" => waitID'[u] \in Pids \cup {INVALID}
    BY DEF Calls
  <2>2. /\ thread[u] # "RUN" => Proc(u) \notin Listed(table) /\ ~Has(table, "INIT", Proc(u))
        /\ thread[u] = "FORK" <=> forking[u] # NULL
        /\ thread[u] = "EXIT" => Proc(u) # Root /\ Has(table, "EXIT", Proc(u))
        /\ thread[u] = "WOKEN" => waitID[u] \in Pids \cup {INVALID}
        /\ Proc(u) \in Pids
    BY <1>1, ProcFacts DEF Calls
  <2>3. CASE u = t
    BY <1>1, <1>2, <1>3, <2>2, <2>3
  <2>4. CASE u # t
    BY <1>2, <1>3, <1>5, <2>2, <2>4
  <2> QED BY <2>3, <2>4
<1>8. Forks'
  BY <1>1, <1>2, <1>5, ProcessAssumption DEF Forks
<1>9. Waits' /\ Sleepers'
  <2>1. \A u \in ThreadIds : thread'[u] = "PEND" <=> thread[u] = "PEND" /\ u # t
    BY <1>1, <1>3
  <2>2. Sleepers'
    BY <1>1, <1>3, <2>1 DEF Sleepers
  <2>3. ASSUME NEW q \in Pids
        PROVE  /\ ToSet(waitList'[q]) = {u \in Threads[q] : thread'[u] = "PEND"}
               /\ ComeFirst(waitList'[q], {u \in ThreadIds : waitFlag'[u] = "PRO"})
    <3>1. ToSet(waitList[q]) = {u \in Threads[q] : thread[u] = "PEND"}
      BY <1>1 DEF Waits
    <3>2. {u \in Threads[q] : thread'[u] = "PEND"} = {u \in Threads[q] : thread[u] = "PEND"}
      BY <1>1, <2>1, ProcFacts
    <3>3. waitList[q] \in Seq(ThreadIds)
      BY <1>1 DEF TypeOK
    <3>4. \A i \in 1..Len(waitList[q]) : waitList[q][i] \in ThreadIds /\ waitList[q][i] # t
      BY <1>1, <3>1, <3>3, ToSetIn
    <3>5. ComeFirst(waitList[q], {u \in ThreadIds : waitFlag[u] = "PRO"})
      BY <1>1 DEF Waits
    <3>6. ComeFirst(waitList[q], {u \in ThreadIds : waitFlag'[u] = "PRO"})
      BY <1>3, <3>4, <3>5 DEF ComeFirst
    <3> QED BY <1>2, <3>1, <3>2, <3>6
  <2> QED BY <2>2, <2>3 DEF Waits
<1>10. NoForgottenWaiter'
  <2>1. SUFFICES ASSUME NEW q \in Pids, NEW u \in Threads[q], thread'[u] = "PEND"
                 PROVE  /\ waitFlag'[u] = "PRO" => waitID'[u] \in table'.children[q] \/ u \in abandoned'
                        /\ waitFlag'[u] = "ANY" => /\ table'.children[q] # {} \/ u \in abandoned'
                                                   /\ \A x \in ToSet(table'.exitChildren[q]) : Announced(q, x)'
                        /\ waitFlag'[u] = "GID" =>
                               \A x \in ToSet(table'.exitChildren[q]) : table'.pgroup[x] = waitID'[u] => Announced(q, x)'
    BY DEF NoForgottenWaiter
  <2>2. u \in ThreadIds /\ u # t /\ thread[u] = "PEND" /\ waitID'[u] = waitID[u] /\ waitFlag'[u] = waitFlag[u]
    BY <1>3, <2>1, ProcFacts
  <2>3. /\ waitFlag[u] = "PRO" => waitID[u] \in table.children[q] \/ u \in abandoned
        /\ waitFlag[u] = "ANY" => /\ table.children[q] # {} \/ u \in abandoned
                                  /\ \A x \in ToSet(table.exitChildren[q]) : Announced(q, x)
        /\ waitFlag[u] = "GID" =>
               \A x \in ToSet(table.exitChildren[q]) : table.pgroup[x] = waitID[u] => Announced(q, x)
    BY <1>1, <2>1, <2>2 DEF NoForgottenWaiter
  <2>4. ASSUME NEW x \in ToSet(table'.exitChildren[q]), Announced(q, x) PROVE Announced(q, x)'
    <3>1. PICK w \in Threads[q] : thread[w] = "WOKEN" /\ waitID[w] = x
      BY <2>4 DEF Announced
    <3>2. w \in ThreadIds /\ w # t
      BY <1>4, <2>4, <3>1, ProcFacts
    <3>3. thread'[w] = "WOKEN" /\ waitID'[w] = x
      BY <1>3, <3>1, <3>2
    <3> QED BY <3>3 DEF Announced
  <2>5. \A x \in ToSet(table'.exitChildren[q]) : x \in ToSet(table.exitChildren[q]) /\ table'.pgroup[x] = table.pgroup[x]
    <3>1. ToSet(table'.exitChildren[q]) \subseteq Pids
      BY <1>4, ToSetIn DEF TableInv, Tables
    <3>2. \A x \in ToSet(table'.exitChildren[q]) : Has(table', "ZOMBIES", x)
      BY <1>4 DEF TableInv, Family
    <3> QED BY <1>5, <3>1, <3>2
  <2> QED BY <1>2, <1>5, <2>2, <2>3, <2>4, <2>5
<1>11. Recycler'
  BY <1>1, <1>2, <1>5 DEF Recycler, TypeOK
<1> QED BY <1>4, <1>6, <1>7, <1>8, <1>9, <1>10, <1>11 DEF IInv, ThreadInv

-----------------------------------------------------------------------------
(* A wait                                                                   *)

LEMMA ConcatFirst ==
    ASSUME NEW S, NEW s \in Seq(S), NEW t \in Seq(S), NEW K, ComeFirst(s, K), ComeFirst(t, K),
           ToSet(s) \subseteq K \/ ToSet(t) \cap K = {}
    PROVE  ComeFirst(s \o t, K)
<1>1. /\ s \o t \in Seq(S) /\ Len(s \o t) = Len(s) + Len(t)
      /\ Len(s) \in Nat /\ Len(t) \in Nat
  BY ConcatList
<1>2. \A i \in 1..Len(s) + Len(t) : (s \o t)[i] = IF i <= Len(s) THEN s[i] ELSE t[i - Len(s)]
  BY <1>1
<1>3. PICK r \in Seq(S) : r = s \o t
  BY <1>1
<1>4. Len(r) = Len(s) + Len(t) /\ \A i \in 1..Len(r) : r[i] = IF i <= Len(s) THEN s[i] ELSE t[i - Len(s)]
  BY <1>1, <1>2, <1>3
<1>5. SUFFICES ASSUME NEW i \in 1..Len(r), NEW j \in 1..Len(r), i < j, r[j] \in K PROVE r[i] \in K
  BY <1>3 DEF ComeFirst
<1>6. CASE j <= Len(s)
  <2>1. i \in 1..Len(s) /\ j \in 1..Len(s) /\ r[i] = s[i] /\ r[j] = s[j]
    BY <1>1, <1>4, <1>5, <1>6
  <2> QED BY <1>5, <2>1 DEF ComeFirst
<1>7. CASE ~(i <= Len(s))
  <2>1. i - Len(s) \in 1..Len(t) /\ j - Len(s) \in 1..Len(t) /\ ~(j <= Len(s))
    BY <1>1, <1>4, <1>5, <1>7
  <2>3. PICK k \in 1..Len(t) : k = i - Len(s)
    BY <2>1
  <2>4. PICK m \in 1..Len(t) : m = j - Len(s)
    BY <2>1
  <2>2. k < m /\ r[i] = t[k] /\ r[j] = t[m]
    BY <1>1, <1>4, <1>5, <1>7, <2>1, <2>3, <2>4
  <2> QED BY <1>5, <2>2 DEF ComeFirst
<1>8. CASE i <= Len(s) /\ ~(j <= Len(s))
  <2>1. i \in 1..Len(s) /\ r[i] = s[i]
    BY <1>1, <1>4, <1>5, <1>8
  <2>2. PICK m \in 1..Len(t) : m = j - Len(s)
    BY <1>1, <1>4, <1>5, <1>8
  <2>3. r[j] = t[m]
    BY <1>1, <1>4, <1>5, <1>8, <2>2
  <2>4. r[i] \in ToSet(s) /\ r[j] \in ToSet(t)
    BY <2>1, <2>3, ToSetIn
  <2> QED BY <1>5, <2>4
<1> QED BY <1>6, <1>7, <1>8

\* t is put into l behind the elements of B.
Behind(l, t, B) == ListWithout(l, ToSet(l) \ B) \o <<t>> \o ListWithout(l, B)

LEMMA InsertBehind ==
    ASSUME NEW S, NEW l \in Seq(S), NEW t \in S, NEW B, B \subseteq ToSet(l), NEW K, ComeFirst(l, K),
           \/ t \in K /\ B = {}
           \/ t \notin K /\ ToSet(l) \cap K \subseteq B,
           NEW r, r = Behind(l, t, B)
    PROVE  r \in Seq(S) /\ ToSet(r) = ToSet(l) \cup {t} /\ ComeFirst(r, K)
<1>1. PICK a \in Seq(S) : a = ListWithout(l, ToSet(l) \ B)
  BY WithoutList
<1>2. PICK b \in Seq(S) : b = ListWithout(l, B)
  BY WithoutList
<1>3. PICK m \in Seq(S) : m = <<t>>
  <2>1. <<t>> \in Seq(S)
    OBVIOUS
  <2> QED BY <2>1
<1>4. ToSet(a) = B /\ ToSet(b) = ToSet(l) \ B
  <2>1. ToSet(a) = ToSet(l) \ (ToSet(l) \ B)
    BY <1>1, WithoutList
  <2>2. ToSet(b) = ToSet(l) \ B
    BY <1>2, WithoutList
  <2> QED BY <2>1, <2>2
<1>5. ToSet(m) = {t} /\ ComeFirst(m, K)
  BY <1>3 DEF ToSet, ComeFirst
<1>6. ComeFirst(a, K) /\ ComeFirst(b, K)
  BY <1>1, <1>2, WithoutFirst
<1>7. PICK n \in Seq(S) : n = a \o m
  BY ConcatLists
<1>8. ToSet(n) = B \cup {t}
  BY <1>4, <1>5, <1>7, ConcatLists
<1>9. ComeFirst(n, K)
  <2>1. ToSet(a) \subseteq K \/ ToSet(m) \cap K = {}
    BY <1>4, <1>5
  <2> QED BY <1>5, <1>6, <1>7, <2>1, ConcatFirst
<1>10. n \o b \in Seq(S) /\ ToSet(n \o b) = ToSet(l) \cup {t}
  <2>1. n \o b \in Seq(S) /\ ToSet(n \o b) = ToSet(n) \cup ToSet(b)
    BY ConcatLists
  <2> QED BY <1>4, <1>8, <2>1
<1>11. ComeFirst(n \o b, K)
  <2>1. ToSet(n) \subseteq K \/ ToSet(b) \cap K = {}
    BY <1>4, <1>8
  <2> QED BY <1>6, <1>9, <2>1, ConcatFirst
<1>12. r = n \o b
  BY <1>1, <1>2, <1>3, <1>7 DEF Behind
<1> QED BY <1>10, <1>11, <1>12

LEMMA WaitSleepsKeeps ==
    ASSUME IInv, NEW t \in ThreadIds, NEW arg \in WaitArgs(Proc(t)), OsWaitSleeps(t, arg)
    PROVE  IInv'
<1>1. /\ TypeOK /\ TableInv(table, {}, {}) /\ Calls /\ Forks /\ Waits /\ Sleepers /\ NoForgottenWaiter /\ Recycler
      /\ table \in Tables /\ Family(table, {}) /\ Grouped(table, {})
      /\ thread \in [ThreadIds -> {"RUN", "FORK", "PEND", "WOKEN", "EXIT"}]
      /\ waitID \in [ThreadIds -> Pids \cup {NULL, INVALID}]
      /\ waitFlag \in [ThreadIds -> {"NONE", "PRO", "GID", "ANY"}]
      /\ waitList \in [Pids -> Seq(ThreadIds)]
  BY DEF IInv, ThreadInv, TableInv, TypeOK
<1>2. PICK p \in Pids : p = Proc(t)
  BY ProcFacts
<1>3. /\ p \notin Listed(table) /\ ~Has(table, "INIT", p) /\ thread[t] = "RUN" /\ t \in Threads[p]
  BY <1>1, <1>2, RunningFacts, ProcFacts DEF OsWaitSleeps
<1>4. PICK flag, id : flag = arg.flag /\ id = arg.id
  OBVIOUS
<1>5. \/ flag = "PRO" /\ id \in table.children[p] \cup ToSet(table.exitChildren[p])
      \/ flag = "GID" /\ id \in table.groups
      \/ flag = "ANY" /\ id = NULL
  BY <1>2, <1>4 DEF WaitArgs
<1>6. ToSet(table.exitChildren[p]) \subseteq Pids /\ table.exitChildren[p] \in Seq(Pids)
  BY <1>1, ToSetIn DEF Tables
<1>7. flag \in {"PRO", "GID", "ANY"} /\ id \in Pids \cup {NULL, INVALID}
  BY <1>1, <1>5, <1>6 DEF Tables
<1>8. /\ waitList' = [waitList EXCEPT ![p] = OsWaitInsertWaitListInOrder(p, t, flag)]
      /\ thread' = [thread EXCEPT ![t] = "PEND"] /\ waitFlag' = [waitFlag EXCEPT ![t] = flag]
      /\ waitID' = [waitID EXCEPT ![t] = id] /\ table' = table /\ forking' = forking
      /\ resourceEvent' = resourceEvent /\ recycling' = recycling /\ abandoned' = abandoned
  BY <1>2, <1>4 DEF OsWaitSleeps
<1>9. /\ \A u \in ThreadIds : u # t => thread'[u] = thread[u] /\ waitFlag'[u] = waitFlag[u] /\ waitID'[u] = waitID[u]
      /\ thread'[t] = "PEND" /\ waitFlag'[t] = flag /\ waitID'[t] = id
  BY <1>1, <1>8
<1>10. PICK l \in Seq(ThreadIds) : l = waitList[p]
  BY <1>1
<1>11. ToSet(l) = {u \in Threads[p] : thread[u] = "PEND"} /\ t \notin ToSet(l) /\ ToSet(l) \subseteq ThreadIds
  BY <1>1, <1>3, <1>10, ToSetIn DEF Waits
<1>12. PICK K : K = {u \in ThreadIds : waitFlag'[u] = "PRO"}
  OBVIOUS
<1>13. \A q \in Pids : ComeFirst(waitList[q], K)
  <2>1. SUFFICES ASSUME NEW q \in Pids PROVE ComeFirst(waitList[q], K)
    OBVIOUS
  <2>2. PICK k \in Seq(ThreadIds) : k = waitList[q]
    BY <1>1
  <2>3. ComeFirst(k, {u \in ThreadIds : waitFlag[u] = "PRO"}) /\ ToSet(k) = {u \in Threads[q] : thread[u] = "PEND"}
    BY <1>1, <2>2 DEF Waits
  <2>4. \A i \in 1..Len(k) : k[i] \in ThreadIds /\ k[i] # t
    BY <1>3, <2>3, ToSetIn
  <2>5. ComeFirst(k, K)
    BY <1>9, <1>12, <2>3, <2>4 DEF ComeFirst
  <2> QED BY <2>2, <2>5
<1>14. PICK r \in Seq(ThreadIds) : r = OsWaitInsertWaitListInOrder(p, t, flag) /\ ToSet(r) = ToSet(l) \cup {t} /\ ComeFirst(r, K)
  <2>1. PICK B : B = {u \in ToSet(l) : Rank[waitFlag[u]] < Rank[flag]}
    OBVIOUS
  <2>2. OsWaitInsertWaitListInOrder(p, t, flag) = Behind(l, t, B)
    BY <1>10, <2>1 DEF OsWaitInsertWaitListInOrder, Behind
  <2>3. B \subseteq ToSet(l)
    BY <2>1
  <2>4. \A u \in ToSet(l) : waitFlag[u] \in {"PRO", "GID", "ANY"} /\ u \in ThreadIds /\ u # t
    BY <1>1, <1>11 DEF Sleepers
  <2>5. Rank["PRO"] = 1 /\ Rank["GID"] = 2 /\ Rank["ANY"] = 3
    BY DEF Rank
  <2>6. \/ t \in K /\ B = {}
        \/ t \notin K /\ ToSet(l) \cap K \subseteq B
    <3>1. CASE flag = "PRO"
      <4>1. \A u \in ToSet(l) : ~(Rank[waitFlag[u]] < Rank[flag])
        BY <2>4, <2>5, <3>1
      <4> QED BY <1>9, <1>12, <2>1, <3>1, <4>1
    <3>2. CASE flag # "PRO"
      <4>1. \A u \in ToSet(l) : waitFlag[u] = "PRO" => Rank[waitFlag[u]] < Rank[flag]
        BY <1>7, <2>4, <2>5, <3>2
      <4>2. ToSet(l) \cap K \subseteq B
        BY <1>9, <1>12, <2>1, <2>4, <4>1
      <4> QED BY <1>9, <1>12, <3>2, <4>2
    <3> QED BY <3>1, <3>2
  <2>7. ComeFirst(l, K)
    BY <1>10, <1>13
  <2>8. PICK r : r = Behind(l, t, B)
    OBVIOUS
  <2>9. r \in Seq(ThreadIds) /\ ToSet(r) = ToSet(l) \cup {t} /\ ComeFirst(r, K)
    BY <2>3, <2>6, <2>7, <2>8, InsertBehind
  <2> QED BY <2>2, <2>8, <2>9
<1>15. \A q \in Pids : q # p => waitList'[q] = waitList[q]
  BY <1>1, <1>8
<1>16. waitList'[p] = r /\ waitList' \in [Pids -> Seq(ThreadIds)]
  BY <1>1, <1>8, <1>14
<1>17. TypeOK'
  <2>1. /\ thread' \in [ThreadIds -> {"RUN", "FORK", "PEND", "WOKEN", "EXIT"}]
        /\ waitFlag' \in [ThreadIds -> {"NONE", "PRO", "GID", "ANY"}]
    BY <1>1, <1>7, <1>8
  <2>2. waitID' \in [ThreadIds -> Pids \cup {NULL, INVALID}]
    BY <1>1, <1>7, <1>8
  <2> QED BY <1>1, <1>8, <1>16, <2>1, <2>2 DEF TypeOK
<1>18. Calls'
  <2>1. SUFFICES ASSUME NEW u \in ThreadIds
                 PROVE  /\ thread'[u] # "RUN" => Proc(u) \notin Listed(table') /\ ~Has(table', "INIT", Proc(u))
                        /\ thread'[u] = "FORK" <=> forking'[u] # NULL
                        /\ thread'[u] = "EXIT" => Proc(u) # Root /\ Has(table', "EXIT", Proc(u))
                        /\ thread'[u] = "WOKEN" => waitID'[u] \in Pids \cup {INVALID}
    BY DEF Calls
  <2>2. /\ thread[u] # "RUN" => Proc(u) \notin Listed(table) /\ ~Has(table, "INIT", Proc(u))
        /\ thread[u] = "FORK" <=> forking[u] # NULL
        /\ thread[u] = "EXIT" => Proc(u) # Root /\ Has(table, "EXIT", Proc(u))
        /\ thread[u] = "WOKEN" => waitID[u] \in Pids \cup {INVALID}
    BY <1>1 DEF Calls
  <2>3. CASE u = t
    BY <1>2, <1>3, <1>8, <1>9, <2>2, <2>3
  <2>4. CASE u # t
    BY <1>8, <1>9, <2>2, <2>4
  <2> QED BY <2>3, <2>4
<1>19. Forks'
  BY <1>1, <1>8 DEF Forks
<1>20. Waits'
  <2>1. SUFFICES ASSUME NEW q \in Pids
                 PROVE  /\ ToSet(waitList'[q]) = {u \in Threads[q] : thread'[u] = "PEND"}
                        /\ ComeFirst(waitList'[q], K)
    BY <1>12 DEF Waits
  <2>2. CASE q = p
    <3>1. {u \in Threads[p] : thread'[u] = "PEND"} = {u \in Threads[p] : thread[u] = "PEND"} \cup {t}
      BY <1>3, <1>9, ProcFacts
    <3> QED BY <1>11, <1>14, <1>16, <2>2, <3>1
  <2>3. CASE q # p
    <3>1. {u \in Threads[q] : thread'[u] = "PEND"} = {u \in Threads[q] : thread[u] = "PEND"}
      BY <1>2, <1>9, <2>3, ProcFacts
    <3>2. ToSet(waitList[q]) = {u \in Threads[q] : thread[u] = "PEND"}
      BY <1>1 DEF Waits
    <3> QED BY <1>13, <1>15, <2>3, <3>1, <3>2
  <2> QED BY <2>2, <2>3
<1>21. Sleepers'
  <2>1. SUFFICES ASSUME NEW u \in ThreadIds, thread'[u] = "PEND" PROVE waitFlag'[u] \in {"PRO", "GID", "ANY"}
    BY DEF Sleepers
  <2> QED BY <1>1, <1>7, <1>9, <2>1 DEF Sleepers
<1>22. NoForgottenWaiter'
  <2>1. SUFFICES ASSUME NEW q \in Pids, NEW u \in Threads[q], thread'[u] = "PEND"
                 PROVE  /\ waitFlag'[u] = "PRO" => waitID'[u] \in table'.children[q] \/ u \in abandoned'
                        /\ waitFlag'[u] = "ANY" => /\ table'.children[q] # {} \/ u \in abandoned'
                                                   /\ \A x \in ToSet(table'.exitChildren[q]) : Announced(q, x)'
                        /\ waitFlag'[u] = "GID" =>
                               \A x \in ToSet(table'.exitChildren[q]) : table'.pgroup[x] = waitID'[u] => Announced(q, x)'
    BY DEF NoForgottenWaiter
  <2>2. CASE u = t
    <3>1. q = p
      BY <1>2, <2>1, <2>2, ProcFacts
    <3>2. Exited(p, arg) = <<>> /\ HasChildren(p)
      BY <1>2 DEF OsWaitSleeps
    <3>3. CASE flag = "PRO"
      <4>1. ListWithout(table.exitChildren[p], Pids \ {id}) = <<>>
        BY <1>4, <3>2, <3>3 DEF Exited
      <4>2. ToSet(table.exitChildren[p]) \ (Pids \ {id}) = {}
        <5>1. PICK e \in Seq(Pids) : e = table.exitChildren[p]
          BY <1>6
        <5>2. ToSet(ListWithout(e, Pids \ {id})) = ToSet(e) \ (Pids \ {id})
          BY WithoutList
        <5>3. ToSet(ListWithout(e, Pids \ {id})) = {}
          BY <4>1, <5>1 DEF ToSet
        <5> QED BY <5>1, <5>2, <5>3
      <4>3. id \in table.children[p]
        BY <1>5, <3>3, <4>2
      <4> QED BY <1>8, <1>9, <2>2, <3>1, <3>3, <4>3
    <3>4. CASE flag = "ANY"
      <4>1. table.exitChildren[p] = <<>>
        BY <1>4, <3>2, <3>4 DEF Exited
      <4>2. ToSet(table.exitChildren[p]) = {}
        BY <4>1 DEF ToSet
      <4>3. table.children[p] # {}
        BY <3>2, <4>1 DEF HasChildren
      <4> QED BY <1>8, <1>9, <2>2, <3>1, <3>4, <4>2, <4>3
    <3>5. CASE flag = "GID"
      <4>1. table.exitProcesses[id] = <<>>
        BY <1>4, <3>2, <3>5 DEF Exited
      <4>2. ToSet(table.exitProcesses[id]) = {} /\ id \in Pids
        BY <1>1, <1>5, <3>5, <4>1 DEF ToSet, Tables
      <4>3. \A x \in ToSet(table.exitChildren[p]) : table.pgroup[x] # id
        <5>1. SUFFICES ASSUME NEW x \in ToSet(table.exitChildren[p]), table.pgroup[x] = id PROVE FALSE
          OBVIOUS
        <5>2. x \in Pids /\ Has(table, "ZOMBIES", x)
          BY <1>1, <1>6 DEF Family
        <5>3. x \in ToSet(table.exitProcesses[id])
          BY <1>1, <4>2, <5>1, <5>2 DEF Grouped
        <5> QED BY <4>2, <5>3
      <4> QED BY <1>8, <1>9, <2>2, <3>1, <3>5, <4>3
    <3> QED BY <1>7, <3>3, <3>4, <3>5
  <2>3. CASE u # t
    <3>1. u \in ThreadIds /\ thread[u] = "PEND" /\ waitID'[u] = waitID[u] /\ waitFlag'[u] = waitFlag[u]
      BY <1>9, <2>1, <2>3, ProcFacts
    <3>2. /\ waitFlag[u] = "PRO" => waitID[u] \in table.children[q] \/ u \in abandoned
          /\ waitFlag[u] = "ANY" => /\ table.children[q] # {} \/ u \in abandoned
                                    /\ \A x \in ToSet(table.exitChildren[q]) : Announced(q, x)
          /\ waitFlag[u] = "GID" =>
                 \A x \in ToSet(table.exitChildren[q]) : table.pgroup[x] = waitID[u] => Announced(q, x)
      BY <1>1, <2>1, <3>1 DEF NoForgottenWaiter
    <3>3. ASSUME NEW x, Announced(q, x) PROVE Announced(q, x)'
      <4>1. PICK w \in Threads[q] : thread[w] = "WOKEN" /\ waitID[w] = x
        BY <3>3 DEF Announced
      <4>2. w \in ThreadIds /\ w # t
        BY <1>3, <4>1, ProcFacts
      <4>3. thread'[w] = "WOKEN" /\ waitID'[w] = x
        BY <1>9, <4>1, <4>2
      <4> QED BY <4>3 DEF Announced
    <3> QED BY <1>8, <3>1, <3>2, <3>3
  <2> QED BY <2>2, <2>3
<1>23. Recycler'
  BY <1>1, <1>8 DEF Recycler
<1>24. TableInv(table', {}, {})
  BY <1>1, <1>8
<1> QED BY <1>17, <1>18, <1>19, <1>20, <1>21, <1>22, <1>23, <1>24 DEF IInv, ThreadInv

-----------------------------------------------------------------------------
(* The last thread of a process                                             *)

Slice(l, i, j) == SubSeq(l, i, j)

LEMMA SliceList ==
    ASSUME NEW S, NEW l \in Seq(S), NEW i \in 1..Len(l) + 1, NEW j \in 0..Len(l), NEW r, r = Slice(l, i, j)
    PROVE  /\ r \in Seq(S)
           /\ \A e : e \in ToSet(r) <=> \E k \in i..j : l[k] = e
<1>1. SubSeq(l, i, j) \in Seq(S)
  <2>1. \A k \in i..j : k \in 1..Len(l)
    OBVIOUS
  <2> QED BY <2>1
<1>2. r \in Seq(S) /\ r = SubSeq(l, i, j)
  BY <1>1 DEF Slice
<1>3. CASE i <= j
  <2>1. Len(r) = j - i + 1 /\ \A k \in 1..j - i + 1 : r[k] = l[i + k - 1]
    BY <1>2, <1>3
  <2>2. ASSUME NEW e \in ToSet(r) PROVE \E k \in i..j : l[k] = e
    <3>1. PICK k \in 1..Len(r) : r[k] = e
      BY <1>2, ToSetIn
    <3>2. i + k - 1 \in i..j /\ l[i + k - 1] = e
      BY <1>3, <2>1, <3>1
    <3> QED BY <3>2
  <2>3. ASSUME NEW k \in i..j PROVE l[k] \in ToSet(r)
    <3>1. PICK m \in 1..Len(r) : m = k - i + 1
      <4>1. k - i + 1 \in 1..Len(r)
        BY <1>3, <2>1
      <4> QED BY <4>1
    <3>2. i + m - 1 = k
      BY <3>1
    <3>3. r[m] = l[k]
      BY <2>1, <3>1, <3>2
    <3> QED BY <1>2, <3>3, ToSetIn
  <2> QED BY <1>1, <1>2, <2>2, <2>3
<1>4. CASE ~(i <= j)
  <2>1. r = <<>>
    BY <1>2, <1>4
  <2>2. ToSet(r) = {}
    BY <2>1 DEF ToSet
  <2>3. i..j = {}
    BY <1>4
  <2> QED BY <1>1, <1>2, <2>2, <2>3
<1> QED BY <1>3, <1>4

\* The three parts of OsWaitCheckAndWakeParentProcess.
AnyOf(list) ==
    CHOOSE i \in 1..Len(list) + 1 :
        /\ \A j \in 1..i - 1 : waitFlag[list[j]] = "PRO"
        /\ i <= Len(list) => waitFlag[list[i]] # "PRO"

WokenBy(specified, others, eligible, lastChild) ==
    IF specified # <<>>
    THEN [first |-> {Head(specified)},
          rest |-> ToSet(Tail(specified)) \cup (IF lastChild THEN ToSet(others) ELSE {})]
    ELSE IF eligible # <<>>
    THEN [first |-> {Head(eligible)}, rest |-> IF lastChild THEN ToSet(Tail(eligible)) ELSE {}]
    ELSE [first |-> {}, rest |-> {}]

\* Whom OsWaitCheckAndWakeParentProcess finds among the sleeping threads of the parent q.
WokenOf(w, s, q, p) ==
    /\ w.first \cup w.rest \subseteq ToSet(waitList[q])
    /\ \A u \in ToSet(waitList[q]) :
        /\ waitFlag[u] = "PRO" /\ waitID[u] = p => u \in w.first \cup w.rest
        /\ waitFlag[u] = "ANY" \/ (waitFlag[u] = "GID" /\ waitID[u] = s.pgroup[p]) => w.first # {}
        /\ waitFlag[u] = "ANY" /\ s.children[q] = {} => u \in w.first \cup w.rest

LEMMA WakeParent ==
    ASSUME TypeOK, Waits, Sleepers, NEW s, NEW q \in Pids, NEW p, NEW w, w = OsWaitCheckAndWakeParentProcess(s, q, p)
    PROVE  WokenOf(w, s, q, p)
<1>1. PICK l \in Seq(ThreadIds) : l = waitList[q]
  BY DEF TypeOK
<1>2. PICK K : K = {t \in ThreadIds : waitFlag[t] = "PRO"}
  OBVIOUS
<1>3. ComeFirst(l, K)
  BY <1>1, <1>2 DEF Waits
<1>4. Len(l) \in Nat /\ \A i \in 1..Len(l) : l[i] \in ThreadIds
  OBVIOUS
<1> DEFINE First(i) == /\ \A j \in 1..i - 1 : waitFlag[l[j]] = "PRO"
                       /\ i <= Len(l) => waitFlag[l[i]] # "PRO"
<1>5. \E i \in 1..Len(l) + 1 : First(i)
  <2> DEFINE T == {i \in 1..Len(l) + 1 : i <= Len(l) => waitFlag[l[i]] # "PRO"}
  <2>1. T \in SUBSET Nat /\ Len(l) + 1 \in T
    BY <1>4
  <2>2. PICK m \in T : \A y \in T : m <= y
    <3> HIDE DEF T
    <3> QED BY <2>1, NatMin
  <2>3. \A j \in 1..m - 1 : waitFlag[l[j]] = "PRO"
    <3>1. SUFFICES ASSUME NEW j \in 1..m - 1, waitFlag[l[j]] # "PRO" PROVE FALSE
      OBVIOUS
    <3>2. j \in T /\ ~(m <= j)
      BY <1>4, <2>2, <3>1
    <3> QED BY <2>2, <3>2
  <2> QED BY <2>2, <2>3
<1>6. PICK any : any = AnyOf(l)
  OBVIOUS
<1>7. any \in 1..Len(l) + 1 /\ First(any)
  <2>1. any = CHOOSE i \in 1..Len(l) + 1 : First(i)
    BY <1>6 DEF AnyOf
  <2> HIDE DEF First
  <2> QED BY <1>5, <2>1
<1>8. \A k \in 1..Len(l) : /\ waitFlag[l[k]] = "PRO" => k \in 1..any - 1
                           /\ waitFlag[l[k]] # "PRO" => k \in any..Len(l)
  <2>1. SUFFICES ASSUME NEW k \in 1..Len(l)
                 PROVE  /\ waitFlag[l[k]] = "PRO" => k < any
                        /\ waitFlag[l[k]] # "PRO" => any <= k
    BY <1>4, <1>7
  <2>2. ASSUME waitFlag[l[k]] = "PRO", ~(k < any) PROVE FALSE
    <3>1. any <= Len(l) /\ any \in 1..Len(l) /\ waitFlag[l[any]] # "PRO"
      BY <1>4, <1>7, <2>1, <2>2
    <3>2. any < k
      BY <1>4, <1>7, <2>2, <3>1
    <3>3. l[k] \in K
      BY <1>2, <1>4, <2>2
    <3>4. l[any] \in K
      BY <1>3, <3>1, <3>2, <3>3 DEF ComeFirst
    <3> QED BY <1>2, <3>1, <3>4
  <2>3. ASSUME waitFlag[l[k]] # "PRO", ~(any <= k) PROVE FALSE
    <3>1. k \in 1..any - 1
      BY <1>4, <1>7, <2>3
    <3> QED BY <1>7, <2>3, <3>1
  <2> QED BY <2>2, <2>3
<1> HIDE DEF First
<1>9. any \in 1..Len(l) + 1 /\ any - 1 \in 0..Len(l) /\ 1 \in 1..Len(l) + 1 /\ Len(l) \in 0..Len(l)
  BY <1>4, <1>7
<1>10. PICK a \in Seq(ThreadIds) : /\ a = Slice(l, 1, any - 1)
                                   /\ \A e : e \in ToSet(a) <=> \E k \in 1..any - 1 : l[k] = e
  <2>1. PICK i \in 1..Len(l) + 1, j \in 0..Len(l) : i = 1 /\ j = any - 1
    BY <1>9
  <2>2. PICK r : r = Slice(l, i, j)
    OBVIOUS
  <2>3. r \in Seq(ThreadIds) /\ \A e : e \in ToSet(r) <=> \E k \in i..j : l[k] = e
    BY <2>2, SliceList
  <2> QED BY <2>1, <2>2, <2>3
<1>11. PICK others \in Seq(ThreadIds) : /\ others = Slice(l, any, Len(l))
                                        /\ \A e : e \in ToSet(others) <=> \E k \in any..Len(l) : l[k] = e
  <2>1. PICK i \in 1..Len(l) + 1, j \in 0..Len(l) : i = any /\ j = Len(l)
    BY <1>9
  <2>2. PICK r : r = Slice(l, i, j)
    OBVIOUS
  <2>3. r \in Seq(ThreadIds) /\ \A e : e \in ToSet(r) <=> \E k \in i..j : l[k] = e
    BY <2>2, SliceList
  <2> QED BY <2>1, <2>2, <2>3
<1>12. PICK D, G : /\ D = {t \in ThreadIds : waitID[t] # p}
                   /\ G = {t \in ThreadIds : waitFlag[t] = "GID" /\ waitID[t] # s.pgroup[p]}
  OBVIOUS
<1>13. PICK specified \in Seq(ThreadIds) : specified = ListWithout(a, D) /\ ToSet(specified) = ToSet(a) \ D
  BY WithoutList
<1>14. PICK eligible \in Seq(ThreadIds) : eligible = ListWithout(others, G) /\ ToSet(eligible) = ToSet(others) \ G
  BY WithoutList
<1>15. w = IF specified # <<>>
           THEN [first |-> {Head(specified)},
                 rest |-> ToSet(Tail(specified)) \cup (IF s.children[q] = {} THEN ToSet(others) ELSE {})]
           ELSE IF eligible # <<>>
           THEN [first |-> {Head(eligible)}, rest |-> IF s.children[q] = {} THEN ToSet(Tail(eligible)) ELSE {}]
           ELSE [first |-> {}, rest |-> {}]
  <2>1. w = WokenBy(ListWithout(Slice(waitList[q], 1, AnyOf(waitList[q]) - 1), {t \in ThreadIds : waitID[t] # p}),
                    Slice(waitList[q], AnyOf(waitList[q]), Len(waitList[q])),
                    ListWithout(Slice(waitList[q], AnyOf(waitList[q]), Len(waitList[q])),
                                {t \in ThreadIds : waitFlag[t] = "GID" /\ waitID[t] # s.pgroup[p]}),
                    s.children[q] = {})
    BY Zenon DEF OsWaitCheckAndWakeParentProcess, WokenBy, AnyOf, Slice
  <2>2. w = WokenBy(specified, others, eligible, s.children[q] = {})
    BY <1>1, <1>6, <1>10, <1>11, <1>12, <1>13, <1>14, <2>1, Zenon
  <2> QED BY <2>2 DEF WokenBy
<1>16. /\ specified # <<>> => ToSet(specified) = ToSet(Tail(specified)) \cup {Head(specified)}
       /\ eligible # <<>> => ToSet(eligible) = ToSet(Tail(eligible)) \cup {Head(eligible)}
  BY TailList
<1>17. /\ specified # <<>> => /\ w.first # {}
                              /\ ToSet(specified) \subseteq w.first \cup w.rest
                              /\ w.first \cup w.rest \subseteq ToSet(specified) \cup ToSet(others)
                              /\ s.children[q] = {} => ToSet(others) \subseteq w.first \cup w.rest
       /\ specified = <<>> /\ eligible # <<>> =>
              /\ w.first # {} /\ w.first \cup w.rest \subseteq ToSet(eligible)
              /\ s.children[q] = {} => ToSet(eligible) \subseteq w.first \cup w.rest
       /\ specified = <<>> /\ eligible = <<>> => w.first \cup w.rest = {}
  <2>1. CASE specified # <<>>
    <3>1. w.first = {Head(specified)} /\ w.rest = ToSet(Tail(specified)) \cup (IF s.children[q] = {} THEN ToSet(others) ELSE {})
      BY <1>15, <2>1
    <3> QED BY <1>16, <2>1, <3>1
  <2>2. CASE specified = <<>> /\ eligible # <<>>
    <3>1. w.first = {Head(eligible)} /\ w.rest = IF s.children[q] = {} THEN ToSet(Tail(eligible)) ELSE {}
      BY <1>15, <2>2
    <3> QED BY <1>16, <2>2, <3>1
  <2>3. CASE specified = <<>> /\ eligible = <<>>
    BY <1>15, <2>3
  <2> QED BY <2>1, <2>2, <2>3
<1>18. ToSet(a) \subseteq ToSet(l) /\ ToSet(others) \subseteq ToSet(l)
  <2>1. \A k \in 1..any - 1 : k \in 1..Len(l)
    BY <1>4, <1>9
  <2>2. \A k \in any..Len(l) : k \in 1..Len(l)
    BY <1>4, <1>9
  <2> QED BY <1>10, <1>11, <2>1, <2>2, ToSetIn
<1>19. ASSUME NEW u \in ToSet(l)
       PROVE  /\ waitFlag[u] = "PRO" /\ waitID[u] = p => u \in ToSet(specified)
              /\ waitFlag[u] = "ANY" \/ (waitFlag[u] = "GID" /\ waitID[u] = s.pgroup[p]) =>
                     u \in ToSet(others) /\ u \in ToSet(eligible)
  <2>1. PICK k \in 1..Len(l) : l[k] = u
    BY ToSetIn
  <2>2. waitFlag[u] = "PRO" => u \in ToSet(a)
    BY <1>8, <1>10, <2>1
  <2>3. waitFlag[u] # "PRO" => u \in ToSet(others)
    BY <1>8, <1>11, <2>1
  <2> QED BY <1>12, <1>13, <1>14, <2>2, <2>3
<1>20. \A x \in ToSet(specified) : specified # <<>>
  BY ToSetIn
<1>21. \A x \in ToSet(eligible) : eligible # <<>>
  BY ToSetIn
<1>22. w.first \cup w.rest \subseteq ToSet(l)
  BY <1>13, <1>14, <1>17, <1>18
<1>23. ASSUME NEW u \in ToSet(l)
       PROVE  /\ waitFlag[u] = "PRO" /\ waitID[u] = p => u \in w.first \cup w.rest
              /\ waitFlag[u] = "ANY" \/ (waitFlag[u] = "GID" /\ waitID[u] = s.pgroup[p]) => w.first # {}
              /\ waitFlag[u] = "ANY" /\ s.children[q] = {} => u \in w.first \cup w.rest
  <2>1. waitFlag[u] = "PRO" /\ waitID[u] = p => u \in w.first \cup w.rest
    BY <1>17, <1>19, <1>20
  <2>2. waitFlag[u] = "ANY" \/ (waitFlag[u] = "GID" /\ waitID[u] = s.pgroup[p]) => w.first # {}
    BY <1>17, <1>19, <1>21
  <2>3. waitFlag[u] = "ANY" /\ s.children[q] = {} => u \in w.first \cup w.rest
    BY <1>17, <1>19, <1>21
  <2> QED BY <2>1, <2>2, <2>3
<1> QED BY <1>1, <1>22, <1>23 DEF WokenOf

LEMMA NaturalExitKeeps ==
    ASSUME IInv, NEW t \in ThreadIds, OsProcessNaturalExit(t)
    PROVE  IInv'
<1>1. /\ TypeOK /\ TableInv(table, {}, {}) /\ Calls /\ Forks /\ Waits /\ Sleepers /\ NoForgottenWaiter /\ Recycler
      /\ table \in Tables /\ Family(table, {})
      /\ thread \in [ThreadIds -> {"RUN", "FORK", "PEND", "WOKEN", "EXIT"}]
      /\ waitID \in [ThreadIds -> Pids \cup {NULL, INVALID}]
      /\ thread[t] = "EXIT"
  BY DEF IInv, ThreadInv, TableInv, TypeOK, OsProcessNaturalExit
<1>2. PICK p \in Pids : p = Proc(t)
  BY ProcFacts
<1>3. /\ p \notin Listed(table) /\ ~Has(table, "INIT", p) /\ p # Root /\ Has(table, "EXIT", p)
      /\ ~Has(table, "INIT", Root)
  BY <1>1, <1>2 DEF Calls, Forks
<1>4. PICK s : s = OsChildProcessResourcesFree(table, p)
  OBVIOUS
<1>5. TableInv(s, {}, {}) /\ Calm(table, s) /\ s.exitChildren[p] = <<>>
  BY <1>1, <1>4, ChildResourcesFreed
<1>6. /\ s.children = table.children /\ Listed(s) = Listed(table) /\ s.parent[p] = table.parent[p]
      /\ Has(s, "EXIT", p) /\ ~Has(s, "INIT", Root) /\ s \in Tables /\ Family(s, {})
  BY <1>3, <1>5, ProcessAssumption DEF Calm, TableInv
<1>7. PICK q \in Pids : q = table.parent[p] /\ q # p
  BY <1>3, <1>5, <1>6, ExitKeeps
<1>8. PICK dead : dead = Zombie(s, p)
  OBVIOUS
<1>9. /\ thread' = [u \in ThreadIds |->
                       IF u \in OsWaitCheckAndWakeParentProcess(dead, q, p).first
                                \cup OsWaitCheckAndWakeParentProcess(dead, q, p).rest
                       THEN "WOKEN" ELSE [thread EXCEPT ![t] = "RUN"][u]]
      /\ waitID' = [u \in ThreadIds |->
                       IF u \in OsWaitCheckAndWakeParentProcess(dead, q, p).first THEN p
                       ELSE IF u \in OsWaitCheckAndWakeParentProcess(dead, q, p).rest THEN INVALID ELSE waitID[u]]
      /\ waitList' = [x \in Pids |-> ListWithout(waitList[x], OsWaitCheckAndWakeParentProcess(dead, q, p).first
                                                              \cup OsWaitCheckAndWakeParentProcess(dead, q, p).rest)]
      /\ table' = OsDealAliveChildProcess(dead, p)
      /\ \A u \in Threads[p] \ {t} : thread[u] = "RUN"
      /\ abandoned' = abandoned \ (OsWaitCheckAndWakeParentProcess(dead, q, p).first
                                   \cup OsWaitCheckAndWakeParentProcess(dead, q, p).rest)
      /\ waitFlag' = waitFlag /\ forking' = forking /\ resourceEvent' = resourceEvent /\ recycling' = recycling
  BY <1>2, <1>4, <1>7, <1>8 DEF OsProcessNaturalExit, OsWaitWakeTask
<1>10. PICK w : w = OsWaitCheckAndWakeParentProcess(dead, q, p)
  OBVIOUS
<1>11. WokenOf(w, dead, q, p)
  BY <1>1, <1>10, WakeParent
<1>12. PICK first, W : first = w.first /\ W = w.first \cup w.rest
  OBVIOUS
<1>13. /\ thread' = [u \in ThreadIds |-> IF u \in W THEN "WOKEN" ELSE [thread EXCEPT ![t] = "RUN"][u]]
       /\ waitID' = [u \in ThreadIds |-> IF u \in first THEN p ELSE IF u \in W THEN INVALID ELSE waitID[u]]
       /\ waitList' = [x \in Pids |-> ListWithout(waitList[x], W)]
       /\ first \subseteq W
  <2>1. \A u : u \in W /\ u \notin first <=> u \in w.rest /\ u \notin first
    BY <1>12
  <2>2. waitID' = [u \in ThreadIds |-> IF u \in w.first THEN p ELSE IF u \in w.rest THEN INVALID ELSE waitID[u]]
    BY <1>9, <1>10
  <2>3. waitID' = [u \in ThreadIds |-> IF u \in first THEN p ELSE IF u \in W THEN INVALID ELSE waitID[u]]
    BY <1>12, <2>1, <2>2
  <2> QED BY <1>9, <1>10, <1>12, <2>3
<1>14. /\ \A u \in W : u \in Threads[q] /\ thread[u] = "PEND" /\ u \in ThreadIds /\ u # t
       /\ \A u \in Threads[p] : thread[u] # "PEND" /\ u \notin W
  <2>1. ToSet(waitList[q]) = {u \in Threads[q] : thread[u] = "PEND"}
    BY <1>1 DEF Waits
  <2>2. W \subseteq ToSet(waitList[q])
    BY <1>11, <1>12 DEF WokenOf
  <2> QED BY <1>1, <1>7, <1>9, <2>1, <2>2, ProcFacts
<1>15. /\ \A u \in ThreadIds : /\ u \in W => thread'[u] = "WOKEN" /\ waitID'[u] \in {p, INVALID}
                               /\ u \in first => waitID'[u] = p
                               /\ u \notin W => waitID'[u] = waitID[u]
                               /\ u \notin W /\ u # t => thread'[u] = thread[u]
       /\ thread'[t] = "RUN"
  <2>1. \A u \in ThreadIds : [thread EXCEPT ![t] = "RUN"][u] = IF u = t THEN "RUN" ELSE thread[u]
    BY <1>1
  <2>2. t \notin W
    BY <1>14
  <2> QED BY <1>13, <2>1, <2>2
<1>16. Waits' /\ Sleepers' /\ waitList' \in [Pids -> Seq(ThreadIds)]
  <2>1. \A u \in ThreadIds : thread'[u] = "PEND" <=> thread[u] = "PEND" /\ u \notin W
    BY <1>1, <1>15
  <2> QED BY <1>1, <1>9, <1>13, <2>1, WakeKeeps
<1>17. TableInv(table', {}, {}) /\ ExitedEffect(s, table', p, q) /\ s.pgroup[p] \in Pids
  BY <1>3, <1>5, <1>6, <1>7, <1>8, <1>9, ExitKeeps
<1>18. /\ Listed(table') = Listed(table) \cup {p}
       /\ table'.pgroup = s.pgroup
       /\ \A x \in Pids :
           /\ Has(table', "INIT", x) <=> Has(table, "INIT", x)
           /\ x \notin Listed(table) => (Has(table', "EXIT", x) <=> Has(table, "EXIT", x))
           /\ x # p => (table.children[x] \ {p}) \subseteq table'.children[x]
           /\ x # q => ToSet(table'.exitChildren[x]) = ToSet(s.exitChildren[x])
           /\ x = q => ToSet(table'.exitChildren[x]) = ToSet(s.exitChildren[x]) \cup {p}
           /\ x \in ToSet(table.recycle) /\ Has(table, "EXIT", x) => x \in ToSet(table'.recycle) /\ Has(table', "EXIT", x)
  BY <1>5, <1>6, <1>17 DEF Calm, ExitedEffect
<1>19. /\ dead.pgroup = s.pgroup /\ dead.children[q] = table.children[q] \ {p}
  BY <1>6, <1>7, <1>8, <1>17 DEF Zombie, Tables
<1>20. \A x \in Pids : \A c \in ToSet(s.exitChildren[x]) :
           c \in ToSet(table.exitChildren[x]) /\ table'.pgroup[c] = table.pgroup[c]
  <2>1. SUFFICES ASSUME NEW x \in Pids, NEW c \in ToSet(s.exitChildren[x])
                 PROVE  c \in ToSet(table.exitChildren[x]) /\ table'.pgroup[c] = table.pgroup[c]
    OBVIOUS
  <2>2. c \in Pids
    BY <1>6, ToSetIn DEF Tables
  <2>3. Has(s, "ZOMBIES", c)
    BY <1>6 DEF Family
  <2> QED BY <1>5, <1>18, <2>2, <2>3 DEF Calm
<1>21. TypeOK'
  <2>1. thread' \in [ThreadIds -> {"RUN", "FORK", "PEND", "WOKEN", "EXIT"}]
    <3>1. \A u \in ThreadIds : thread'[u] \in {"RUN", "FORK", "PEND", "WOKEN", "EXIT"}
      BY <1>1, <1>15
    <3> QED BY <1>13, <3>1
  <2>2. waitID' \in [ThreadIds -> Pids \cup {NULL, INVALID}]
    <3>1. \A u \in ThreadIds : waitID'[u] \in Pids \cup {NULL, INVALID}
      BY <1>1, <1>15
    <3> QED BY <1>13, <3>1
  <2> QED BY <1>1, <1>9, <1>16, <1>17, <2>1, <2>2 DEF TypeOK, TableInv
<1>22. Calls'
  <2>1. SUFFICES ASSUME NEW u \in ThreadIds
                 PROVE  /\ thread'[u] # "RUN" => Proc(u) \notin Listed(table') /\ ~Has(table', "INIT", Proc(u))
                        /\ thread'[u] = "FORK" <=> forking'[u] # NULL
                        /\ thread'[u] = "EXIT" => Proc(u) # Root /\ Has(table', "EXIT", Proc(u))
                        /\ thread'[u] = "WOKEN" => waitID'[u] \in Pids \cup {INVALID}
    BY DEF Calls
  <2>2. /\ thread[u] # "RUN" => Proc(u) \notin Listed(table) /\ ~Has(table, "INIT", Proc(u))
        /\ thread[u] = "FORK" <=> forking[u] # NULL
        /\ thread[u] = "EXIT" => Proc(u) # Root /\ Has(table, "EXIT", Proc(u))
        /\ thread[u] = "WOKEN" => waitID[u] \in Pids \cup {INVALID}
        /\ Proc(u) \in Pids /\ u \in Threads[Proc(u)]
    BY <1>1, ProcFacts DEF Calls
  <2>3. CASE u = t
    BY <1>1, <1>9, <1>15, <2>2, <2>3
  <2>4. CASE u # t /\ u \in W
    <3>1. thread[u] = "PEND" /\ Proc(u) # p
      BY <1>14, <2>2, <2>4
    <3> QED BY <1>9, <1>15, <1>18, <2>2, <2>4, <3>1
  <2>5. CASE u # t /\ u \notin W
    <3>1. thread[u] # "RUN" => Proc(u) # p
      BY <1>9, <2>2, <2>5
    <3> QED BY <1>9, <1>15, <1>18, <2>2, <2>5, <3>1
  <2> QED BY <2>3, <2>4, <2>5
<1>23. Forks'
  BY <1>1, <1>9, <1>18, ProcessAssumption DEF Forks
<1>24. NoForgottenWaiter'
  <2>1. SUFFICES ASSUME NEW x \in Pids, NEW u \in Threads[x], thread'[u] = "PEND"
                 PROVE  /\ waitFlag'[u] = "PRO" => waitID'[u] \in table'.children[x] \/ u \in abandoned'
                        /\ waitFlag'[u] = "ANY" => /\ table'.children[x] # {} \/ u \in abandoned'
                                                   /\ \A c \in ToSet(table'.exitChildren[x]) : Announced(x, c)'
                        /\ waitFlag'[u] = "GID" =>
                               \A c \in ToSet(table'.exitChildren[x]) : table'.pgroup[c] = waitID'[u] => Announced(x, c)'
    BY DEF NoForgottenWaiter
  <2>2. /\ u \in ThreadIds /\ u \notin W /\ thread[u] = "PEND" /\ waitID'[u] = waitID[u] /\ waitFlag'[u] = waitFlag[u]
        /\ x # p
    BY <1>9, <1>14, <1>15, <2>1, ProcFacts
  <2>3. /\ waitFlag[u] = "PRO" => waitID[u] \in table.children[x] \/ u \in abandoned
        /\ waitFlag[u] = "ANY" => /\ table.children[x] # {} \/ u \in abandoned
                                  /\ \A c \in ToSet(table.exitChildren[x]) : Announced(x, c)
        /\ waitFlag[u] = "GID" =>
               \A c \in ToSet(table.exitChildren[x]) : table.pgroup[c] = waitID[u] => Announced(x, c)
    BY <1>1, <2>1, <2>2 DEF NoForgottenWaiter
  <2>4. ASSUME NEW c, Announced(x, c) PROVE Announced(x, c)'
    <3>1. PICK v \in Threads[x] : thread[v] = "WOKEN" /\ waitID[v] = c
      BY <2>4 DEF Announced
    <3>2. v \in ThreadIds /\ v \notin W /\ v # t
      BY <1>1, <1>14, <3>1, ProcFacts
    <3>3. thread'[v] = "WOKEN" /\ waitID'[v] = c
      BY <1>15, <3>1, <3>2
    <3> QED BY <3>3 DEF Announced
  <2>9. u \in abandoned => u \in abandoned'
    BY <1>9, <1>10, <1>12, <2>2
  <2>5. x # q => p \notin table.children[x]
    BY <1>1, <1>7, <2>1 DEF Family
  <2>6. CASE x # q
    <3>1. table.children[x] \subseteq table'.children[x]
      BY <1>18, <2>2, <2>5, <2>6
    <3>2. ToSet(table'.exitChildren[x]) = ToSet(s.exitChildren[x])
      BY <1>18, <2>6
    <3> QED BY <1>20, <2>2, <2>3, <2>4, <2>9, <3>1, <3>2
  <2>7. CASE x = q
    <3>1. u \in ToSet(waitList[q])
      BY <1>1, <2>1, <2>2, <2>7 DEF Waits
    <3>2. /\ waitFlag[u] = "PRO" => waitID[u] # p
          /\ waitFlag[u] = "ANY" \/ (waitFlag[u] = "GID" /\ waitID[u] = dead.pgroup[p]) => first # {}
          /\ waitFlag[u] = "ANY" => dead.children[q] # {}
      BY <1>11, <1>12, <2>2, <3>1 DEF WokenOf
    <3>3. first # {} => Announced(x, p)'
      <4>1. SUFFICES ASSUME NEW v \in first PROVE Announced(x, p)'
        OBVIOUS
      <4>2. v \in Threads[q] /\ thread'[v] = "WOKEN" /\ waitID'[v] = p
        BY <1>13, <1>14, <1>15
      <4> QED BY <2>7, <4>2 DEF Announced
    <3>4. ToSet(table'.exitChildren[x]) = ToSet(s.exitChildren[x]) \cup {p} /\ table'.pgroup[p] = dead.pgroup[p]
      BY <1>18, <1>19, <2>7
    <3>5. table.children[x] \ {p} \subseteq table'.children[x]
      BY <1>18, <2>2
    <3>6. waitFlag'[u] = "PRO" => waitID'[u] \in table'.children[x] \/ u \in abandoned'
      BY <2>2, <2>3, <2>9, <3>2, <3>5
    <3>7. waitFlag'[u] = "ANY" => /\ table'.children[x] # {} \/ u \in abandoned'
                                  /\ \A c \in ToSet(table'.exitChildren[x]) : Announced(x, c)'
      BY <1>19, <1>20, <2>2, <2>3, <2>4, <2>7, <2>9, <3>2, <3>3, <3>4, <3>5
    <3>8. ASSUME waitFlag'[u] = "GID", NEW c \in ToSet(table'.exitChildren[x]), table'.pgroup[c] = waitID'[u]
          PROVE  Announced(x, c)'
      <4>1. CASE c = p
        BY <2>2, <3>2, <3>3, <3>4, <3>8, <4>1
      <4>2. CASE c # p
        BY <1>20, <2>2, <2>3, <2>4, <3>4, <3>8, <4>2
      <4> QED BY <4>1, <4>2
    <3> QED BY <3>6, <3>7, <3>8
  <2> QED BY <2>6, <2>7
<1>25. Recycler'
  BY <1>1, <1>9, <1>18 DEF Recycler, TypeOK
<1> QED BY <1>16, <1>17, <1>21, <1>22, <1>23, <1>24, <1>25 DEF IInv, ThreadInv

-----------------------------------------------------------------------------
(* The invariant holds                                                      *)

\* The list of all blocks that OsProcessInit makes.
LEMMA AllOnce ==
    ASSUME NEW S, IsFiniteSet(S), NEW l, l = SetToSeq(S)
    PROVE  l \in Seq(S) /\ ToSet(l) = S /\ IsInjective(l)
<1>1. PICK n \in Nat : n = Cardinality(S)
  BY FS_CardinalityType
<1>2. PICK D : D = 1..n
  OBVIOUS
<1>3. IsFiniteSet(D) /\ Cardinality(D) = n
  <2>1. IsFiniteSet(1..n) /\ Cardinality(1..n) = IF 1 > n THEN 0 ELSE n - 1 + 1
    BY FS_Interval
  <2> QED BY <1>2, <2>1
<1>4. \E f \in [D -> S] : IsInjective(f)
  <2>1. ExistsBijection(D, S)
    BY <1>1, <1>2, FS_CardinalityType
  <2>2. PICK f : f \in Bijection(D, S)
    BY <2>1 DEF ExistsBijection
  <2> QED BY <2>2 DEF Bijection, Injection
<1>5. l \in [D -> S] /\ IsInjective(l)
  <2>1. l = CHOOSE f \in [D -> S] : IsInjective(f)
    BY <1>1, <1>2 DEF SetToSeq
  <2> QED BY <1>4, <2>1
<1>6. l \in Surjection(D, S)
  <2>1. l \in Injection(D, S)
    BY <1>5 DEF Injection
  <2> QED BY <1>1, <1>3, <2>1, FS_Injection
<1>7. \A e \in S : \E i \in D : l[i] = e
  BY <1>6 DEF Surjection
<1>8. l \in Seq(S) /\ DOMAIN l = D
  BY <1>2, <1>5
<1>9. ToSet(l) = S
  BY <1>5, <1>7, <1>8 DEF ToSet
<1> QED BY <1>5, <1>8, <1>9

LEMMA InitKeeps ==
    ASSUME Init
    PROVE  IInv
<1>1. /\ Root \in Pids /\ NULL \notin Pids /\ INVALID \notin Pids /\ IsFiniteSet(Pids)
      /\ "LEADER" \in Flags /\ "UNUSED" \in Flags
  BY ProcessAssumption DEF Flags
<1>2. PICK free : free = SetToSeq(Pids \ {Root})
  OBVIOUS
<1>3. free \in Seq(Pids) /\ ToSet(free) = Pids \ {Root} /\ IsInjective(free)
  <2>1. PICK S : S = Pids \ {Root}
    OBVIOUS
  <2>2. IsFiniteSet(S)
    BY <1>1, <2>1, FS_RemoveElement
  <2>3. free \in Seq(S) /\ ToSet(free) = S /\ IsInjective(free)
    BY <1>2, <2>1, <2>2, AllOnce
  <2> QED BY <2>1, <2>3
<1>4. PICK recycle \in Seq(Pids) : recycle = <<>>
  <2>1. <<>> \in Seq(Pids)
    OBVIOUS
  <2> QED BY <2>1
<1>5. ToSet(recycle) = {} /\ IsInjective(recycle)
  BY <1>4 DEF ToSet, IsInjective
<1>6. /\ table.status = [p \in Pids |-> IF p = Root THEN {"LEADER"} ELSE {"UNUSED"}]
      /\ table.parent = [p \in Pids |-> NULL]
      /\ table.children = [p \in Pids |-> {}] /\ table.exitChildren = [p \in Pids |-> recycle]
      /\ table.pgroup = [p \in Pids |-> IF p = Root THEN Root ELSE NULL] /\ table.groups = {Root}
      /\ table.processes = [p \in Pids |-> IF p = Root THEN {Root} ELSE {}]
      /\ table.exitProcesses = [p \in Pids |-> recycle]
      /\ table.free = free /\ table.recycle = recycle
      /\ table = [status |-> table.status, parent |-> table.parent, children |-> table.children,
                  exitChildren |-> table.exitChildren, pgroup |-> table.pgroup, groups |-> table.groups,
                  processes |-> table.processes, exitProcesses |-> table.exitProcesses,
                  free |-> table.free, recycle |-> table.recycle]
  BY <1>2, <1>4 DEF Init
<1>7. table \in Tables
  <2>1. /\ table.status \in [Pids -> SUBSET Flags] /\ table.parent \in [Pids -> Pids \cup {NULL}]
        /\ table.children \in [Pids -> SUBSET Pids] /\ table.exitChildren \in [Pids -> Seq(Pids)]
        /\ table.pgroup \in [Pids -> Pids \cup {NULL}] /\ table.groups \in SUBSET Pids
        /\ table.processes \in [Pids -> SUBSET Pids] /\ table.exitProcesses \in [Pids -> Seq(Pids)]
        /\ table.free \in Seq(Pids) /\ table.recycle \in Seq(Pids)
    BY <1>1, <1>3, <1>6
  <2> QED BY <1>6, <2>1 DEF Tables
<1>8. /\ thread = [t \in ThreadIds |-> "RUN"] /\ waitFlag = [t \in ThreadIds |-> "NONE"]
      /\ waitID = [t \in ThreadIds |-> NULL] /\ forking = [t \in ThreadIds |-> NULL]
      /\ waitList = [p \in Pids |-> <<>>] /\ resourceEvent = FALSE /\ recycling = NULL
      /\ abandoned = {}
  BY DEF Init
<1>9. TypeOK
  <2>1. <<>> \in Seq(ThreadIds)
    OBVIOUS
  <2> QED BY <1>7, <1>8, <2>1 DEF TypeOK
<1>10. Listed(table) = Pids \ {Root}
  BY <1>3, <1>5, <1>6 DEF Listed
<1>11. \A p \in Pids : /\ p = Root => table.status[p] = {"LEADER"} /\ table.pgroup[p] = Root /\ table.processes[p] = {Root}
                       /\ p # Root => table.status[p] = {"UNUSED"} /\ table.pgroup[p] = NULL /\ table.processes[p] = {}
                       /\ table.parent[p] = NULL /\ table.children[p] = {} /\ table.exitChildren[p] = recycle
                       /\ table.exitProcesses[p] = recycle
  BY <1>6
<1>12. Lists(table)
  BY <1>3, <1>5, <1>6 DEF Lists
<1>13. Flagged(table)
  <2>1. /\ ToSet(table.free) = Pids \ {Root} /\ ToSet(table.recycle) = {}
        /\ {"LEADER"} # {"UNUSED"}
    BY <1>3, <1>5, <1>6
  <2>2. \A p \in Pids : /\ p \in ToSet(table.free) <=> table.status[p] = {"UNUSED"}
                        /\ p \notin Listed(table) => ~Has(table, "UNUSED", p) /\ ~Has(table, "INIT", p)
                        /\ ~Has(table, "ZOMBIES", p)
    BY <1>10, <1>11, <2>1 DEF Has
  <2> QED BY <1>10, <2>1, <2>2 DEF Flagged
<1>14. Family(table, {})
  BY <1>1, <1>4, <1>5, <1>10, <1>11 DEF Family, Has
<1>15. Grouped(table, {})
  <2>1. \A p \in Pids : p \in table.groups <=> p = Root
    BY <1>6
  <2> QED BY <1>1, <1>5, <1>10, <1>11, <2>1 DEF Grouped, Has
<1>16. Calls /\ Sleepers /\ NoForgottenWaiter /\ Recycler
  <2>1. \A t \in ThreadIds : thread[t] = "RUN" /\ forking[t] = NULL
    BY <1>8
  <2>2. Calls /\ Sleepers
    BY <2>1 DEF Calls, Sleepers
  <2>3. NoForgottenWaiter
    BY <2>1, ProcFacts DEF NoForgottenWaiter
  <2> QED BY <1>8, <2>2, <2>3 DEF Recycler
<1>17. Forks
  <2>1. \A t \in ThreadIds : forking[t] = NULL
    BY <1>8
  <2> QED BY <1>1, <1>11, <2>1 DEF Forks, Has
<1>18. Waits
  <2>1. \A p \in Pids : \A t \in Threads[p] : thread[t] # "PEND"
    BY <1>8, ProcFacts
  <2>2. \A p \in Pids : waitList[p] = <<>> /\ {t \in Threads[p] : thread[t] = "PEND"} = {}
    BY <1>8, <2>1
  <2>3. ToSet(<<>>) = {} /\ \A K : ComeFirst(<<>>, K)
    BY DEF ToSet, ComeFirst
  <2> QED BY <2>2, <2>3 DEF Waits
<1>19. Relics(table)
  BY <1>5, <1>6 DEF Relics
<1> QED BY <1>7, <1>9, <1>12, <1>13, <1>14, <1>15, <1>16, <1>17, <1>18, <1>19 DEF IInv, TableInv, ThreadInv

LEMMA NextKeeps ==
    ASSUME Unlucky = FALSE, IInv, [Next]_vars
    PROVE  IInv'
<1>1. CASE UNCHANGED vars
  BY <1>1, StutterKeeps
<1>2. CASE OsWriteResourceEvent \/ RecycleTakes \/ RecyclePuts
  BY <1>2, WriteEventKeeps, RecycleTakesKeeps, RecyclePutsKeeps
<1>3. ASSUME NEW t \in ThreadIds, NEW parent \in Pids, OsCopyParent(t, parent) PROVE IInv'
  BY <1>3, CopyParentKeeps
<1>4. ASSUME NEW t \in ThreadIds, NEW status \in {{"INIT"}, {"UNUSED"}}, CopyProcessFailsEarly(t, status) PROVE IInv'
  BY <1>4, FailsEarlyKeeps
<1>5. ASSUME NEW t \in ThreadIds, OsChildSetProcessGroupAndSched(t) \/ CopyProcessFailsLate(t) PROVE IInv'
  BY <1>5, ChildReadyKeeps, FailsLateKeeps
<1>6. ASSUME NEW t \in ThreadIds, NEW p \in Pids, NEW g \in Pids, NEW memory \in BOOLEAN,
             OsSetProcessGroupID(t, p, g, memory)
      PROVE  IInv'
  BY <1>6, SetGroupIDKeeps
<1>7. ASSUME NEW t \in ThreadIds, OsProcessThreadGroupDestroy(t) \/ OsProcessNaturalExit(t) \/ OsWaitReturns(t)
      PROVE  IInv'
  BY <1>7, GroupDestroyKeeps, NaturalExitKeeps, WaitReturnsKeeps
<1>8. ASSUME NEW t \in ThreadIds, NEW arg \in WaitArgs(Proc(t)), OsWaitTakes(t, arg) \/ OsWaitSleeps(t, arg)
      PROVE  IInv'
  BY <1>8, WaitTakesKeeps, WaitSleepsKeeps
<1> QED BY <1>1, <1>2, <1>3, <1>4, <1>5, <1>6, <1>7, <1>8 DEF Next

\* What the inductive invariant says in the words of the properties.
LEMMA Consequences ==
    ASSUME IInv
    PROVE  TypeOK /\ PcbAccounted /\ FamilyIntact /\ GroupsIntact /\ NoForgottenWaiter
<1>1. /\ TypeOK /\ table \in Tables /\ Lists(table) /\ Flagged(table) /\ Family(table, {}) /\ Grouped(table, {})
      /\ Forks /\ NoForgottenWaiter
  BY DEF IInv, TableInv, ThreadInv
<1>2. PICK both : both = table.free \o table.recycle
  OBVIOUS
<1>3. IsInjective(both) /\ ToSet(both) = Listed(table)
  <2>1. PICK f \in Seq(Pids), r \in Seq(Pids) : f = table.free /\ r = table.recycle
    BY <1>1 DEF Tables
  <2>2. /\ ToSet(f \o r) = ToSet(f) \cup ToSet(r)
        /\ IsInjective(f) /\ IsInjective(r) /\ ToSet(f) \cap ToSet(r) = {} => IsInjective(f \o r)
    BY ConcatLists
  <2> QED BY <1>1, <1>2, <2>1, <2>2 DEF Lists, Listed
<1>4. PcbAccounted
  <2>1. SUFFICES ASSUME NEW p \in Pids
                 PROVE  /\ p \in ToSet(table.free) <=> table.status[p] = {"UNUSED"}
                        /\ p \notin ToSet(both) => p = Root \/ p \in table.children[table.parent[p]]
                        /\ Unfinished(p) <=> Has(table, "INIT", p)
    BY <1>2, <1>3 DEF PcbAccounted, Has
  <2>2. p \in ToSet(table.free) <=> table.status[p] = {"UNUSED"}
    BY <1>1 DEF Flagged
  <2>3. p \notin ToSet(both) => p = Root \/ p \in table.children[table.parent[p]]
    BY <1>1, <1>3 DEF Family
  <2>4. Unfinished(p) <=> Has(table, "INIT", p)
    BY <1>1 DEF Forks, Unfinished
  <2> QED BY <2>2, <2>3, <2>4
<1>5. FamilyIntact
  <2>1. SUFFICES ASSUME NEW p \in Pids
                 PROVE  /\ \A c \in table.children[p] : table.parent[c] = p /\ c \notin ToSet(both)
                        /\ \A c \in ToSet(table.exitChildren[p]) : table.parent[c] = p
                        /\ IsInjective(table.exitChildren[p])
                        /\ Has(table, "ZOMBIES", p) <=> \E q \in Pids : p \in ToSet(table.exitChildren[q])
                        /\ table.children[p] # {} \/ table.exitChildren[p] # <<>> => p \notin ToSet(both)
    BY <1>2 DEF FamilyIntact, OsProcessIsDead, Has
  <2> QED BY <1>1, <1>3 DEF Family
<1>6. GroupsIntact
  <2>1. \A g \in Pids : /\ ToSet(table.exitProcesses[g]) = {} <=> table.exitProcesses[g] = <<>>
                        /\ ToSet(table.exitProcesses[g]) \subseteq Pids
                        /\ table.processes[g] \subseteq Pids
    <3>1. SUFFICES ASSUME NEW g \in Pids
                   PROVE  /\ ToSet(table.exitProcesses[g]) = {} <=> table.exitProcesses[g] = <<>>
                          /\ ToSet(table.exitProcesses[g]) \subseteq Pids
                          /\ table.processes[g] \subseteq Pids
      OBVIOUS
    <3>2. table.exitProcesses[g] \in Seq(Pids) /\ table.processes[g] \subseteq Pids
      BY <1>1 DEF Tables
    <3>3. PICK e \in Seq(Pids) : e = table.exitProcesses[g]
      BY <3>2
    <3>4. (ToSet(e) = {} <=> e = <<>>) /\ ToSet(e) \subseteq Pids
      BY ToSetIn
    <3> QED BY <3>2, <3>3, <3>4
  <2>2. ASSUME NEW p \in Pids
        PROVE  /\ table.pgroup[p] # NULL => table.pgroup[p] \in table.groups
               /\ \A g \in Pids :
                   /\ p \in table.processes[g] => table.pgroup[p] = g /\ ~Has(table, "ZOMBIES", p)
                   /\ p \in ToSet(table.exitProcesses[g]) => table.pgroup[p] = g /\ Has(table, "ZOMBIES", p)
               /\ p \notin ToSet(both) \/ Has(table, "ZOMBIES", p) =>
                      \E g \in Pids : p \in table.processes[g] \cup ToSet(table.exitProcesses[g])
    <3>1. table.pgroup[p] # NULL => table.pgroup[p] \in Pids
      BY <1>1 DEF Tables
    <3> QED BY <1>1, <1>3, <3>1 DEF Grouped
  <2>3. ASSUME NEW g \in Pids
        PROVE  /\ g \in table.groups <=> table.processes[g] # {} \/ table.exitProcesses[g] # <<>>
               /\ g \in table.groups <=> Has(table, "LEADER", g)
               /\ g \in table.groups => g \notin ToSet(table.free)
    <3>1. g \in table.groups <=> table.processes[g] # {} \/ ToSet(table.exitProcesses[g]) # {}
      BY <1>1, <2>1 DEF Grouped
    <3>2. g \in table.groups <=> Has(table, "LEADER", g)
      BY <1>1 DEF Grouped
    <3>3. g \in ToSet(table.free) => ~Has(table, "LEADER", g)
      BY <1>1 DEF Flagged, Has
    <3> QED BY <2>1, <3>1, <3>2, <3>3
  <2> QED BY <1>2, <2>2, <2>3 DEF GroupsIntact, OsProcessIsDead, OsProcessIsPGroupLeader, Has
<1> QED BY <1>1, <1>4, <1>5, <1>6

-----------------------------------------------------------------------------
\* The inductive invariant holds in every reachable state, as long as memory does not run
\* out where OsSetProcessGroupIDUnsafe cannot undo what it did.
THEOREM Inductive ==
    ASSUME Unlucky = FALSE
    PROVE  Spec => []IInv
<1>1. Init => IInv
  BY InitKeeps
<1>2. IInv /\ [Next]_vars => IInv'
  BY NextKeeps
<1> QED BY <1>1, <1>2, PTL DEF Spec

\* Type correctness of the process table and of the calls of the threads.
THEOREM TypeCorrect ==
    ASSUME Unlucky = FALSE
    PROVE  Spec => []TypeOK
BY Inductive, Consequences, PTL

\* No PCB is listed nowhere, freed twice or used while it is free: OsRecycleZombiesProcess,
\* the resource task and ExitProcessGroup share the two lists without dropping a block,
\* for any number of processes and threads and in any order of their calls.
THEOREM PcbsAreAccounted ==
    ASSUME Unlucky = FALSE
    PROVE  Spec => []PcbAccounted
BY Inductive, Consequences, PTL

\* Parents and children agree: who lives has a parent that lives (OsDealAliveChildProcess),
\* and who has exited waits in the exit list of one until it is taken.
THEOREM FamiliesStayIntact ==
    ASSUME Unlucky = FALSE
    PROVE  Spec => []FamilyIntact
BY Inductive, Consequences, PTL

\* Groups and members agree, and the PCB of a leader is not reused while its group has
\* members (ExitProcessGroup, OsSetProcessGroupIDUnsafe).
THEOREM GroupsStayIntact ==
    ASSUME Unlucky = FALSE
    PROVE  Spec => []GroupsIntact
BY Inductive, Consequences, PTL

\* No thread sleeps in wait for a child that has gone or that nobody will tell it of, except
\* for a child that a failed fork took back during the wait (OsWaitCheckAndWakeParentProcess
\* against OsWait, the setting of groups and every failure of OsCopyProcess).
THEOREM NobodyIsForgotten ==
    ASSUME Unlucky = FALSE
    PROVE  Spec => []NoForgottenWaiter
BY Inductive, Consequences, PTL

=============================================================================

------------------------------ MODULE LosProcess ------------------------------
(***************************************************************************)
(* User processes (kernel/base/core/los_process.c): fork, exit, wait,      *)
(* process groups and the recycling of control blocks (PCBs).              *)
(*                                                                         *)
(* `table` holds what g_taskSpin protects: the PCBs, the process groups    *)
(* and the two lists PCBs wait in.  A group is identified by the PCB of    *)
(* its leader.  Threads only matter by the system call they are in; a      *)
(* process starts with all its threads, and a thread that does nothing is  *)
(* one that was not created yet.  PID containers and exec are left out.    *)
(***************************************************************************)
EXTENDS LosList, FiniteSets

CONSTANTS Pids,       \* g_processCBArray
          Root,       \* OS_USER_ROOT_PROCESS_ID, the user init process
          Threads,    \* Threads[p]: the threads of p
          ThreadIds,
          CloneParent,\* client discipline: is CLONE_PARENT used?
          Unlucky,    \* may memory also run out where setpgid cannot undo what it did?
          NULL,
          INVALID     \* OS_INVALID_VALUE

ASSUME ProcessAssumption ==
    /\ IsFiniteSet(Pids) /\ Root \in Pids
    /\ Threads \in [Pids -> SUBSET ThreadIds]
    /\ ThreadIds = UNION {Threads[p] : p \in Pids}
    /\ \A p \in Pids : Threads[p] # {}
    /\ \A p, q \in Pids : p # q => Threads[p] \cap Threads[q] = {}
    /\ CloneParent \in BOOLEAN /\ Unlucky \in BOOLEAN
    /\ NULL \notin Pids /\ INVALID \notin Pids /\ NULL # INVALID

VARIABLES table,         \* PCBs, groups and lists
          waitList,      \* waitList[p]: the sleeping threads of p, specified < group < any
          thread,        \* the system call a thread is in
          waitFlag, waitID,
          forking,       \* forking[t]: the local variable child of OsCopyProcess
          resourceEvent, \* OS_RESOURCE_EVENT_FREE is set in g_resourceEvent
          recycling,     \* the local variable processCB of OsProcessCBRecycleToFree while it is unlocked
          abandoned      \* history: sleeping threads whose child went with a failed fork

threadVars == <<waitList, thread, waitFlag, waitID, abandoned>>
vars == <<table, waitList, thread, waitFlag, waitID, forking, resourceEvent, recycling, abandoned>>

Flags == {"INIT", "ZOMBIES", "UNUSED", "EXIT", "LEADER"}

Tables == [status : [Pids -> SUBSET Flags], parent : [Pids -> Pids \cup {NULL}],
           children : [Pids -> SUBSET Pids], exitChildren : [Pids -> Seq(Pids)],
           pgroup : [Pids -> Pids \cup {NULL}], groups : SUBSET Pids,
           processes : [Pids -> SUBSET Pids], exitProcesses : [Pids -> Seq(Pids)],
           free : Seq(Pids), recycle : Seq(Pids)]

TypeOK ==
    /\ table \in Tables
    /\ waitList \in [Pids -> Seq(ThreadIds)]
    /\ thread \in [ThreadIds -> {"RUN", "FORK", "PEND", "WOKEN", "EXIT"}]
    /\ waitFlag \in [ThreadIds -> {"NONE", "PRO", "GID", "ANY"}]
    /\ waitID \in [ThreadIds -> Pids \cup {NULL, INVALID}]
    /\ forking \in [ThreadIds -> Pids \cup {NULL}]
    /\ resourceEvent \in BOOLEAN
    /\ recycling \in Pids \cup {NULL}
    /\ abandoned \subseteq ThreadIds

\* After OsProcessInit and OsUserInitProcess: init leads its own group, all other PCBs are free.
Init ==
    /\ table = [status |-> [p \in Pids |-> IF p = Root THEN {"LEADER"} ELSE {"UNUSED"}],
                parent |-> [p \in Pids |-> NULL],
                children |-> [p \in Pids |-> {}], exitChildren |-> [p \in Pids |-> <<>>],
                pgroup |-> [p \in Pids |-> IF p = Root THEN Root ELSE NULL], groups |-> {Root},
                processes |-> [p \in Pids |-> IF p = Root THEN {Root} ELSE {}],
                exitProcesses |-> [p \in Pids |-> <<>>],
                free |-> SetToSeq(Pids \ {Root}), recycle |-> <<>>]
    /\ waitList = [p \in Pids |-> <<>>]
    /\ thread = [t \in ThreadIds |-> "RUN"]
    /\ waitFlag = [t \in ThreadIds |-> "NONE"] /\ waitID = [t \in ThreadIds |-> NULL]
    /\ forking = [t \in ThreadIds |-> NULL]
    /\ resourceEvent = FALSE /\ recycling = NULL /\ abandoned = {}

-----------------------------------------------------------------------------
ProcOf == [t \in ThreadIds |-> CHOOSE p \in Pids : t \in Threads[p]]
Proc(t) == ProcOf[t]

Without(s, x) == ListWithout(s, {x})

OsProcessIsDead(s, p) == "ZOMBIES" \in s.status[p]
OsProcessIsUnused(s, p) == "UNUSED" \in s.status[p]
OsProcessIsInactive(s, p) == s.status[p] \cap {"UNUSED", "EXIT", "ZOMBIES"} # {}
OsProcessIsPGroupLeader(s, p) == "LEADER" \in s.status[p]

\* A thread of a living process that runs in user mode and may make a system call.
Running(t) ==
    /\ thread[t] = "RUN"
    /\ table.status[Proc(t)] \subseteq {"LEADER"} /\ Proc(t) \notin ToSet(table.recycle)

\* OsInsertPCBToFreeList: the block is cleared, the process id stays.
OsInsertPCBToFreeList(s, p) ==
    [s EXCEPT !.status[p] = {"UNUSED"}, !.parent[p] = NULL, !.pgroup[p] = NULL,
              !.children[p] = {}, !.exitChildren[p] = <<>>, !.free = Append(@, p)]

OsCreateProcessGroup(s, p) ==
    [s EXCEPT !.groups = @ \cup {p}, !.processes[p] = {p}, !.pgroup[p] = p,
              !.status[p] = @ \cup {"LEADER"}]

\* The last member of a group takes the group with it, and frees the PCB of a leader that
\* was kept for the sake of the group.
ExitProcessGroup(s, p) ==
    LET g == s.pgroup[p]
        left == [s EXCEPT !.processes[g] = @ \ {p}, !.exitProcesses[g] = Without(@, p),
                          !.pgroup[p] = NULL]
        closed == [left EXCEPT !.groups = @ \ {g}, !.status[g] = @ \ {"LEADER"}]
    IN IF left.processes[g] # {} \/ left.exitProcesses[g] # <<>> THEN left
       ELSE IF OsProcessIsUnused(closed, g) /\ "EXIT" \notin closed.status[g]
            THEN OsInsertPCBToFreeList([closed EXCEPT !.recycle = Without(@, g)], g)
            ELSE closed

\* Mutant: the PCB of a leader is freed although its group has members.
OsRecycleZombiesProcessLeader(s, c) ==
    LET left == ExitProcessGroup(s, c)
        out == [left EXCEPT !.children = [p \in Pids |-> @[p] \ {c}],
                            !.exitChildren = [p \in Pids |-> Without(@[p], c)],
                            !.status[c] = (@ \ {"ZOMBIES"}) \cup {"UNUSED"},
                            !.recycle = Without(@, c)]
    IN IF "EXIT" \in out.status[c] THEN [out EXCEPT !.recycle = <<c>> \o @]
       ELSE OsInsertPCBToFreeList(out, c)

OsRecycleZombiesProcess(s, c) ==
    LET left == ExitProcessGroup(s, c)
        out == [left EXCEPT !.children = [p \in Pids |-> @[p] \ {c}],
                            !.exitChildren = [p \in Pids |-> Without(@[p], c)],
                            !.status[c] = IF OsProcessIsDead(left, c)
                                          THEN (@ \ {"ZOMBIES"}) \cup {"UNUSED"} ELSE @,
                            !.recycle = Without(@, c)]
    IN IF "EXIT" \in out.status[c] THEN [out EXCEPT !.recycle = <<c>> \o @]
       ELSE IF OsProcessIsPGroupLeader(out, c) THEN [out EXCEPT !.recycle = Append(@, c)]
       ELSE OsInsertPCBToFreeList(out, c)

\* The exited children of p are taken off one by one.
OsChildProcessResourcesFree(s, p) ==
    LET list == s.exitChildren[p]
        after[i \in 0..Len(list)] == IF i = 0 THEN s ELSE OsRecycleZombiesProcess(after[i - 1], list[i])
    IN after[Len(list)]

\* Mutant: the children keep their pointer to the parent.
OsDealAliveChildProcessKeepsParent(s, p) ==
    [s EXCEPT !.children[p] = {}, !.children[Root] = @ \cup s.children[p]]

OsDealAliveChildProcess(s, p) ==
    [s EXCEPT !.parent = [c \in Pids |-> IF c \in s.children[p] THEN Root ELSE @[c]],
              !.children[p] = {}, !.children[Root] = @ \cup s.children[p]]

-----------------------------------------------------------------------------
\* A PCB that never became a process goes to the resource task.
OsDeInitPCB(s, c) ==
    LET orphan == [s EXCEPT !.children = [p \in Pids |-> @[p] \ {c}], !.parent[c] = NULL]
        alone == IF orphan.pgroup[c] # NULL THEN ExitProcessGroup(orphan, c) ELSE orphan
    IN [alone EXCEPT !.status[c] = (@ \ {"INIT"}) \cup {"EXIT"}, !.recycle = <<c>> \o @]

\* OsSetProcessGroupCheck for a call by process run
MaySetGroup(s, run, p, g) ==
    /\ ~OsProcessIsInactive(s, p)
    /\ run = s.parent[p] \/ run = p
    /\ p # g => /\ OsProcessIsPGroupLeader(s, g)
                /\ s.parent[g] = s.parent[p] \/ g = s.parent[p]

\* Without memory for a new group the process goes back to its old one; the PCB of the old
\* leader is not taken back from the free list.
BackToOldGroup(s, p, left) ==
    LET old == s.pgroup[p]
    IN [left EXCEPT !.processes[old] = @ \cup {p}, !.pgroup[p] = old, !.groups = @ \cup {old},
                    !.status[old] = IF old \in left.groups THEN @ ELSE @ \cup {"LEADER"}]

\* OsSetProcessGroupIDUnsafe after its check
SetGroup(s, p, g, memory) ==
    LET left == ExitProcessGroup(s, p)
    IN IF s.pgroup[p] = g THEN s
       ELSE IF g \in left.groups THEN [left EXCEPT !.processes[g] = @ \cup {p}, !.pgroup[p] = g]
       ELSE IF memory THEN OsCreateProcessGroup(left, g)
       ELSE BackToOldGroup(s, p, left)

\* There is a way back when the leader's PCB was not freed.
CanUndo(s, p) == Unlucky \/ s.pgroup[p] \notin ToSet(ExitProcessGroup(s, p).free)

OsSetProcessGroupID(t, p, g, memory) ==
    /\ Running(t)
    /\ MaySetGroup(table, Proc(t), p, g)
    /\ memory \/ CanUndo(table, p)
    /\ table' = SetGroup(table, p, g, memory)
    /\ UNCHANGED <<threadVars, forking, resourceEvent, recycling>>

-----------------------------------------------------------------------------
\* OsGetFreePCB, OsInitPCB and OsCopyParent: from here on the child can be seen.
OsCopyParent(t, parent) ==
    LET c == Head(table.free) IN
    /\ Running(t)
    /\ table.free # <<>>
    /\ parent = Proc(t) \/ (CloneParent /\ parent = table.parent[Proc(t)])
    /\ table' = [table EXCEPT !.free = Tail(@), !.status[c] = {"INIT"}, !.parent[c] = parent,
                              !.children[parent] = @ \cup {c},
                              !.pgroup[c] = table.pgroup[parent],
                              !.processes[table.pgroup[parent]] = @ \cup {c}]
    /\ forking' = [forking EXCEPT ![t] = c]
    /\ thread' = [thread EXCEPT ![t] = "FORK"]
    /\ UNCHANGED <<waitList, waitFlag, waitID, abandoned, resourceEvent, recycling>>

\* OsInitPCB fails, with or without an address space.
CopyProcessFailsEarly(t, status) ==
    LET c == Head(table.free) IN
    /\ Running(t)
    /\ table.free # <<>>
    /\ table' = OsDeInitPCB([table EXCEPT !.free = Tail(@), !.status[c] = status], c)
    /\ resourceEvent' = TRUE
    /\ UNCHANGED <<threadVars, forking, recycling>>

\* The fork returns to user mode.
ForkReturns(t) ==
    /\ forking' = [forking EXCEPT ![t] = NULL]
    /\ thread' = [thread EXCEPT ![t] = "RUN"]
    /\ UNCHANGED <<waitList, waitFlag, waitID, recycling>>

\* Children of processes in the group of init start in a group of their own.
NeedsGroup(t) == table.pgroup[Proc(t)] = Root

OsChildSetProcessGroupAndSched(t) ==
    LET c == forking[t]
        grouped == IF NeedsGroup(t) THEN SetGroup(table, c, c, TRUE) ELSE table
    IN /\ thread[t] = "FORK"
       /\ NeedsGroup(t) => MaySetGroup(table, Proc(t), c, c)
       /\ table' = [grouped EXCEPT !.status[c] = @ \ {"INIT"}]
       /\ ForkReturns(t)
       /\ UNCHANGED <<resourceEvent, abandoned>>

\* The sleeping threads that wait for child c of p itself, or for any child when c is the last.
WaitsOnlyFor(p, c) ==
    {t \in Threads[p] : /\ thread[t] = "PEND"
                        /\ \/ waitFlag[t] = "PRO" /\ waitID[t] = c
                           \/ waitFlag[t] = "ANY" /\ table.children[p] = {c}}

\* OsCopyTask, OsCopyProcessResources or OsChildSetProcessGroupAndSched fails.  The parent may
\* know the child already; a thread of it that waits for the child is not woken.
CopyProcessFailsLate(t) ==
    LET c == forking[t] IN
    /\ thread[t] = "FORK"
    /\ table' = OsDeInitPCB(table, c)
    /\ resourceEvent' = TRUE
    /\ abandoned' = abandoned \cup WaitsOnlyFor(table.parent[c], c)
    /\ ForkReturns(t)

-----------------------------------------------------------------------------
\* Who is woken when process p exits, in a record: `first` is told the process, `rest` are
\* told that there is nothing to wait for.  A thread that waits for p itself comes first,
\* then those that wait for its group, then those that wait for any child.
OsWaitCheckAndWakeParentProcess(s, q, p) ==
    LET list == waitList[q]
        any == CHOOSE i \in 1..Len(list) + 1 :
                   /\ \A j \in 1..i - 1 : waitFlag[list[j]] = "PRO"
                   /\ i <= Len(list) => waitFlag[list[i]] # "PRO"
        specified == ListWithout(SubSeq(list, 1, any - 1), {t \in ThreadIds : waitID[t] # p})
        others == SubSeq(list, any, Len(list))
        eligible == ListWithout(others, {t \in ThreadIds : waitFlag[t] = "GID" /\ waitID[t] # s.pgroup[p]})
        lastChild == s.children[q] = {}
    IN IF specified # <<>>
       THEN [first |-> {Head(specified)},
             rest |-> ToSet(Tail(specified)) \cup (IF lastChild THEN ToSet(others) ELSE {})]
       ELSE IF eligible # <<>>
       THEN [first |-> {Head(eligible)}, rest |-> IF lastChild THEN ToSet(Tail(eligible)) ELSE {}]
       ELSE [first |-> {}, rest |-> {}]

\* OsWaitWakeTask, on top of what else happens to the threads
OsWaitWakeTask(threads, first, p, rest) ==
    /\ thread' = [t \in ThreadIds |-> IF t \in first \cup rest THEN "WOKEN" ELSE threads[t]]
    /\ waitID' = [t \in ThreadIds |-> IF t \in first THEN p ELSE IF t \in rest THEN INVALID ELSE waitID[t]]
    /\ waitList' = [q \in Pids |-> ListWithout(waitList[q], first \cup rest)]
    /\ abandoned' = abandoned \ (first \cup rest)
    /\ UNCHANGED waitFlag

\* LOS_Exit, OsProcessThreadGroupDestroy: a sleeping thread is killed, one in a system
\* call finishes it, the others are gone.
OsProcessThreadGroupDestroy(t) ==
    LET p == Proc(t) IN
    /\ Running(t)
    /\ p # Root
    /\ table' = [table EXCEPT !.status[p] = @ \cup {"EXIT"}]
    /\ OsWaitWakeTask([thread EXCEPT ![t] = "EXIT"], {}, INVALID, {u \in Threads[p] : thread[u] = "PEND"})
    /\ UNCHANGED <<forking, resourceEvent, recycling>>

\* OsProcessNaturalExit, up to the wake-ups
Zombie(s, p) ==
    LET q == s.parent[p]
        g == s.pgroup[p]
    IN [s EXCEPT !.children[q] = @ \ {p}, !.exitChildren[q] = Append(@, p),
                 !.processes[g] = @ \ {p}, !.exitProcesses[g] = Append(@, p),
                 !.status[p] = @ \cup {"ZOMBIES"}, !.recycle = <<p>> \o @]

\* The last thread is alone: OsRunningTaskToExit.
OsProcessNaturalExit(t) ==
    LET p == Proc(t)
        q == table.parent[p]
        dead == Zombie(OsChildProcessResourcesFree(table, p), p)
        woken == OsWaitCheckAndWakeParentProcess(dead, q, p)
    IN /\ thread[t] = "EXIT"
       /\ \A u \in Threads[p] \ {t} : thread[u] = "RUN"
       /\ table' = OsDealAliveChildProcess(dead, p)
       /\ OsWaitWakeTask([thread EXCEPT ![t] = "RUN"], woken.first, p, woken.rest)
       /\ UNCHANGED <<forking, resourceEvent, recycling>>

-----------------------------------------------------------------------------
\* The arguments of LOS_Wait: a child, the own group or a given one, or any child.
WaitArgs(p) ==
    {[flag |-> "PRO", id |-> c] : c \in table.children[p] \cup ToSet(table.exitChildren[p])}
    \cup {[flag |-> "GID", id |-> g] : g \in table.groups}
    \cup {[flag |-> "ANY", id |-> NULL]}

\* OsWaitSetFlag: the exited processes a wait may take, in their order
Exited(p, arg) ==
    CASE arg.flag = "PRO" -> ListWithout(table.exitChildren[p], Pids \ {arg.id})
      [] arg.flag = "GID" -> table.exitProcesses[arg.id]
      [] arg.flag = "ANY" -> table.exitChildren[p]

Rank == [PRO |-> 1, GID |-> 2, ANY |-> 3]

\* Mutant: at the end of the list.
OsWaitInsertWaitListAtEnd(p, t, flag) == Append(waitList[p], t)

\* OsWaitInsertWaitListInOrder
OsWaitInsertWaitListInOrder(p, t, flag) ==
    LET list == waitList[p]
        before == {u \in ToSet(list) : Rank[waitFlag[u]] < Rank[flag]}
    IN ListWithout(list, ToSet(list) \ before) \o <<t>> \o ListWithout(list, before)

HasChildren(p) == table.children[p] # {} \/ table.exitChildren[p] # <<>>

\* OsWait, when there is an exited process to take
OsWaitTakes(t, arg) ==
    LET p == Proc(t) IN
    /\ Running(t)
    /\ HasChildren(p)
    /\ arg \in WaitArgs(p)
    /\ Exited(p, arg) # <<>>
    /\ table' = OsRecycleZombiesProcess(table, Head(Exited(p, arg)))
    /\ UNCHANGED <<threadVars, forking, resourceEvent, recycling>>

\* OsWait, when there is none
OsWaitSleeps(t, arg) ==
    LET p == Proc(t) IN
    /\ Running(t)
    /\ HasChildren(p)
    /\ arg \in WaitArgs(p)
    /\ Exited(p, arg) = <<>>
    /\ waitList' = [waitList EXCEPT ![p] = OsWaitInsertWaitListInOrder(p, t, arg.flag)]
    /\ thread' = [thread EXCEPT ![t] = "PEND"]
    /\ waitFlag' = [waitFlag EXCEPT ![t] = arg.flag]
    /\ waitID' = [waitID EXCEPT ![t] = arg.id]
    /\ UNCHANGED <<table, abandoned, forking, resourceEvent, recycling>>

\* OsWait, after the wake-up.  The child may be gone meanwhile.
OsWaitReturns(t) ==
    /\ thread[t] = "WOKEN"
    /\ thread' = [thread EXCEPT ![t] = "RUN"]
    /\ waitFlag' = [waitFlag EXCEPT ![t] = "NONE"]
    /\ waitID' = [waitID EXCEPT ![t] = NULL]
    /\ table' = IF waitID[t] # INVALID /\ OsProcessIsDead(table, waitID[t])
                THEN OsRecycleZombiesProcess(table, waitID[t]) ELSE table
    /\ UNCHANGED <<waitList, abandoned, forking, resourceEvent, recycling>>

-----------------------------------------------------------------------------
\* A thread somewhere is deleted and writes OS_RESOURCE_EVENT_FREE (the exit of a process does not).
OsWriteResourceEvent ==
    /\ ~resourceEvent
    /\ resourceEvent' = TRUE
    /\ UNCHANGED <<table, threadVars, forking, recycling>>

\* OsProcessCBRecycleToFree looks at the head of the list and unlocks.
RecycleTakes ==
    /\ resourceEvent /\ recycling = NULL
    /\ IF table.recycle # <<>> /\ "EXIT" \in table.status[Head(table.recycle)]
       THEN recycling' = Head(table.recycle) /\ UNCHANGED resourceEvent
       ELSE resourceEvent' = FALSE /\ UNCHANGED recycling
    /\ UNCHANGED <<table, threadVars, forking>>

\* Mutant: a zombie is not looked for.
RecyclePutsZombie ==
    LET p == recycling
        out == [table EXCEPT !.status[p] = @ \ {"EXIT"}, !.recycle = Without(@, p)]
    IN /\ p # NULL
       /\ recycling' = NULL
       /\ table' = IF OsProcessIsPGroupLeader(out, p)
                   THEN [out EXCEPT !.recycle = Append(@, p)]
                   ELSE OsInsertPCBToFreeList(out, p)
       /\ UNCHANGED <<threadVars, forking, resourceEvent>>

\* It comes back with the lock.
RecyclePuts ==
    LET p == recycling
        out == [table EXCEPT !.status[p] = @ \ {"EXIT"}, !.recycle = Without(@, p)]
    IN /\ p # NULL
       /\ recycling' = NULL
       /\ table' = IF OsProcessIsPGroupLeader(out, p) \/ OsProcessIsDead(out, p)
                   THEN [out EXCEPT !.recycle = Append(@, p)]
                   ELSE OsInsertPCBToFreeList(out, p)
       /\ UNCHANGED <<threadVars, forking, resourceEvent>>

Next ==
    \/ \E t \in ThreadIds :
        \/ \E parent \in Pids : OsCopyParent(t, parent)
        \/ \E status \in {{"INIT"}, {"UNUSED"}} : CopyProcessFailsEarly(t, status)
        \/ OsChildSetProcessGroupAndSched(t)
        \/ CopyProcessFailsLate(t)
        \/ \E p, g \in Pids, memory \in BOOLEAN : OsSetProcessGroupID(t, p, g, memory)
        \/ OsProcessThreadGroupDestroy(t)
        \/ OsProcessNaturalExit(t)
        \/ \E arg \in WaitArgs(Proc(t)) : OsWaitTakes(t, arg) \/ OsWaitSleeps(t, arg)
        \/ OsWaitReturns(t)
    \/ OsWriteResourceEvent
    \/ RecycleTakes
    \/ RecyclePuts

Spec == Init /\ [][Next]_vars

-----------------------------------------------------------------------------
Unfinished(c) == \E t \in ThreadIds : forking[t] = c

\* Every PCB is where its life says, and in one place: no PCB is listed twice or nowhere,
\* what is free is cleared, what is neither free nor on the recycle list is init or a
\* living child, and an exited process stays a zombie until its parent has taken it
\* (OsRecycleZombiesProcess, OsProcessCBRecycleToFree, ExitProcessGroup, which share
\* this work under different flags).
PcbAccounted ==
    /\ IsInjective(table.free \o table.recycle)
    /\ \A p \in Pids :
        /\ p \in ToSet(table.free) <=> table.status[p] = {"UNUSED"}
        /\ p \notin ToSet(table.free \o table.recycle) =>
               p = Root \/ p \in table.children[table.parent[p]]
        /\ Unfinished(p) <=> "INIT" \in table.status[p]

\* A living process has a living parent, init after its own is gone, and is in its list; a
\* zombie waits in the exit list of a living parent; nobody else is in such a list.
FamilyIntact ==
    \A p \in Pids :
        /\ \A c \in table.children[p] :
               table.parent[c] = p /\ c \notin ToSet(table.free \o table.recycle)
        /\ \A c \in ToSet(table.exitChildren[p]) : table.parent[c] = p
        /\ IsInjective(table.exitChildren[p])
        /\ OsProcessIsDead(table, p) <=> \E q \in Pids : p \in ToSet(table.exitChildren[q])
        /\ table.children[p] # {} \/ table.exitChildren[p] # <<>> =>
               p \notin ToSet(table.free \o table.recycle)

\* A process is a member of exactly the group it points to, among the living or among the
\* exited; a group has members, and the PCB that gives it its number carries the leader
\* flag and is not reused before the last of them is gone.
GroupsIntact ==
    /\ \A p \in Pids :
        /\ table.pgroup[p] # NULL => table.pgroup[p] \in table.groups
        /\ \A g \in Pids :
            /\ p \in table.processes[g] => table.pgroup[p] = g /\ ~OsProcessIsDead(table, p)
            /\ p \in ToSet(table.exitProcesses[g]) => table.pgroup[p] = g /\ OsProcessIsDead(table, p)
        /\ p \notin ToSet(table.free \o table.recycle) \/ OsProcessIsDead(table, p) =>
               \E g \in Pids : p \in table.processes[g] \cup ToSet(table.exitProcesses[g])
    /\ \A g \in Pids :
        /\ g \in table.groups <=> table.processes[g] # {} \/ table.exitProcesses[g] # <<>>
        /\ g \in table.groups <=> OsProcessIsPGroupLeader(table, g)
        /\ g \in table.groups => g \notin ToSet(table.free)

Announced(p, c) == \E t \in Threads[p] : thread[t] = "WOKEN" /\ waitID[t] = c

\* Nobody sleeps in wait for something that cannot come or has already come: who waits for
\* a process has it as a living child, who waits for any child has one, unless that child
\* was taken away by a failed fork during this very wait (OsDeInitPCB wakes nobody); and an
\* exited child that a sleeping thread would accept was announced to another thread that is
\* on its way (OsWaitCheckAndWakeParentProcess, OsWaitInsertWaitListInOrder).  A wait for a
\* group may outlive the last child: nobody wakes it when that child is of another group.
NoForgottenWaiter ==
    \A p \in Pids : \A t \in Threads[p] : thread[t] = "PEND" =>
        /\ waitFlag[t] = "PRO" => waitID[t] \in table.children[p] \/ t \in abandoned
        /\ waitFlag[t] = "ANY" => /\ table.children[p] # {} \/ t \in abandoned
                                  /\ \A c \in ToSet(table.exitChildren[p]) : Announced(p, c)
        /\ waitFlag[t] = "GID" =>
               \A c \in ToSet(table.exitChildren[p]) : table.pgroup[c] = waitID[t] => Announced(p, c)

=============================================================================

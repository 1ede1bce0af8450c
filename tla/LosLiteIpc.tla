------------------------------ MODULE LosLiteIpc ------------------------------
(***************************************************************************)
(* LiteIPC, the messages between user processes                            *)
(* (kernel/extended/liteipc/hm_liteipc.c, built with USE_TASKID_AS_HANDLE  *)
(* and USE_TIMESTAMP): a message is a node in the memory pool of the       *)
(* receiving process, queued in the mailbox of the receiving task; the     *)
(* user gives the node back with a later call.                             *)
(*                                                                         *)
(* Only the insertion into a mailbox, the removal from it and the decision *)
(* to sleep are made under the scheduler lock.  The checks of a write, the *)
(* creation of a missing mailbox and the exit of a task interleave freely. *)
(***************************************************************************)
EXTENDS Naturals, Sequences, FiniteSets, SequencesExt

CONSTANTS Tasks,      \* user threads; a thread that exits may be created again
          Proc,       \* Proc[t]: the process of t
          Clients,    \* the tasks that send requests and get death notices
          Services,   \* the tasks they are sent to
          MaxMsgs,    \* bound: messages sent
          MaxExits,   \* bound: exits of tasks
          MaxGrants,  \* bound: rights given by the service manager
          NULL

Procs == {Proc[t] : t \in Tasks}

ASSUME LiteIpcAssumption ==
    /\ MaxMsgs \in Nat /\ MaxExits \in Nat /\ MaxGrants \in Nat
    /\ Clients \subseteq Tasks /\ Services \subseteq Tasks
    /\ NULL \notin Tasks

VARIABLES life,             \* "ALIVE", "EXITING" (frees its resources) or "UNUSED"
          ipcInfo,          \* "NONE", "MAPPED", or "UNMAPPED": kvaddr is freed, the block is not
          pool,             \* the nodes allocated in the pool of a process
          ipcUsedNodelist,  \* the nodes its user may free
          access,           \* the services it may call
          ipcTaskID,        \* the task that gets its death notices
          ipcTaskInfo,      \* the mailbox of a task, or NULL
          replaced,         \* the mailbox a call of the task still uses after another took its place
          call,             \* where the task is in its call
          grant,            \* the right the service manager is giving, or NULL
          sent, exits,      \* counters for the bounds; a message's number is its timestamp
          grants,           \* another
          fault,            \* freed memory or a NULL mailbox has been used
          lost,             \* history: nodes nobody will free
          late              \* history: rights given while the process was torn down

procVars  == <<ipcInfo, pool, ipcUsedNodelist, access, ipcTaskID>>
taskVars  == <<life, ipcTaskInfo, replaced, call>>
histories == <<fault, lost, late>>
vars == <<procVars, taskVars, grant, grants, sent, exits, histories>>

Mailbox(msgs, map) == [msgListHead |-> msgs, accessMap |-> map]
NewMailbox == Mailbox(<<>>, {})

Idle == [at |-> "IDLE", buf |-> NULL, free |-> NULL, recv |-> FALSE, stamp |-> NULL, ahead |-> {}]

MsgTypes == {"REQUEST", "REPLY", "FAILED_REPLY", "DEATH_NOTIFY"}
Messages == [id : 1..MaxMsgs, type : MsgTypes, taskID : Tasks, target : Tasks, timestamp : 1..MaxMsgs]
Mailboxes == [msgListHead : Seq(Messages), accessMap : SUBSET Procs]
Places == {"IDLE", "MAKE", "INSERT", "MAKE_OWN", "LOOK", "SLEEP", "WOKEN",
           "DRAIN", "NOTIFY", "REVOKE", "DESTROY"}

TypeOK ==
    /\ life \in [Tasks -> {"ALIVE", "EXITING", "UNUSED"}]
    /\ ipcInfo \in [Procs -> {"NONE", "MAPPED", "UNMAPPED"}]
    /\ pool \in [Procs -> SUBSET Messages]
    /\ ipcUsedNodelist \in [Procs -> SUBSET Messages]
    /\ access \in [Procs -> SUBSET Tasks]
    /\ ipcTaskID \in [Procs -> Tasks \cup {NULL}]
    /\ \A t \in Tasks : /\ ipcTaskInfo[t] \in Mailboxes \cup {NULL}
                        /\ replaced[t] \in Mailboxes \cup {NULL}
    /\ call \in [Tasks -> [at : Places, buf : Messages \cup {NULL}, free : Messages \cup {NULL},
                           recv : BOOLEAN, stamp : 1..MaxMsgs \cup {NULL},
                           ahead : SUBSET Procs]]  \* the processes an exit has yet to notify
    /\ grant \in [at : {"MAP", "ACCESS"}, service : Tasks, pcb : Procs] \cup {NULL}
    /\ sent \in 0..MaxMsgs /\ exits \in 0..MaxExits /\ grants \in 0..MaxGrants
    /\ fault \in BOOLEAN
    /\ lost \subseteq Messages
    /\ late \subseteq Tasks \X Procs

Init ==
    /\ life = [t \in Tasks |-> "ALIVE"]
    /\ ipcInfo = [p \in Procs |-> "NONE"]
    /\ pool = [p \in Procs |-> {}]
    /\ ipcUsedNodelist = [p \in Procs |-> {}]
    /\ access = [p \in Procs |-> {}]
    /\ ipcTaskID = [p \in Procs |-> NULL]
    /\ ipcTaskInfo = [t \in Tasks |-> NULL]
    /\ replaced = [t \in Tasks |-> NULL]
    /\ call = [t \in Tasks |-> Idle]
    /\ grant = NULL
    /\ sent = 0 /\ exits = 0 /\ grants = 0
    /\ fault = FALSE
    /\ lost = {}
    /\ late = {}

\* t runs in user mode and its process may use the driver.
MayCall(t) ==
    /\ ~fault
    /\ life[t] = "ALIVE" /\ call[t].at = "IDLE"
    /\ ipcInfo[Proc[t]] = "MAPPED"

At(t, place) == ~fault /\ call[t].at = place

IsTaskAlive(t) == life[t] # "UNUSED"

Queue(box) == IF box = NULL THEN <<>> ELSE box.msgListHead

\* Nobody will free the nodes of S that are still in a pool.
Losing(S) == lost \cup {m \in S : m \in pool[Proc[m.target]]}

-----------------------------------------------------------------------------
(* Pools, access rights and the task for death notices                      *)

\* LiteIpcOpen and LiteIpcMmap
LiteIpcOpen(t) ==
    /\ At(t, "IDLE") /\ life[t] = "ALIVE"
    /\ ipcInfo[Proc[t]] = "NONE"
    /\ ipcInfo' = [ipcInfo EXCEPT ![Proc[t]] = "MAPPED"]
    /\ UNCHANGED <<pool, ipcUsedNodelist, access, ipcTaskID, taskVars, sent, exits, histories>>

SetIpcTask(t) ==
    /\ MayCall(t)
    /\ ipcTaskID[Proc[t]] = NULL
    /\ ipcTaskID' = [ipcTaskID EXCEPT ![Proc[t]] = t]
    /\ UNCHANGED <<ipcInfo, pool, ipcUsedNodelist, access, taskVars, sent, exits, histories>>

\* AddServiceAccess, for the service manager's CMS_ADD_ACCESS: the process of t may
\* call s.  The manager makes its check and the two writes without a lock; the process
\* or the service may be torn down before either of them.
AddServiceAccess(t, s) ==
    LET p == Proc[t] IN
    /\ ~fault
    /\ grant = NULL /\ grants < MaxGrants
    /\ IsTaskAlive(t)
    /\ ipcTaskInfo[s] # NULL
    /\ ipcInfo[p] # "NONE"
    /\ grants' = grants + 1
    /\ grant' = [at |-> "MAP", service |-> s, pcb |-> p]
    /\ late' = IF ipcInfo[p] = "UNMAPPED" THEN late \cup {<<s, p>>} ELSE late
    /\ UNCHANGED <<procVars, taskVars, sent, exits, fault, lost>>

\* The first write, into the mailbox the service has now.
GrantMap ==
    LET s == grant.service IN
    /\ ~fault
    /\ grant # NULL /\ grant.at = "MAP"
    /\ IF ipcTaskInfo[s] = NULL
       THEN fault' = TRUE /\ UNCHANGED <<ipcTaskInfo, grant>>
       ELSE /\ ipcTaskInfo' = [ipcTaskInfo EXCEPT ![s].accessMap = @ \cup {grant.pcb}]
            /\ grant' = [grant EXCEPT !.at = "ACCESS"]
            /\ UNCHANGED fault
    /\ UNCHANGED <<procVars, life, replaced, call, sent, exits, grants, lost, late>>

\* The second write, into the ipcInfo the process has now.
GrantAccess ==
    LET p == grant.pcb IN
    /\ ~fault
    /\ grant # NULL /\ grant.at = "ACCESS"
    /\ IF ipcInfo[p] = "NONE"
       THEN fault' = TRUE /\ UNCHANGED <<access, grant>>
       ELSE /\ access' = [access EXCEPT ![p] = @ \cup {grant.service}]
            /\ grant' = NULL
            /\ UNCHANGED fault
    /\ UNCHANGED <<ipcInfo, pool, ipcUsedNodelist, ipcTaskID, taskVars, sent, exits, grants,
                   lost, late>>

HasServiceAccess(t, s) ==
    \/ IsTaskAlive(s) /\ Proc[s] = Proc[t]
    \/ ipcTaskInfo[s] # NULL /\ Proc[t] \in ipcTaskInfo[s].accessMap

-----------------------------------------------------------------------------
(* Writing                                                                  *)

\* LiteIpcWrite up to the test for a mailbox: the receiver was found alive, the message
\* m is a node of its pool.  t goes on with the record `next`.
Allocates(t, m, next) ==
    LET p == Proc[m.target] IN
    /\ sent < MaxMsgs
    /\ IsTaskAlive(m.target)
    /\ ipcInfo[p] = "MAPPED"
    /\ pool' = [pool EXCEPT ![p] = @ \cup {m}]
    /\ sent' = sent + 1
    /\ call' = [call EXCEPT ![t] =
                  [next EXCEPT !.buf = m,
                               !.at = IF ipcTaskInfo[m.target] = NULL THEN "MAKE" ELSE "INSERT"]]

Message(type, t, target, stamp) ==
    [id |-> sent + 1, type |-> type, taskID |-> t, target |-> target, timestamp |-> stamp]

\* Mutant: the node stays on the list, so a second call may use it too.
TakeUsedNodeKept(p, n) == n \in ipcUsedNodelist[p] /\ UNCHANGED ipcUsedNodelist

\* CheckUsedBuffer, IsIpcNode: the node to free is unlinked before anything else.
TakeUsedNode(p, n) ==
    /\ n \in ipcUsedNodelist[p]
    /\ ipcUsedNodelist' = [ipcUsedNodelist EXCEPT ![p] = @ \ {n}]

\* LiteIpcMsgHandle with SEND: a request, after which the caller may wait for the reply.
SendRequest(t, s, recv) ==
    /\ MayCall(t)
    /\ HasServiceAccess(t, s)
    /\ Allocates(t, Message("REQUEST", t, s, sent + 1), [Idle EXCEPT !.recv = recv, !.stamp = sent + 1])
    /\ UNCHANGED <<ipcInfo, ipcUsedNodelist, access, ipcTaskID, life, ipcTaskInfo, replaced, exits,
                   histories>>

\* LiteIpcMsgHandle with SEND and BUFF_FREE: the answer to the request n (IsValidReply).
SendReply(t, n, type, recv) ==
    /\ MayCall(t)
    /\ TakeUsedNode(Proc[t], n)
    /\ n.type = "REQUEST"
    /\ IsTaskAlive(n.target)
    /\ Allocates(t, Message(type, t, n.taskID, n.timestamp),
                 [Idle EXCEPT !.free = n, !.recv = recv, !.stamp = n.timestamp])
    /\ UNCHANGED <<ipcInfo, access, ipcTaskID, life, ipcTaskInfo, replaced, exits, histories>>

\* LiteIpcMsgHandle when it only frees a node, and when the write that came with it fails
\* (a late reply, a receiver that is gone, no room in its pool): the node is freed anyway.
FreeBuffer(t, n) ==
    /\ MayCall(t)
    /\ TakeUsedNode(Proc[t], n)
    /\ pool' = [pool EXCEPT ![Proc[t]] = @ \ {n}]
    /\ UNCHANGED <<ipcInfo, access, ipcTaskID, taskVars, sent, exits, histories>>

\* The calls of t that hold a pointer to its mailbox.
UsesMailbox(t) == call[t].at \in {"LOOK", "SLEEP", "WOKEN", "NOTIFY"}
                  \/ (life[t] = "EXITING" /\ call[t].at \in {"MAKE", "INSERT"})

\* The mailbox of s is set to a new one although another may have been set since the test
\* for NULL: what is queued there is lost, unless s still looks at it.
SetMailbox(s) ==
    /\ ipcTaskInfo' = [ipcTaskInfo EXCEPT ![s] = NewMailbox]
    /\ IF ipcTaskInfo[s] # NULL /\ UsesMailbox(s) /\ replaced[s] = NULL
       THEN replaced' = [replaced EXCEPT ![s] = ipcTaskInfo[s]] /\ UNCHANGED lost
       ELSE /\ lost' = Losing(ToSet(Queue(ipcTaskInfo[s])))
            /\ UNCHANGED replaced

\* LiteIpcWrite: the receiver had no mailbox.
MakeMailbox(t) ==
    /\ At(t, "MAKE")
    /\ SetMailbox(call[t].buf.target)
    /\ call' = [call EXCEPT ![t].at = "INSERT"]
    /\ UNCHANGED <<procVars, life, sent, exits, fault, late>>

\* What t does after its write: an exiting task sends the next notice, a caller frees the
\* node it came with and reads if it asked to.
AfterWrite(t) ==
    IF life[t] = "EXITING" THEN [call[t] EXCEPT !.at = "NOTIFY", !.buf = NULL]
    ELSE IF call[t].recv
    THEN [call[t] EXCEPT !.at = IF ipcTaskInfo[t] = NULL THEN "MAKE_OWN" ELSE "LOOK",
                         !.buf = NULL, !.free = NULL]
    ELSE Idle

\* Mutant: the receiver is not woken.
WokenNobody(s) == call

\* OsTaskWakeClearPendMask and ops->wake for a receiver that waits for a message.
Woken(s) == IF call[s].at = "SLEEP" THEN [call EXCEPT ![s].at = "WOKEN"] ELSE call

\* The end of LiteIpcWrite, under the scheduler lock, and the BUFFER_FREE of the caller.
Insert(t) ==
    LET m == call[t].buf
        s == m.target
    IN
    /\ At(t, "INSERT")
    /\ IF ipcTaskInfo[s] = NULL \/ m \notin pool[Proc[s]]
       THEN fault' = TRUE /\ UNCHANGED <<pool, ipcTaskInfo, call>>
       ELSE /\ ipcTaskInfo' = [ipcTaskInfo EXCEPT ![s].msgListHead = Append(@, m)]
            /\ call' = [Woken(s) EXCEPT ![t] = AfterWrite(t)]
            /\ pool' = [pool EXCEPT ![Proc[t]] = @ \ {call[t].free}]
            /\ UNCHANGED fault
    /\ UNCHANGED <<ipcInfo, ipcUsedNodelist, access, ipcTaskID, life, replaced, sent, exits,
                   lost, late>>

-----------------------------------------------------------------------------
(* Reading                                                                  *)

\* LiteIpcMsgHandle with RECV alone.
Receive(t) ==
    /\ MayCall(t)
    /\ call' = [call EXCEPT ![t].recv = TRUE,
                            ![t].at = IF ipcTaskInfo[t] = NULL THEN "MAKE_OWN" ELSE "LOOK"]
    /\ UNCHANGED <<procVars, life, ipcTaskInfo, replaced, sent, exits, histories>>

\* LiteIpcRead: the task had no mailbox.
MakeOwnMailbox(t) ==
    /\ At(t, "MAKE_OWN")
    /\ SetMailbox(t)
    /\ call' = [call EXCEPT ![t].at = "LOOK"]
    /\ UNCHANGED <<procVars, life, sent, exits, fault, late>>

\* The mailbox the call of t works on: its local listHead or ipcTaskInfo.
OwnMailbox(t) == IF replaced[t] # NULL THEN replaced[t] ELSE ipcTaskInfo[t]

\* The messages in the mailboxes of t.
Queued(t) == ToSet(Queue(ipcTaskInfo[t])) \cup ToSet(Queue(replaced[t]))

SetOwnMailbox(t, box) ==
    IF replaced[t] # NULL
    THEN replaced' = [replaced EXCEPT ![t] = box] /\ UNCHANGED ipcTaskInfo
    ELSE ipcTaskInfo' = [ipcTaskInfo EXCEPT ![t] = box] /\ UNCHANGED replaced

\* One turn of the loop of LiteIpcRead finds no message and sleeps.
ReadSleeps(t) ==
    /\ At(t, "LOOK") \/ At(t, "WOKEN")
    /\ OwnMailbox(t).msgListHead = <<>>
    /\ call' = [call EXCEPT ![t].at = "SLEEP"]
    /\ UNCHANGED <<procVars, life, ipcTaskInfo, replaced, sent, exits, histories>>

\* CheckReceivedMsg: what a reader that sent the request with this stamp (NULL: that sent
\* nothing) does with message m.
CheckReceivedMsg(m, stamp) ==
    CASE m.type = "DEATH_NOTIFY"                     -> "OK"
      [] m.type = "REQUEST" /\ stamp = NULL          -> "OK"
      [] m.type = "REPLY" /\ stamp = m.timestamp     -> "OK"
      [] m.type = "FAILED_REPLY" /\ stamp = m.timestamp -> "ENOENT"
      [] OTHER                                       -> "EINVAL"

\* The first message leaves the mailbox under the scheduler lock.
TakesFirst(t, m) ==
    LET box == OwnMailbox(t) IN
    /\ At(t, "LOOK") \/ At(t, "WOKEN")
    /\ box.msgListHead # <<>>
    /\ m = Head(box.msgListHead)

\* The call is over with the first message taken; a replaced mailbox is out of reach.
ReadEnds(t) ==
    /\ ipcTaskInfo' = IF replaced[t] # NULL THEN ipcTaskInfo
                      ELSE [ipcTaskInfo EXCEPT ![t].msgListHead = Tail(@)]
    /\ replaced' = [replaced EXCEPT ![t] = NULL]
    /\ call' = [call EXCEPT ![t] = Idle]

\* The call ends with message m: EnableIpcNodeFreeByUser, unless its malloc fails.
ReadReturns(t) ==
    \E m \in pool[Proc[t]] :
        /\ TakesFirst(t, m)
        /\ CheckReceivedMsg(m, call[t].stamp) = "OK"
        /\ ReadEnds(t)
        /\ \/ /\ ipcUsedNodelist' = [ipcUsedNodelist EXCEPT ![Proc[t]] = @ \cup {m}]
              /\ lost' = Losing(ToSet(Queue(replaced[t])) \ {m})
           \/ /\ lost' = Losing(ToSet(Queue(replaced[t])) \cup {m})
              /\ UNCHANGED ipcUsedNodelist
        /\ UNCHANGED <<ipcInfo, pool, access, ipcTaskID, life, sent, exits, fault, late>>

\* The message is dropped; a failed reply ends the call, anything else does not.
ReadDrops(t) ==
    \E m \in pool[Proc[t]] :
        /\ TakesFirst(t, m)
        /\ CheckReceivedMsg(m, call[t].stamp) # "OK"
        /\ pool' = [pool EXCEPT ![Proc[t]] = @ \ {m}]
        /\ IF CheckReceivedMsg(m, call[t].stamp) = "ENOENT"
           THEN /\ ReadEnds(t)
                /\ lost' = Losing(ToSet(Queue(replaced[t])) \ {m})
           ELSE /\ SetOwnMailbox(t, Mailbox(Tail(OwnMailbox(t).msgListHead), OwnMailbox(t).accessMap))
                /\ call' = [call EXCEPT ![t].at = "LOOK"]
                /\ UNCHANGED lost
        /\ UNCHANGED <<ipcInfo, ipcUsedNodelist, access, ipcTaskID, life, sent, exits, fault,
                       late>>

\* A reader that also sent waits LITEIPC_TIMEOUT_MS: the call ends with -ETIME.
ReadTimesOut(t) ==
    /\ At(t, "SLEEP")
    /\ call[t].stamp # NULL
    /\ replaced' = [replaced EXCEPT ![t] = NULL]
    /\ call' = [call EXCEPT ![t] = Idle]
    /\ UNCHANGED <<procVars, life, ipcTaskInfo, sent, exits, histories>>

-----------------------------------------------------------------------------
(* The exit of a task, and of its process with the last one                 *)

\* OsRunningTaskToExit: t ends by itself, or was killed while it slept in LiteIpcRead.
Exit(t) ==
    /\ At(t, "IDLE") \/ At(t, "SLEEP") \/ At(t, "WOKEN")
    /\ life[t] = "ALIVE"
    /\ exits < MaxExits
    /\ exits' = exits + 1
    /\ life' = [life EXCEPT ![t] = "EXITING"]
    /\ call' = [call EXCEPT ![t] = [Idle EXCEPT !.at = "DRAIN"]]
    /\ lost' = Losing(ToSet(Queue(replaced[t])))
    /\ replaced' = [replaced EXCEPT ![t] = NULL]
    /\ UNCHANGED <<procVars, ipcTaskInfo, sent, fault, late>>

\* LiteIpcRemoveServiceHandle: the queued messages are freed.
RemoveServiceHandle(t) ==
    LET p == Proc[t] IN
    /\ At(t, "DRAIN")
    /\ IF ipcTaskInfo[t] = NULL
       THEN call' = [call EXCEPT ![t].at = "REVOKE"] /\ UNCHANGED <<pool, ipcTaskInfo>>
       ELSE /\ pool' = [pool EXCEPT ![p] = @ \ ToSet(ipcTaskInfo[t].msgListHead)]
            /\ ipcTaskInfo' = [ipcTaskInfo EXCEPT ![t] = Mailbox(<<>>, @.accessMap \ {p})]
            /\ call' = [call EXCEPT ![t].at = "NOTIFY", ![t].ahead = Procs \ {p}]
    /\ UNCHANGED <<ipcInfo, ipcUsedNodelist, access, ipcTaskID, life, replaced, sent, exits, histories>>

\* The loop of LiteIpcRemoveServiceHandle goes once over the processes.  One without a
\* right to call t is passed over.
PassesOver(t, q) ==
    /\ At(t, "NOTIFY")
    /\ q \in call[t].ahead
    /\ q \notin OwnMailbox(t).accessMap
    /\ call' = [call EXCEPT ![t].ahead = @ \ {q}]
    /\ UNCHANGED <<procVars, life, ipcTaskInfo, replaced, sent, exits, histories>>

\* SendDeathMsg to a process q that may call t: the notice is written to the task that q
\* named, if it named one and the write does not fail.
SendDeathMsg(t, q) ==
    LET box == OwnMailbox(t)
        d == ipcTaskID[q]
    IN
    /\ At(t, "NOTIFY")
    /\ q \in call[t].ahead
    /\ q \in box.accessMap
    /\ SetOwnMailbox(t, Mailbox(box.msgListHead, box.accessMap \ {q}))
    /\ access' = [access EXCEPT ![q] = @ \ {t}]
    /\ \/ /\ ipcInfo[q] # "NONE" /\ d # NULL
          /\ Allocates(t, Message("DEATH_NOTIFY", t, d, sent + 1),
                       [call[t] EXCEPT !.ahead = @ \ {q}])
       \/ /\ call' = [call EXCEPT ![t].ahead = @ \ {q}]
          /\ UNCHANGED <<pool, sent>>
    /\ UNCHANGED <<ipcInfo, ipcUsedNodelist, ipcTaskID, life, exits, histories>>

\* The end of LiteIpcRemoveServiceHandle: the mailbox is freed.  What was queued after the
\* messages were freed, and a right given behind the loop, go with it.
FreeMailbox(t) ==
    /\ At(t, "NOTIFY")
    /\ call[t].ahead = {}
    /\ lost' = Losing(Queued(t))
    /\ ipcTaskInfo' = [ipcTaskInfo EXCEPT ![t] = NULL]
    /\ replaced' = [replaced EXCEPT ![t] = NULL]
    /\ call' = [call EXCEPT ![t].at = "REVOKE"]
    /\ UNCHANGED <<procVars, life, sent, exits, fault, late>>

LastThread(t) == \A u \in Tasks \ {t} : Proc[u] = Proc[t] => life[u] = "UNUSED"

\* Mutant: the services keep the process in their maps.
RevokedNowhere(p) == ipcTaskInfo

\* LiteIpcPoolDelete, the access rights.
Revoked(p) ==
    [s \in Tasks |-> IF ipcTaskInfo[s] # NULL /\ s \in access[p]
                     THEN [ipcTaskInfo[s] EXCEPT !.accessMap = @ \ {p}]
                     ELSE ipcTaskInfo[s]]

\* LiteIpcPoolDelete for the last thread of a process that has opened the driver.
PoolDelete(t) ==
    LET p == Proc[t] IN
    /\ At(t, "REVOKE")
    /\ LastThread(t) /\ ipcInfo[p] = "MAPPED"
    /\ pool' = [pool EXCEPT ![p] = {}]
    /\ ipcUsedNodelist' = [ipcUsedNodelist EXCEPT ![p] = {}]
    /\ ipcTaskInfo' = Revoked(p)
    /\ access' = [access EXCEPT ![p] = {}]
    /\ ipcInfo' = [ipcInfo EXCEPT ![p] = "UNMAPPED"]
    /\ call' = [call EXCEPT ![t].at = "DESTROY"]
    /\ lost' = {m \in lost : Proc[m.target] # p}
    /\ late' = IF grant # NULL /\ grant.pcb = p THEN late \cup {<<grant.service, p>>} ELSE late
    /\ UNCHANGED <<ipcTaskID, life, replaced, sent, exits, fault>>

\* LiteIpcPoolDestroy frees the block and the task ends; its control block is zeroed.
ExitEnds(t) ==
    LET p == Proc[t] IN
    /\ At(t, "DESTROY") \/ (At(t, "REVOKE") /\ ~(LastThread(t) /\ ipcInfo[p] = "MAPPED"))
    /\ life' = [life EXCEPT ![t] = "UNUSED"]
    /\ call' = [call EXCEPT ![t] = Idle]
    /\ lost' = Losing(Queued(t))
    /\ ipcTaskInfo' = [ipcTaskInfo EXCEPT ![t] = NULL]
    /\ IF call[t].at = "DESTROY"
       THEN /\ ipcInfo' = [ipcInfo EXCEPT ![p] = "NONE"]
            /\ access' = [access EXCEPT ![p] = {}]
            /\ ipcTaskID' = [ipcTaskID EXCEPT ![p] = NULL]
       ELSE UNCHANGED <<ipcInfo, access, ipcTaskID>>
    /\ UNCHANGED <<pool, ipcUsedNodelist, replaced, sent, exits, fault, late>>

\* The control block is used for a new task.  (Bound: one that may still exit.)
Create(t) ==
    /\ ~fault
    /\ life[t] = "UNUSED"
    /\ exits < MaxExits
    /\ life' = [life EXCEPT ![t] = "ALIVE"]
    /\ UNCHANGED <<procVars, ipcTaskInfo, replaced, call, sent, exits, histories>>

TaskStep ==
    \E t \in Tasks :
        \/ LiteIpcOpen(t)
        \/ /\ t \in Clients
           /\ \/ SetIpcTask(t)
              \/ \E s \in Services, recv \in BOOLEAN : SendRequest(t, s, recv)
        \/ \E n \in ipcUsedNodelist[Proc[t]], type \in {"REPLY", "FAILED_REPLY"}, recv \in BOOLEAN :
              SendReply(t, n, type, recv)
        \/ \E n \in ipcUsedNodelist[Proc[t]] : FreeBuffer(t, n)
        \/ MakeMailbox(t)
        \/ Insert(t)
        \/ Receive(t)
        \/ MakeOwnMailbox(t)
        \/ ReadSleeps(t)
        \/ ReadReturns(t)
        \/ ReadDrops(t)
        \/ ReadTimesOut(t)
        \/ Exit(t)
        \/ RemoveServiceHandle(t)
        \/ \E q \in Procs : PassesOver(t, q) \/ SendDeathMsg(t, q)
        \/ FreeMailbox(t)
        \/ PoolDelete(t)
        \/ ExitEnds(t)
        \/ Create(t)

\* The service manager, a task of its own.
CmsStep ==
    \/ \E t \in Clients, s \in Services : AddServiceAccess(t, s)
    \/ GrantMap
    \/ GrantAccess

Next ==
    \/ TaskStep /\ UNCHANGED <<grant, grants>>
    \/ CmsStep

Spec == Init /\ [][Next]_vars

-----------------------------------------------------------------------------
(* Properties                                                               *)

\* No wake up is lost between LiteIpcWrite and LiteIpcRead: a task sleeps only while the
\* mailbox its call looks at is empty, whatever timeouts, drops and kills came before.
\* (Messages may wait in a mailbox that replaced it: see the README.)
NoSleeperBesideMessage ==
    \A t \in Tasks : call[t].at = "SLEEP" => OwnMailbox(t).msgListHead = <<>>

\* The places where a node of the pool of p can be.
InWrite(p) == {call[t].buf : t \in {u \in Tasks : call[u].buf # NULL /\ Proc[call[u].buf.target] = p}}
InAnswer(p) == {call[t].free : t \in {u \in Tasks : call[u].free # NULL /\ Proc[u] = p}}
InMailbox(p) == UNION {Queued(t) : t \in {u \in Tasks : Proc[u] = p}}

\* Every node allocated in a pool is in exactly one place from which somebody will free it:
\* a write in progress, a mailbox, the hands of a caller that answers, or the list of nodes
\* the user may free; so one request is answered once.  The exceptions are the nodes in
\* `lost`: a malloc failed in EnableIpcNodeFreeByUser, or a mailbox was replaced or freed
\* with messages in it.
NodesConserved ==
    \A p \in Procs : ipcInfo[p] = "MAPPED" =>
        LET places == <<InWrite(p), InMailbox(p), InAnswer(p), ipcUsedNodelist[p],
                        {m \in lost : Proc[m.target] = p}>>
        IN  /\ pool[p] \subseteq UNION ToSet(places)
            /\ \A i \in 1..4 : \A j \in (i + 1)..5 : places[i] \cap places[j] = {}
            /\ \A i \in 2..5 : places[i] \subseteq pool[p]

\* The exit of a process takes its rights back from every service, so that the next
\* process with its number does not inherit them: whoever is in a service's accessMap
\* lives and knows the service, or is being given the right.  The exception is a right that
\* AddServiceAccess was giving while LiteIpcPoolDelete looked: it may stay for ever.
\* (The mailbox of a service that exits goes away itself.)
AccessIsRevocable ==
    \A s \in Tasks, p \in Procs :
        /\ life[s] = "ALIVE" /\ ipcTaskInfo[s] # NULL
        /\ p \in ipcTaskInfo[s].accessMap
        /\ <<s, p>> \notin late
        /\ grant # [at |-> "ACCESS", service |-> s, pcb |-> p]
        =>
            ipcInfo[p] # "NONE" /\ s \in access[p]

=============================================================================

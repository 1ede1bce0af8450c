----------------------------- MODULE LosTaskPend -----------------------------
(***************************************************************************)
(* The part of a task control block the IPC objects share: where a task    *)
(* stands in a blocking kernel call.                                       *)
(*                                                                         *)
(* A blocking call runs under SCHEDULER_LOCK up to ops->wait(), where the  *)
(* lock is handed to the next task; it continues under the lock once the   *)
(* task is scheduled again.  Between the wake up and that moment the task  *)
(* is ready but has not finished its call, and every other CPU may run     *)
(* kernel calls: WOKEN and TIMEOUT are the states of that window.          *)
(*                                                                         *)
(*   RUN        ready or running, in no blocking call                      *)
(*   PENDING    OS_TASK_STATUS_PENDING, LOS_WAIT_FOREVER                   *)
(*   PEND_TIME  OS_TASK_STATUS_PENDING and OS_TASK_STATUS_PEND_TIME        *)
(*   WOKEN      made ready by ops->wake(), has not returned from wait()    *)
(*   TIMEOUT    made ready by the timeout queue, has not returned          *)
(*   UNUSED     deleted                                                    *)
(*                                                                         *)
(* Which ready task runs is left open, so the results hold for every       *)
(* number of CPUs and every order in which ready tasks get one.            *)
(***************************************************************************)
EXTENDS LosList

CONSTANT Tasks

VARIABLE taskStatus

TaskStatus == {"RUN", "PENDING", "PEND_TIME", "WOKEN", "TIMEOUT", "UNUSED"}

\* The timeout argument of a blocking call: LOS_NO_WAIT, a number of ticks, or
\* LOS_WAIT_FOREVER.
Timeouts == {"NO_WAIT", "TICKS", "FOREVER"}

\* OS_TASK_STATUS_PENDING is set.
IsPending(t) == taskStatus[t] \in {"PENDING", "PEND_TIME"}

\* HPFWait: mark the running task pending, with PEND_TIME if the wait is bounded.
HPFWait(t, timeout) ==
    [taskStatus EXCEPT ![t] = IF timeout = "FOREVER" THEN "PENDING" ELSE "PEND_TIME"]

\* HPFWake: clear PENDING and PEND_TIME, leave the timeout queue, become ready.
HPFWake(t) == [taskStatus EXCEPT ![t] = "WOKEN"]

\* The tail of HPFWait: the task runs again and leaves its blocking call.
HPFWaitReturn(t) == [taskStatus EXCEPT ![t] = "RUN"]

\* SchedTimeoutTaskWake: only a task that still has PEND_TIME is timed out, so a
\* wake up that came first wins.
SchedTimeoutTaskWake(t) ==
    /\ taskStatus[t] = "PEND_TIME"
    /\ taskStatus' = [taskStatus EXCEPT ![t] = "TIMEOUT"]

=============================================================================

---------------------------- MODULE TaskLifecycle ----------------------------
(***************************************************************************)
(* What the task table promises its readers (the web client polls it, and  *)
(* the controllers lock a resource while it has an active task): the life  *)
(* of one row, whatever the task processor does to produce it.             *)
(***************************************************************************)
EXTENDS Enumerations

CONSTANT Task
VARIABLE status

Become(t, s) == status' = [status EXCEPT ![t] = s]

TypeOK == status \in [Task -> TASK_STATUS \cup {"absent"}]

Init == status = [t \in Task |-> "absent"]

Insert(t) ==
    /\ status[t] = "absent"
    /\ Become(t, "created")

\* A queued task is taken, or one that a dead process left running is taken
\* again; either way "running" replaces whatever active status it had.
Start(t) ==
    /\ status[t] \in TASK_ACTIVE_STATUSES
    /\ Become(t, "running")

RequestCancel(t) ==
    /\ status[t] = "running"
    /\ Become(t, "cancelling")

\* Only a task that was started can finish; a cancel request may be too late.
Finish(t) ==
    /\ status[t] \in {"running", "cancelling"}
    /\ Become(t, "finished")

Cancelled(t) ==
    /\ status[t] = "cancelling"
    /\ Become(t, "cancelled")

\* An ended task becomes an error when its transaction does not commit.
Fail(t) ==
    /\ status[t] # "absent"
    /\ Become(t, "error")

Next ==
    \E t \in Task :
        \/ Insert(t) \/ Start(t) \/ RequestCancel(t)
        \/ Finish(t) \/ Cancelled(t) \/ Fail(t)

Spec == Init /\ [][Next]_status

=============================================================================

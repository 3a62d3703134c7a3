---------------------------- MODULE TaskProcessor ----------------------------
(***************************************************************************)
(* The task processor: the one background worker of an API process.  It    *)
(* polls the task table, runs the handler of each task inside a database   *)
(* transaction, and records how the task ended on the task (outside the    *)
(* transaction) and on the task's cluster or deployment (inside it).       *)
(*                                                                         *)
(* The controllers appear as the insertion of a task, the database as the  *)
(* committed columns, and the process as the local state of runTask and    *)
(* errorTask, which a crash loses.  An unhandled rejection ends a Node 18  *)
(* process, so an errorTask that throws is one of the crashes.             *)
(***************************************************************************)
EXTENDS Enumerations, Naturals

CONSTANTS
    Task,        \* the rows the task table may come to hold
    NoTask,      \* "no task in hand"
    Resource,    \* clusters and deployments
    ActionOf,    \* task.action
    ResourceOf,  \* task.resource_type and task.resource_id
    Restartable, \* the tasks whose restartable column is true
    Yields,      \* how many times the handler of an action yields
    MaxCrashes   \* bound on the crashes of the process

ASSUME TaskAssumption ==
    /\ NoTask \notin Task
    /\ ActionOf \in [Task -> TASK_ACTION]
    /\ ResourceOf \in [Task -> Resource]
    /\ Restartable \subseteq Task
    /\ Yields \in [TASK_ACTION -> Nat]
    /\ MaxCrashes \in Nat

VARIABLES
    \* the database
    taskStatus,      \* task.status, or "absent" when there is no such row
    taskError,       \* the kind of task.error
    createdAt,       \* task.created_at, as a position in the insertion order
    inserted,        \* how many tasks were inserted
    resourceStatus,  \* cluster.status or deployment.status
    lastEnded,       \* the task of the resource that recorded its end last
    \* the process
    phase,           \* "down", "restarting" (restartTasks) or "looping"
    batch,           \* tasks loaded and not yet taken by bluebird.each
    cur,             \* the task in runTask
    stage,           \* how far runTask is with it
    yields,          \* how many times its handler has yielded
    cancelled,       \* runner.cancelled
    thrown,          \* the kind of error that was caught
    errBatch,        \* tasks restartTasks will mark as failed
    errCur,          \* the one it is marking
    late,            \* deployment.delete tasks with a status write in flight
    \* history
    interrupted,     \* tasks whose ending a crash cut short
    crashes

database == <<taskStatus, taskError, createdAt, inserted, resourceStatus, lastEnded>>
runner == <<cur, stage, yields, cancelled, thrown>>
restart == <<errBatch, errCur>>
history == <<interrupted, crashes>>
vars == <<database, phase, batch, runner, restart, late, history>>

Stages == {"idle", "running", "completing", "committing", "failing", "blaming"}

\* The errors a resource updater tells apart: "liveDeployments" is thrown by
\* the cluster.delete handler, "gone" stands for the errors that
\* deployment.delete takes to mean that there is nothing left to delete.
ErrorKinds == {"none", "other", "liveDeployments", "gone"}

HandlerErrors(action) ==
    CASE action = "cluster.delete"    -> {"other", "liveDeployments"}
      [] action = "deployment.delete" -> {"other", "gone"}
      [] OTHER                        -> {"other"}

TypeOK ==
    /\ taskStatus \in [Task -> TASK_STATUS \cup {"absent"}]
    /\ taskError \in [Task -> ErrorKinds]
    /\ createdAt \in [Task -> Nat]
    /\ inserted \in Nat
    /\ resourceStatus \in [Resource -> RESOURCE_STATUS \cup {"absent"}]
    /\ lastEnded \in [Resource -> Task \cup {NoTask}]
    /\ phase \in {"down", "restarting", "looping"}
    /\ batch \subseteq Task
    /\ cur \in Task \cup {NoTask}
    /\ stage \in Stages
    /\ yields \in Nat
    /\ cancelled \in BOOLEAN
    /\ thrown \in ErrorKinds
    /\ errBatch \subseteq Task
    /\ errCur \in Task \cup {NoTask}
    /\ late \subseteq Task
    /\ interrupted \subseteq Task
    /\ crashes \in Nat

-----------------------------------------------------------------------------
(* The process does not hold a task. *)
Resting ==
    /\ cur = NoTask
    /\ stage = "idle"
    /\ yields = 0
    /\ cancelled = FALSE
    /\ thrown = "none"

Init ==
    /\ taskStatus = [t \in Task |-> "absent"]
    /\ taskError = [t \in Task |-> "none"]
    /\ createdAt = [t \in Task |-> 0]
    /\ inserted = 0
    /\ resourceStatus = [r \in Resource |-> "absent"]
    /\ lastEnded = [r \in Resource |-> NoTask]
    /\ phase = "down"
    /\ batch = {}
    /\ Resting
    /\ errBatch = {}
    /\ errCur = NoTask
    /\ late = {}
    /\ interrupted = {}
    /\ crashes = 0

-----------------------------------------------------------------------------
(* The environment: controllers and cancellation. *)

\* A controller's transaction commits: the create actions insert the resource
\* with the task, the others find it there.  The resource need not be free of
\* active tasks: two requests that overlap may both have found it free.
InsertTask(t) ==
    LET r == ResourceOf[t] IN
    /\ taskStatus[t] = "absent"
    /\ \/ /\ ActionOf[t] \in CreateActions
          /\ resourceStatus[r] = "absent"
          /\ resourceStatus' = [resourceStatus EXCEPT ![r] = "created"]
       \/ /\ ActionOf[t] \notin CreateActions
          /\ resourceStatus[r] # "absent"
          /\ UNCHANGED resourceStatus
    /\ taskStatus' = [taskStatus EXCEPT ![t] = "created"]
    /\ createdAt' = [createdAt EXCEPT ![t] = inserted + 1]
    /\ inserted' = inserted + 1
    /\ UNCHANGED <<taskError, lastEnded, phase, batch, runner, restart, late, history>>

\* "a task can be marked as 'cancelling' whilst it's running"
Cancel(t) ==
    /\ taskStatus[t] = "running"
    /\ taskStatus' = [taskStatus EXCEPT ![t] = "cancelling"]
    /\ UNCHANGED <<taskError, createdAt, inserted, resourceStatus, lastEnded>>
    /\ UNCHANGED <<phase, batch, runner, restart, late, history>>

-----------------------------------------------------------------------------
(* Starting: restartTasks, then the control loop. *)

\* Mutant of Start: the tasks that are not restartable are left as they are.
StartWithoutErrorTasks ==
    /\ phase = "down"
    /\ phase' = "restarting"
    /\ batch' = {t \in Restartable : taskStatus[t] = "running"}
    /\ UNCHANGED <<database, runner, restart, late, history>>

\* start: restartTasks loads the running tasks and splits them.
Start ==
    LET running == {t \in Task : taskStatus[t] = "running"} IN
    /\ phase = "down"
    /\ phase' = "restarting"
    /\ batch' = running \cap Restartable
    /\ errBatch' = running \ Restartable
    /\ UNCHANGED <<database, runner, errCur, late, history>>

\* Mutant of StartControlLoop: the tasks to resume are not waited for.
StartControlLoopAtOnce ==
    /\ phase = "restarting"
    /\ cur = NoTask /\ errCur = NoTask
    /\ batch' = {} /\ errBatch' = {}
    /\ phase' = "looping"
    /\ UNCHANGED <<database, runner, errCur, late, history>>

\* Both halves of the bluebird.all are done: startControlLoop.
StartControlLoop ==
    /\ phase = "restarting"
    /\ batch = {} /\ cur = NoTask
    /\ errBatch = {} /\ errCur = NoTask
    /\ phase' = "looping"
    /\ UNCHANGED <<database, batch, runner, restart, late, history>>

\* Mutant of LoadCreatedTasks: failed tasks are tried again.
LoadFailedTasksToo ==
    /\ phase = "looping"
    /\ batch = {} /\ cur = NoTask
    /\ batch' = {t \in Task : taskStatus[t] \in {"created", "error"}}
    /\ UNCHANGED <<database, phase, runner, restart, late, history>>

\* A round of controlLoop begins; when nothing is queued it changes nothing.
LoadCreatedTasks ==
    /\ phase = "looping"
    /\ batch = {} /\ cur = NoTask
    /\ batch' = {t \in Task : taskStatus[t] = "created"}
    /\ UNCHANGED <<database, phase, runner, restart, late, history>>

-----------------------------------------------------------------------------
(* runTask *)

\* store.task.list sorts by created_at, newest first.
Newest(tasks) == {t \in tasks : \A u \in tasks : createdAt[u] <= createdAt[t]}

Release ==
    /\ cur' = NoTask
    /\ stage' = "idle"
    /\ yields' = 0
    /\ cancelled' = FALSE
    /\ thrown' = "none"

Throw(kind) ==
    /\ stage' = "failing"
    /\ thrown' = kind

\* bluebird.each takes the next task of the list, whatever its status is by
\* now; the transaction opens and the task is marked running outside it.
RunTask(t) ==
    /\ phase # "down"
    /\ cur = NoTask
    /\ t \in Newest(batch)
    /\ batch' = batch \ {t}
    /\ cur' = t
    /\ stage' = "running"
    /\ taskStatus' = [taskStatus EXCEPT ![t] = "running"]
    /\ UNCHANGED <<taskError, createdAt, inserted, resourceStatus, lastEnded>>
    /\ UNCHANGED <<phase, yields, cancelled, thrown, restart, late, history>>

\* No connection for the transaction, or no handler for the action.
RunTaskFails(t) ==
    /\ phase # "down"
    /\ cur = NoTask
    /\ t \in Newest(batch)
    /\ batch' = batch \ {t}
    /\ cur' = t
    /\ Throw("other")
    /\ UNCHANGED <<database, phase, yields, cancelled, restart, late, history>>

\* onStep finds the task not cancelled and the handler runs to its next yield.
Yield ==
    /\ stage = "running"
    /\ taskStatus[cur] # "cancelling"
    /\ yields < Yields[ActionOf[cur]]
    /\ yields' = yields + 1
    /\ UNCHANGED <<database, phase, batch, cur, stage, cancelled, thrown, restart, late, history>>

\* ... or it returns.
Return ==
    /\ stage = "running"
    /\ taskStatus[cur] # "cancelling"
    /\ yields = Yields[ActionOf[cur]]
    /\ stage' = "completing"
    /\ UNCHANGED <<database, phase, batch, cur, yields, cancelled, thrown, restart, late, history>>

\* ... or it throws, or the promise it yielded rejects, or the check itself
\* does: the task may have been cancelled by then.
HandlerThrows ==
    /\ stage = "running"
    /\ \E kind \in HandlerErrors(ActionOf[cur]) : Throw(kind)
    /\ UNCHANGED <<database, phase, batch, cur, yields, cancelled, restart, late, history>>

\* Mutant of StopRunner: the runner stops and does not say that it was cancelled.
StopRunnerSilently ==
    /\ stage = "running"
    /\ taskStatus[cur] = "cancelling"
    /\ stage' = "completing"
    /\ UNCHANGED <<database, phase, batch, cur, yields, cancelled, thrown, restart, late, history>>

\* onStep finds the task cancelling: the runner stops where it is.
StopRunner ==
    /\ stage = "running"
    /\ taskStatus[cur] = "cancelling"
    /\ cancelled' = TRUE
    /\ stage' = "completing"
    /\ UNCHANGED <<database, phase, batch, cur, yields, thrown, restart, late, history>>

\* completeTask, first write: the task has ended, seen by all at once.
RecordEnd ==
    /\ stage = "completing"
    /\ taskStatus' = [taskStatus EXCEPT ![cur] = IF cancelled THEN "cancelled" ELSE "finished"]
    /\ lastEnded' = IF cancelled THEN lastEnded
                    ELSE [lastEnded EXCEPT ![ResourceOf[cur]] = cur]
    /\ stage' = "committing"
    /\ UNCHANGED <<taskError, createdAt, inserted, resourceStatus, phase, batch>>
    /\ UNCHANGED <<cur, yields, cancelled, thrown, restart, late, history>>

\* completeTask, second write, then the transaction commits.  A cancelled task
\* leaves the resource's status alone, but its transaction commits too.
Commit ==
    /\ stage = "committing"
    /\ resourceStatus' =
          IF cancelled THEN resourceStatus
          ELSE [resourceStatus EXCEPT ![ResourceOf[cur]] =
                   TASK_RESOURCE_COMPLETE_STATUS(ActionOf[cur])]
    /\ Release
    /\ UNCHANGED <<taskStatus, taskError, createdAt, inserted, lastEnded>>
    /\ UNCHANGED <<phase, batch, restart, late, history>>

\* Mutant of CompleteTaskFails: the failure is logged and swallowed.
CompleteTaskFailsSilently ==
    /\ stage \in {"completing", "committing"}
    /\ Release
    /\ UNCHANGED <<database, phase, batch, restart, late, history>>

\* A write of completeTask or the commit fails: the transaction is rolled back.
CompleteTaskFails ==
    /\ stage \in {"completing", "committing"}
    /\ Throw("other")
    /\ UNCHANGED <<database, phase, batch, cur, yields, cancelled, restart, late, history>>

-----------------------------------------------------------------------------
(* errorTask: first the task, then the resource by its updater. *)

MarkError(t, kind) ==
    /\ taskStatus' = [taskStatus EXCEPT ![t] = "error"]
    /\ taskError' = [taskError EXCEPT ![t] = kind]
    /\ lastEnded' = [lastEnded EXCEPT ![ResourceOf[t]] = t]
    /\ UNCHANGED <<createdAt, inserted, resourceStatus>>

KeepsStatus(t) == ActionOf[t] = "cluster.delete" /\ taskError[t] = "liveDeployments"
NothingLeft(t) == ActionOf[t] = "deployment.delete" /\ taskError[t] = "gone"

\* resourceUpdaters[task.action]; the write of deploymentDeleteError's
\* completeTask is not awaited.
UpdateResource(t) ==
    /\ resourceStatus' =
          IF KeepsStatus(t) \/ NothingLeft(t) THEN resourceStatus
          ELSE [resourceStatus EXCEPT ![ResourceOf[t]] = "error"]
    /\ late' = IF NothingLeft(t) THEN late \cup {t} ELSE late
    /\ UNCHANGED <<taskStatus, taskError, createdAt, inserted, lastEnded>>

RecordError ==
    /\ stage = "failing"
    /\ MarkError(cur, thrown)
    /\ stage' = "blaming"
    /\ UNCHANGED <<phase, batch, cur, yields, cancelled, thrown, restart, late, history>>

BlameResource ==
    /\ stage = "blaming"
    /\ UpdateResource(cur)
    /\ Release
    /\ UNCHANGED <<phase, batch, restart, history>>

\* The tasks that are not restartable, next to the ones that run again.
RecordNotRestartable(t) ==
    /\ phase = "restarting"
    /\ errCur = NoTask
    /\ t \in Newest(errBatch)
    /\ errBatch' = errBatch \ {t}
    /\ errCur' = t
    /\ MarkError(t, "other")
    /\ UNCHANGED <<phase, batch, runner, late, history>>

BlameNotRestartable ==
    /\ errCur # NoTask
    /\ UpdateResource(errCur)
    /\ errCur' = NoTask
    /\ UNCHANGED <<phase, batch, runner, errBatch, history>>

\* The write nobody waits for reaches the database.
LateWrite(t) ==
    /\ t \in late
    /\ late' = late \ {t}
    /\ resourceStatus' = [resourceStatus EXCEPT ![ResourceOf[t]] = "deleted"]
    /\ UNCHANGED <<taskStatus, taskError, createdAt, inserted, lastEnded>>
    /\ UNCHANGED <<phase, batch, runner, restart, history>>

-----------------------------------------------------------------------------
(* A crash forgets the process and rolls its transaction back. *)

Ending(t) ==
    \/ t = cur /\ stage \in {"committing", "failing", "blaming"}
               /\ taskStatus[t] \in {"finished", "error"}
    \/ t = errCur

Crash ==
    /\ phase # "down"
    /\ crashes < MaxCrashes
    /\ crashes' = crashes + 1
    /\ interrupted' = interrupted \cup {t \in Task : Ending(t)}
    /\ phase' = "down"
    /\ batch' = {} /\ errBatch' = {} /\ errCur' = NoTask /\ late' = {}
    /\ Release
    /\ UNCHANGED database

-----------------------------------------------------------------------------
Work ==
    \/ Start \/ StartControlLoop \/ LoadCreatedTasks
    \/ \E t \in Task : RunTask(t) \/ RunTaskFails(t) \/ RecordNotRestartable(t)
    \/ Yield \/ Return \/ HandlerThrows \/ StopRunner
    \/ RecordEnd \/ Commit \/ CompleteTaskFails
    \/ RecordError \/ BlameResource \/ BlameNotRestartable

Next ==
    \/ Work
    \/ \E t \in Task : InsertTask(t) \/ Cancel(t) \/ LateWrite(t)
    \/ Crash

Spec == Init /\ [][Next]_vars

\* The event loop keeps the processor going and the platform restarts a
\* process that died; nothing obliges a user to ask, or a crash to happen.
FairSpec == Spec /\ WF_vars(Work)

-----------------------------------------------------------------------------
(* What has to be true of it. *)

\* Tasks of any process, past or present, that are in hand or queued.
Owned == batch \cup errBatch \cup {cur, errCur}

\* No two tasks are ever marked running at once, so a restart finds at most one
\* task to resume however often the process has died (restartTasks runs its
\* list before the control loop starts, and runs it one by one).
AtMostOneRunning ==
    \A t, u \in Task : taskStatus[t] = "running" /\ taskStatus[u] = "running" => t = u

\* A live process holds, or has queued, the task that is marked running: no
\* task is left running with nobody to finish it.
RunningIsOwned ==
    phase # "down" =>
        \A t \in Task : taskStatus[t] = "running" => t \in Owned

\* The status that the end of task t gives to its resource.
Explains(t, s) ==
    \/ taskStatus[t] = "finished" /\ s = TASK_RESOURCE_COMPLETE_STATUS(ActionOf[t])
    \/ taskStatus[t] = "error" /\ (KeepsStatus(t) \/ NothingLeft(t))
    \/ taskStatus[t] = "error" /\ s = "error"

\* A delete that found nothing left may overwrite the status at any time later.
LateDelete(r, s) ==
    /\ s = "deleted"
    /\ \E d \in Task : ResourceOf[d] = r /\ taskStatus[d] = "error" /\ NothingLeft(d)

\* The status of a resource agrees with the task that ended last on it, once
\* the processor is done with that task and unless a crash cut its ending
\* short: a later task, a failed commit, a restart or the failure of another
\* task never leaves the two telling different stories.
StatusExplained ==
    \A r \in Resource :
        LET t == lastEnded[r] IN
        t \in Task \ (interrupted \cup {cur, errCur}) =>
            Explains(t, resourceStatus[r]) \/ LateDelete(r, resourceStatus[r])

\* completeTask: "mark the task as complete and update the corresponding
\* resource with the correct status".  As documented, with no exception for a
\* process that dies between the two.
FinishedTaskUpdatesResource ==
    \A r \in Resource :
        LET t == lastEnded[r] IN
        t \in Task \ {cur} /\ taskStatus[t] = "finished" =>
            \/ resourceStatus[r] = TASK_RESOURCE_COMPLETE_STATUS(ActionOf[t])
            \/ LateDelete(r, resourceStatus[r])

\* runTask takes a task for the second time only to resume it after a restart:
\* within the life of a process a handler is never run twice for one task.
RerunOnlyAfterRestart ==
    [][\A t \in Task :
          cur' = t /\ cur # t => taskStatus[t] = "created" \/ phase = "restarting"]_vars

\* The life of a row of the task table is the one TaskLifecycle describes.
Lifecycle == INSTANCE TaskLifecycle WITH status <- taskStatus
LifecycleSpec == Lifecycle!Spec

\* A task that is cancelling when no process holds it is never loaded again:
\* restartTasks loads only the running ones, the loop only the created ones.
Orphaned(t) == taskStatus[t] = "cancelling" /\ t \notin Owned

\* Every task ends, except one that a crash caught while it was cancelling.
EveryTaskEnds ==
    \A t \in Task :
        taskStatus[t] = "created" ~> taskStatus[t] \in EndedStatuses \/ Orphaned(t)

\* A cancel request that arrives while the handler is running is honoured, or
\* the task fails: it never finishes (unless the process dies first).
CancelTakesEffect ==
    \A t \in Task :
        cur = t /\ stage = "running" /\ taskStatus[t] = "cancelling"
            ~> taskStatus[t] \in {"cancelled", "error"} \/ phase = "down"

=============================================================================

------------------------- MODULE ResourceControllers -------------------------
(***************************************************************************)
(* The requests that create, update, delete and permanently delete the     *)
(* clusters and deployments.  Each runs in a transaction of its own at the *)
(* isolation level of PostgreSQL's default, READ COMMITTED: every select   *)
(* sees what others have committed by then, and what it saw may be stale   *)
(* by the time the transaction commits.  An active task is meant to lock   *)
(* its resource against further requests, by a select and a throw.         *)
(*                                                                         *)
(* The task processor, which ends the tasks, is more abstract here than in *)
(* TaskProcessor, but it writes what it writes there in the same order:    *)
(* the end of a task first, and the status of the resource after it.       *)
(***************************************************************************)
EXTENDS Enumerations, Naturals, FiniteSets

CONSTANTS
    Cluster, Deployment,   \* the ids that come to be used
    ClusterOf,             \* deployment.cluster
    Request,               \* requests that may be in progress at once
    NoResource,
    MaxTasks               \* bound on the tasks inserted

Resource == Cluster \cup Deployment
Task == 1..MaxTasks

ASSUME ResourceAssumption ==
    /\ Cluster \cap Deployment = {}
    /\ NoResource \notin Resource
    /\ ClusterOf \in [Deployment -> Cluster]
    /\ MaxTasks \in Nat
    /\ IsFiniteSet(Request) /\ Request # {}

VARIABLES
    status,      \* cluster.status, deployment.status; "absent" before, "erased" after
    taskStatus,  \* task.status, likewise
    taskOf,      \* task -> its resource
    action,      \* task -> task.action
    outcome,     \* task -> the write to its resource that is still to come: that
                 \* of a completed task, of a failed one, or one nobody waits for
    op,          \* request -> "none" or what it does
    target,      \* request -> the resource it does it to
    step,        \* request -> the select it has done last
    listed,      \* request -> the deployments of the cluster it deletes permanently
    doomed,      \* request -> the tasks it has deleted, until it commits
    alone,       \* request -> no other one has been in progress meanwhile
    unsettled    \* request -> a task of its target had such a write to come
                 \* when it began

tasks == <<taskStatus, taskOf, action>>
requests == <<op, target, step, listed, doomed, alone, unsettled>>
vars == <<status, tasks, outcome, requests>>

Gone == {"absent", "erased"}
Ops == {"update", "delete", "erase"}

TypeOK ==
    /\ status \in [Resource -> RESOURCE_STATUS \cup Gone]
    /\ taskStatus \in [Task -> TASK_STATUS \cup Gone]
    /\ taskOf \in [Task -> Resource \cup {NoResource}]
    /\ action \in [Task -> TASK_ACTION \cup {"none"}]
    /\ outcome \in [Task -> {"none", "completed", "failed", "late"}]
    /\ op \in [Request -> Ops \cup {"none"}]
    /\ target \in [Request -> Resource \cup {NoResource}]
    /\ step \in [Request -> {"idle", "checked", "read", "emptied"}]
    /\ listed \in [Request -> SUBSET Deployment]
    /\ doomed \in [Request -> SUBSET Task]
    /\ alone \in [Request -> BOOLEAN]
    /\ unsettled \in [Request -> BOOLEAN]

Init ==
    /\ status = [r \in Resource |-> "absent"]
    /\ taskStatus = [t \in Task |-> "absent"]
    /\ taskOf = [t \in Task |-> NoResource]
    /\ action = [t \in Task |-> "none"]
    /\ outcome = [t \in Task |-> "none"]
    /\ op = [q \in Request |-> "none"]
    /\ target = [q \in Request |-> NoResource]
    /\ step = [q \in Request |-> "idle"]
    /\ listed = [q \in Request |-> {}]
    /\ doomed = [q \in Request |-> {}]
    /\ alone = [q \in Request |-> TRUE]
    /\ unsettled = [q \in Request |-> FALSE]

-----------------------------------------------------------------------------
TasksOf(r) == {t \in Task : taskOf[t] = r}

\* store.task.activeForResource
ActiveTasks(r) == {t \in TasksOf(r) : taskStatus[t] \in TASK_ACTIVE_STATUSES}

\* A task of r has ended and r does not have its status yet.
Unsettled(r) == \E t \in TasksOf(r) : outcome[t] # "none"

Present(r) == status[r] \notin Gone
DeploymentsOf(c) == {d \in Deployment : ClusterOf[d] = c /\ Present(d)}

ActionOn(r, what) ==
    CASE r \in Cluster /\ what = "create" -> "cluster.create"
      [] r \in Cluster /\ what = "update" -> "cluster.update"
      [] r \in Cluster /\ what = "delete" -> "cluster.delete"
      [] r \notin Cluster /\ what = "create" -> "deployment.create"
      [] r \notin Cluster /\ what = "update" -> "deployment.update"
      [] OTHER -> "deployment.delete"

\* store.task.create: the next id of the sequence.
InsertTask(r, what) ==
    \E t \in Task :
        /\ taskStatus[t] = "absent"
        /\ \A u \in 1..(t - 1) : taskStatus[u] # "absent"
        /\ taskStatus' = [taskStatus EXCEPT ![t] = "created"]
        /\ taskOf' = [taskOf EXCEPT ![t] = r]
        /\ action' = [action EXCEPT ![t] = ActionOn(r, what)]

EndRequest(q) ==
    /\ op' = [op EXCEPT ![q] = "none"]
    /\ target' = [target EXCEPT ![q] = NoResource]
    /\ step' = [step EXCEPT ![q] = "idle"]
    /\ listed' = [listed EXCEPT ![q] = {}]
    /\ doomed' = [doomed EXCEPT ![q] = {}]
    /\ alone' = [alone EXCEPT ![q] = TRUE]
    /\ unsettled' = [unsettled EXCEPT ![q] = FALSE]

\* Another request comes in while these are in progress.
Company == [q \in Request |-> step[q] = "idle"]

-----------------------------------------------------------------------------
\* create: what it selects does not matter any more when the row is inserted;
\* the unique names and the reference to the cluster are up to the database.
Create(r) ==
    /\ status[r] = "absent"
    /\ r \in Deployment => Present(ClusterOf[r])
    /\ status' = [status EXCEPT ![r] = "created"]
    /\ InsertTask(r, "create")
    /\ alone' = Company
    /\ UNCHANGED <<outcome, op, target, step, listed, doomed, unsettled>>

\* Mutant of FindNoActiveTasks: created tasks do not count as active.
FindNoRunningTasks(r) ==
    \A t \in TasksOf(r) : taskStatus[t] \notin {"running", "cancelling"}

FindNoActiveTasks(r) == ActiveTasks(r) = {}

\* The other requests begin with the same select, and throw if it finds any.
Begin(q, what, r) ==
    /\ step[q] = "idle"
    /\ status[r] # "absent"
    /\ FindNoActiveTasks(r)
    /\ op' = [op EXCEPT ![q] = what]
    /\ target' = [target EXCEPT ![q] = r]
    /\ step' = [step EXCEPT ![q] = "checked"]
    /\ alone' = [Company EXCEPT ![q] = \A p \in Request \ {q} : step[p] = "idle"]
    /\ unsettled' = [unsettled EXCEPT ![q] = Unsettled(r)]
    /\ UNCHANGED <<status, tasks, outcome, listed, doomed>>

\* update: the resource has to be there.
ReadForUpdate(q) ==
    /\ op[q] = "update" /\ step[q] = "checked"
    /\ IF Present(target[q])
       THEN /\ step' = [step EXCEPT ![q] = "read"]
            /\ UNCHANGED <<op, target, listed, doomed, alone, unsettled>>
       ELSE EndRequest(q)
    /\ UNCHANGED <<status, tasks, outcome>>

\* Mutant of Erasable: whether the resource itself is deleted is not asked.
ErasableInAnyStatus(r) ==
    /\ Present(r)
    /\ \A d \in DeploymentsOf(r) : status[d] = "deleted"

\* deletePermanently: the resource, and the deployments of a cluster, have to
\* be deleted.
Erasable(r) ==
    /\ status[r] = "deleted"
    /\ \A d \in DeploymentsOf(r) : status[d] = "deleted"

ReadForErase(q) ==
    /\ op[q] = "erase" /\ step[q] = "checked"
    /\ IF Erasable(target[q])
       THEN /\ step' = [step EXCEPT ![q] = "read"]
            /\ listed' = [listed EXCEPT ![q] = DeploymentsOf(target[q])]
            /\ UNCHANGED <<op, target, doomed, alone, unsettled>>
       ELSE EndRequest(q)
    /\ UNCHANGED <<status, tasks, outcome>>

\* The row of a deployment that is gone makes store.deployment.update throw;
\* store.cluster.update does not mind.
CommitUpdate(q) ==
    LET r == target[q] IN
    /\ op[q] = "update" /\ step[q] = "read"
    /\ IF Present(r) \/ r \in Cluster THEN InsertTask(r, "update") ELSE UNCHANGED tasks
    /\ EndRequest(q)
    /\ UNCHANGED <<status, outcome>>

\* delete: the task is inserted for whatever has that id.
CommitDelete(q) ==
    /\ op[q] = "delete" /\ step[q] = "checked"
    /\ InsertTask(target[q], "delete")
    /\ EndRequest(q)
    /\ UNCHANGED <<status, outcome>>

Erase(rs) == status' = [r \in Resource |-> IF r \in rs THEN "erased" ELSE status[r]]

\* Mutant of CascadeFrom: the foreign key does not cascade.
CascadeNothing(c) == {}

\* The deployments the database deletes with a cluster, listed or not.
CascadeFrom(c) == DeploymentsOf(c)

Named(q) == listed[q] \cup {target[q]}

\* store.task.deleteForResource, of the resource and of the listed deployments:
\* the tasks there are by now, not the ones that other requests will commit.
EraseTasks(q) ==
    /\ op[q] = "erase" /\ step[q] = "read"
    /\ step' = [step EXCEPT ![q] = "emptied"]
    /\ doomed' = [doomed EXCEPT ![q] = {t \in Task : taskOf[t] \in Named(q)}]
    /\ UNCHANGED <<status, tasks, outcome, op, target, listed, alone, unsettled>>

\* The listed deployments go too; one that is gone already makes
\* store.deployment.delete throw, and nothing is deleted.
CommitErase(q) ==
    /\ op[q] = "erase" /\ step[q] = "emptied"
    /\ IF \A d \in Named(q) \cap Deployment : Present(d)
       THEN /\ taskStatus' = [t \in Task |-> IF t \in doomed[q] THEN "erased" ELSE taskStatus[t]]
            /\ Erase(Named(q) \cup CascadeFrom(target[q]))
            /\ UNCHANGED <<taskOf, action>>
       ELSE UNCHANGED <<status, tasks>>
    /\ EndRequest(q)
    /\ UNCHANGED outcome

-----------------------------------------------------------------------------
(* The task processor, one task at a time. *)

\* It waits for the writes of the task before, but for the late ones.
Take(t) ==
    /\ taskStatus[t] = "created"
    /\ \A u \in Task : taskStatus[u] # "running" /\ outcome[u] \in {"none", "late"}
    /\ taskStatus' = [taskStatus EXCEPT ![t] = "running"]
    /\ UNCHANGED <<status, taskOf, action, outcome, requests>>

\* A cluster is deleted only if all its deployments are.
MayFinish(t) ==
    action[t] = "cluster.delete" => \A d \in DeploymentsOf(taskOf[t]) : status[d] = "deleted"

End(t, s, o) ==
    /\ taskStatus[t] = "running"
    /\ taskStatus' = [taskStatus EXCEPT ![t] = s]
    /\ outcome' = [outcome EXCEPT ![t] = o]
    /\ UNCHANGED <<status, taskOf, action, requests>>

\* completeTask: the task is finished outside the transaction that its resource
\* is updated in.
Finish(t) == End(t, "finished", "completed") /\ MayFinish(t)

\* How an error is answered: deploymentDeleteError does not await completeTask.
Answers(t) == IF action[t] = "deployment.delete" THEN {"failed", "late"} ELSE {"failed"}

\* errorTask, the write to the task.
Fail(t) == \E o \in Answers(t) : End(t, "error", o)

Settle(t, s) ==
    /\ Present(taskOf[t])
    /\ status' = [status EXCEPT ![taskOf[t]] = s]

\* The transaction commits.  The update of a cluster that is gone is no error.
Commit(t) ==
    /\ outcome[t] = "completed"
    /\ \/ Settle(t, TASK_RESOURCE_COMPLETE_STATUS(action[t]))
       \/ taskOf[t] \in Cluster /\ ~Present(taskOf[t]) /\ UNCHANGED status
    /\ outcome' = [outcome EXCEPT ![t] = "none"]
    /\ UNCHANGED <<tasks, requests>>

\* It does not, as when the deployment is gone: errorTask follows, for a task
\* that was finished and may have been erased.
CommitFails(t) ==
    /\ outcome[t] = "completed"
    /\ taskStatus' = [taskStatus EXCEPT ![t] = IF @ = "erased" THEN @ ELSE "error"]
    /\ \E o \in Answers(t) : outcome' = [outcome EXCEPT ![t] = o]
    /\ UNCHANGED <<status, taskOf, action, requests>>

\* The resource updater of the error, which may leave the status as it is;
\* there may be no row.
UpdateResource(t) ==
    /\ outcome[t] \in {"failed", "late"}
    /\ \/ UNCHANGED status
       \/ Settle(t, IF outcome[t] = "late" THEN "deleted" ELSE "error")
    /\ outcome' = [outcome EXCEPT ![t] = "none"]
    /\ UNCHANGED <<tasks, requests>>

-----------------------------------------------------------------------------
Serve(q) ==
    \/ \E what \in Ops, r \in Resource : Begin(q, what, r)
    \/ ReadForUpdate(q) \/ ReadForErase(q)
    \/ CommitUpdate(q) \/ CommitDelete(q) \/ EraseTasks(q) \/ CommitErase(q)

Next ==
    \/ \E q \in Request : Serve(q)
    \/ \E r \in Resource : Create(r)
    \/ \E t \in Task : \/ Take(t) \/ Finish(t) \/ Fail(t)
                      \/ Commit(t) \/ CommitFails(t) \/ UpdateResource(t)

Spec == Init /\ [][Next]_vars

-----------------------------------------------------------------------------
\* The lock leaks by no more than the requests that were in progress together:
\* a resource never has more active tasks than requests can overlap.
ActiveTasksBounded ==
    \A r \in Resource : Cardinality(ActiveTasks(r)) <= Cardinality(Request)

\* "check there are no active tasks for this cluster": while a task is active
\* on a cluster or a deployment, no other task is.
OneActiveTask == \A r \in Resource : Cardinality(ActiveTasks(r)) <= 1

\* A deployment never outlives its cluster, even one that was created while
\* the cluster was being deleted permanently.
DeploymentsHaveTheirCluster ==
    \A d \in Deployment : Present(d) => Present(ClusterOf[d])

\* A request that had no company locks its resource: nothing the processor
\* does between its selects and its commit puts a second task on it.
LoneRequestIsExclusive ==
    [][\A q \in Request :
          (CommitUpdate(q) \/ CommitDelete(q)) /\ alone[q] => ActiveTasks(target[q]) = {}]_vars

\* ... and what it deletes permanently is still in deleted status by then, as
\* long as every task that had ended on it had settled its status when the
\* request began: active tasks keep the processor off the resource, but a task
\* is not active any more when its transaction has yet to commit.
LoneEraseTakesTheDeleted ==
    [][\A q \in Request :
          CommitErase(q) /\ alone[q] => status[target[q]] = "deleted" \/ unsettled[q]]_vars

=============================================================================

---------------------- MODULE ResourceControllersProofs ----------------------
(***************************************************************************)
(* Proofs about the requests on clusters and deployments, for every set of *)
(* clusters and deployments and any number of requests at once.            *)
(***************************************************************************)
EXTENDS ResourceControllers, FiniteSetTheorems, TLAPS

\* Tasks that have been inserted have a resource, requests in progress a target.
UsedInv ==
    /\ \A t \in Task :
          IF taskStatus[t] = "absent" THEN taskOf[t] = NoResource
          ELSE taskOf[t] \in Resource /\ action[t] \in TASK_ACTION
    /\ \A q \in Request : step[q] # "idle" => target[q] \in Resource /\ op[q] \in Ops
    /\ \A q \in Request : \A t \in doomed[q] : taskStatus[t] # "absent"
    /\ \A t \in Task : outcome[t] # "none" => taskStatus[t] # "absent"

\* A request that has been alone since it began is alone, on a resource that no
\* task is active on.  If the tasks that had ended on it had settled its status
\* by then, none has anything left to write, and it is still deleted where it was.
AloneInv ==
    \A q \in Request : alone[q] /\ step[q] # "idle" =>
        /\ \A p \in Request \ {q} : step[p] = "idle"
        /\ ActiveTasks(target[q]) = {}
        /\ ~unsettled[q] =>
              /\ ~Unsettled(target[q])
              /\ op[q] = "erase" /\ step[q] # "checked" => status[target[q]] = "deleted"

\* Nothing refers to what has not been created.
AbsentInv ==
    \A r \in Resource : status[r] = "absent" =>
        /\ \A t \in Task : taskStatus[t] # "absent" => taskOf[t] # r
        /\ \A q \in Request : step[q] # "idle" => target[q] # r

\* The requests that are going to insert a task on a resource.
Inserting(r) == {q \in Request : step[q] # "idle" /\ target[q] = r /\ op[q] \in {"update", "delete"}}

\* The active tasks of a resource and the requests about to insert one are
\* together no more than there are requests.
LeakInv ==
    \A r \in Resource :
        /\ IsFiniteSet(ActiveTasks(r))
        /\ Cardinality(ActiveTasks(r)) + Cardinality(Inserting(r)) <= Cardinality(Request)

-----------------------------------------------------------------------------
LEMMA CompleteStatus ==
    ASSUME NEW a \in TASK_ACTION
    PROVE  TASK_RESOURCE_COMPLETE_STATUS(a) \in RESOURCE_STATUS \ Gone
  BY DEF TASK_RESOURCE_COMPLETE_STATUS, RESOURCE_STATUS, Gone

LEMMA ActionType ==
    ASSUME NEW r, NEW what
    PROVE  ActionOn(r, what) \in TASK_ACTION
  BY DEF ActionOn, TASK_ACTION

\* What the insertion of a task adds.
LEMMA InsertSets ==
    ASSUME TypeOK, NEW r \in Resource, NEW what, InsertTask(r, what)
    PROVE  \E t \in Task :
              /\ taskStatus[t] = "absent" /\ taskStatus'[t] = "created" /\ taskOf'[t] = r
              /\ action'[t] \in TASK_ACTION
              /\ taskStatus' \in [Task -> TASK_STATUS \cup Gone]
              /\ taskOf' \in [Task -> Resource \cup {NoResource}]
              /\ action' \in [Task -> TASK_ACTION \cup {"none"}]
              /\ \A u \in Task \ {t} : /\ taskStatus'[u] = taskStatus[u]
                                       /\ taskOf'[u] = taskOf[u] /\ action'[u] = action[u]
<1>1. PICK t \in Task :
          /\ taskStatus[t] = "absent"
          /\ taskStatus' = [taskStatus EXCEPT ![t] = "created"]
          /\ taskOf' = [taskOf EXCEPT ![t] = r]
          /\ action' = [action EXCEPT ![t] = ActionOn(r, what)]
  BY DEF InsertTask
<1>2. "created" \in TASK_STATUS
  BY DEF TASK_STATUS
<1>3. QED
  BY <1>1, <1>2, ActionType DEF TypeOK

\* What ends with a request.
LEMMA EndSets ==
    ASSUME TypeOK, NEW q \in Request, EndRequest(q)
    PROVE  /\ op' \in [Request -> Ops \cup {"none"}]
           /\ target' \in [Request -> Resource \cup {NoResource}]
           /\ step' \in [Request -> {"idle", "checked", "read", "emptied"}]
           /\ listed' \in [Request -> SUBSET Deployment]
           /\ doomed' \in [Request -> SUBSET Task]
           /\ alone' \in [Request -> BOOLEAN]
           /\ unsettled' \in [Request -> BOOLEAN]
           /\ step'[q] = "idle" /\ doomed'[q] = {}
           /\ \A p \in Request \ {q} :
                 /\ op'[p] = op[p] /\ target'[p] = target[p] /\ step'[p] = step[p]
                 /\ listed'[p] = listed[p] /\ doomed'[p] = doomed[p] /\ alone'[p] = alone[p]
                 /\ unsettled'[p] = unsettled[p]
  BY DEF EndRequest, TypeOK

\* The steps by which the processor ends a task and settles its resource.
Ends(t) == Finish(t) \/ Fail(t) \/ Commit(t) \/ CommitFails(t) \/ UpdateResource(t)

\* What they write to the resource of the task.
LEMMA SettleSets ==
    ASSUME TypeOK, NEW t \in Task, taskOf[t] \in Resource, NEW s \in RESOURCE_STATUS \ Gone,
           Settle(t, s)
    PROVE  /\ status' \in [Resource -> RESOURCE_STATUS \cup Gone]
           /\ \A r \in Resource \ {taskOf[t]} : status'[r] = status[r]
           /\ \A r \in Resource : status'[r] = status[r] \/ (Present(r) /\ status'[r] \notin Gone)
  BY DEF Settle, TypeOK

\* ... and what they leave.
LEMMA EndsSets ==
    ASSUME TypeOK, UsedInv, NEW t \in Task, Ends(t)
    PROVE  /\ taskStatus[t] # "absent" /\ taskOf[t] \in Resource
           /\ taskStatus[t] = "running" \/ outcome[t] # "none"
           /\ taskStatus'[t] \in {"finished", "error", taskStatus[t]}
           /\ taskStatus[t] = "running" => taskStatus'[t] \in {"finished", "error"} \/ outcome[t] # "none"
           /\ taskStatus' \in [Task -> TASK_STATUS \cup Gone]
           /\ outcome' \in [Task -> {"none", "completed", "failed", "late"}]
           /\ \A u \in Task \ {t} : taskStatus'[u] = taskStatus[u] /\ outcome'[u] = outcome[u]
           /\ status' \in [Resource -> RESOURCE_STATUS \cup Gone]
           /\ \A r \in Resource \ {taskOf[t]} : status'[r] = status[r]
           /\ \A r \in Resource : status'[r] = status[r] \/ (Present(r) /\ status'[r] \notin Gone)
           /\ UNCHANGED <<taskOf, action, requests>>
<1> USE DEF tasks
<1>1. "finished" \in TASK_STATUS /\ "error" \in TASK_STATUS
  BY DEF TASK_STATUS
<1>2. "error" \in RESOURCE_STATUS \ Gone /\ "deleted" \in RESOURCE_STATUS \ Gone
  BY DEF RESOURCE_STATUS, Gone
<1>3. Answers(t) \subseteq {"failed", "late"}
  BY DEF Answers
<1>4. taskStatus[t] # "absent" /\ (taskStatus[t] = "running" \/ outcome[t] # "none")
  BY DEF Ends, Finish, Fail, End, Commit, CommitFails, UpdateResource, UsedInv
<1>5. taskOf[t] \in Resource /\ action[t] \in TASK_ACTION
  BY <1>4 DEF UsedInv
<1>6. CASE Finish(t) \/ Fail(t)
  <2>1. PICK s \in {"finished", "error"}, o \in {"completed", "failed", "late"} : End(t, s, o)
    BY <1>3, <1>6 DEF Finish, Fail
  <2>2. QED
    BY <1>1, <1>4, <1>5, <2>1 DEF End, TypeOK
<1>7. CASE Commit(t)
  <2>1. TASK_RESOURCE_COMPLETE_STATUS(action[t]) \in RESOURCE_STATUS \ Gone
    BY <1>5, CompleteStatus
  <2>2. UNCHANGED status \/ Settle(t, TASK_RESOURCE_COMPLETE_STATUS(action[t]))
    BY <1>7 DEF Commit
  <2>3. QED
    BY <1>4, <1>5, <1>7, <2>1, <2>2, SettleSets DEF Commit, TypeOK
<1>8. CASE CommitFails(t)
  BY <1>1, <1>3, <1>4, <1>5, <1>8 DEF CommitFails, TypeOK
<1>9. CASE UpdateResource(t)
  <2>1. UNCHANGED status \/ Settle(t, "deleted") \/ Settle(t, "error")
    BY <1>9 DEF UpdateResource
  <2>2. QED
    BY <1>2, <1>4, <1>5, <1>9, <2>1, SettleSets DEF UpdateResource, TypeOK
<1>10. QED
  BY <1>6, <1>7, <1>8, <1>9 DEF Ends

-----------------------------------------------------------------------------
\* Type correctness is preserved, action by action.
LEMMA TypeStep ==
    ASSUME TypeOK, UsedInv, [Next]_vars
    PROVE  TypeOK' /\ UsedInv'
<1> USE ResourceAssumption DEF tasks, requests
<1>1. ASSUME NEW r \in Resource, Create(r) PROVE TypeOK' /\ UsedInv'
  <2>1. "created" \in RESOURCE_STATUS
    BY DEF RESOURCE_STATUS
  <2>2. InsertTask(r, "create") /\ status' \in [Resource -> RESOURCE_STATUS \cup Gone]
    BY <1>1, <2>1 DEF Create, TypeOK
  <2>3. /\ alone' \in [Request -> BOOLEAN]
        /\ UNCHANGED <<outcome, op, target, step, listed, doomed, unsettled>>
    BY <1>1 DEF Create, Company
  <2>4. TypeOK'
    BY <2>2, <2>3, InsertSets DEF TypeOK
  <2>5. UsedInv'
    <3>1. PICK t \in Task :
              /\ taskStatus[t] = "absent" /\ taskStatus'[t] = "created" /\ taskOf'[t] = r
              /\ action'[t] \in TASK_ACTION
              /\ \A u \in Task \ {t} : /\ taskStatus'[u] = taskStatus[u]
                                       /\ taskOf'[u] = taskOf[u] /\ action'[u] = action[u]
      BY <2>2, InsertSets
    <3>2. \A p \in Request : doomed[p] \subseteq Task
      BY DEF TypeOK
    <3>3. QED
      BY <2>3, <3>1, <3>2 DEF UsedInv
  <2>6. QED
    BY <2>4, <2>5
<1>2. ASSUME NEW q \in Request, NEW what \in Ops, NEW r \in Resource, Begin(q, what, r)
      PROVE  TypeOK' /\ UsedInv'
  <2>1. alone' \in [Request -> BOOLEAN] /\ Unsettled(r) \in BOOLEAN
    BY <1>2 DEF Begin, Company, Unsettled
  <2>2. TypeOK'
    BY <1>2, <2>1 DEF Begin, TypeOK
  <2>3. UsedInv'
    BY <1>2 DEF Begin, TypeOK, UsedInv
  <2>4. QED
    BY <2>2, <2>3
<1>3. ASSUME NEW q \in Request, EndRequest(q), UNCHANGED <<status, tasks, outcome>>
      PROVE  TypeOK' /\ UsedInv'
  <2>1. TypeOK'
    BY <1>3, EndSets DEF TypeOK
  <2>2. UsedInv'
    BY <1>3, EndSets DEF UsedInv
  <2>3. QED
    BY <2>1, <2>2
<1>4. ASSUME NEW q \in Request, ReadForUpdate(q) PROVE TypeOK' /\ UsedInv'
  <2>1. CASE EndRequest(q)
    BY <1>3, <1>4, <2>1 DEF ReadForUpdate
  <2>2. CASE step' = [step EXCEPT ![q] = "read"] /\ UNCHANGED <<op, target, listed, doomed, alone, unsettled>>
    BY <1>4, <2>2 DEF ReadForUpdate, TypeOK, UsedInv
  <2>3. QED
    BY <1>4, <2>1, <2>2 DEF ReadForUpdate
<1>5. ASSUME NEW q \in Request, ReadForErase(q) PROVE TypeOK' /\ UsedInv'
  <2>1. CASE EndRequest(q)
    BY <1>3, <1>5, <2>1 DEF ReadForErase
  <2>2. CASE /\ step' = [step EXCEPT ![q] = "read"]
             /\ listed' = [listed EXCEPT ![q] = DeploymentsOf(target[q])]
             /\ UNCHANGED <<op, target, doomed, alone, unsettled>>
    BY <1>5, <2>2 DEF ReadForErase, TypeOK, UsedInv, DeploymentsOf
  <2>3. QED
    BY <1>5, <2>1, <2>2 DEF ReadForErase
<1>6. ASSUME NEW q \in Request, NEW what, InsertTask(target[q], what), EndRequest(q),
             step[q] # "idle", UNCHANGED <<status, outcome>>
      PROVE  TypeOK' /\ UsedInv'
  <2>1. target[q] \in Resource
    BY <1>6 DEF UsedInv
  <2>2. TypeOK'
    BY <1>6, <2>1, InsertSets, EndSets DEF TypeOK
  <2>3. UsedInv'
    BY SMTT(60), <1>6, <2>1, InsertSets, EndSets DEF UsedInv
  <2>4. QED
    BY <2>2, <2>3
<1>7. ASSUME NEW q \in Request, CommitUpdate(q) \/ CommitDelete(q) PROVE TypeOK' /\ UsedInv'
  BY <1>3, <1>6, <1>7 DEF CommitUpdate, CommitDelete
<1>8. ASSUME NEW q \in Request, EraseTasks(q) PROVE TypeOK' /\ UsedInv'
  <2>1. TypeOK'
    BY <1>8 DEF EraseTasks, TypeOK
  <2>2. Named(q) \subseteq Resource
    BY <1>8 DEF EraseTasks, Named, TypeOK, UsedInv, Resource
  <2>3. \A t \in Task : taskOf[t] \in Named(q) => taskStatus[t] # "absent"
    BY <2>2 DEF UsedInv
  <2>4. UsedInv'
    BY <1>8, <2>3 DEF EraseTasks, TypeOK, UsedInv
  <2>5. QED
    BY <2>1, <2>4
<1>9. ASSUME NEW q \in Request, CommitErase(q) PROVE TypeOK' /\ UsedInv'
  <2>1. CASE UNCHANGED <<status, tasks>>
    BY <1>3, <1>9, <2>1 DEF CommitErase
  <2>2. CASE /\ taskStatus' = [t \in Task |-> IF t \in doomed[q] THEN "erased" ELSE taskStatus[t]]
             /\ Erase(Named(q) \cup CascadeFrom(target[q]))
             /\ UNCHANGED <<taskOf, action>>
    <3>1. taskStatus' \in [Task -> TASK_STATUS \cup Gone]
      BY <2>2 DEF TypeOK, Gone
    <3>2. status' \in [Resource -> RESOURCE_STATUS \cup Gone]
      BY <2>2 DEF TypeOK, Gone, Erase
    <3>3. /\ EndRequest(q)
          /\ UNCHANGED outcome
          /\ \A t \in Task : taskStatus'[t] = "absent" <=> taskStatus[t] = "absent"
      BY <1>9, <2>2 DEF CommitErase, UsedInv
    <3>4. TypeOK'
      BY <2>2, <3>1, <3>2, <3>3, EndSets DEF TypeOK
    <3>5. \A p \in Request : doomed'[p] \subseteq doomed[p]
      BY <3>3, EndSets
    <3>6. UsedInv'
      BY SMTT(60), <2>2, <3>3, <3>5, EndSets DEF UsedInv, TypeOK
    <3>7. QED
      BY <3>4, <3>6
  <2>3. QED
    BY <1>9, <2>1, <2>2 DEF CommitErase
<1>10. ASSUME NEW t \in Task, Take(t) PROVE TypeOK' /\ UsedInv'
  <2>1. "running" \in TASK_STATUS
    BY DEF TASK_STATUS
  <2>2. QED
    BY <1>10, <2>1 DEF Take, TypeOK, UsedInv
<1>11. ASSUME NEW t \in Task, Ends(t) PROVE TypeOK' /\ UsedInv'
  BY <1>11, EndsSets DEF TypeOK, UsedInv
<1>12. CASE UNCHANGED vars
  BY <1>12 DEF vars, TypeOK, UsedInv
<1>13. QED
  BY <1>1, <1>2, <1>4, <1>5, <1>7, <1>8, <1>9, <1>10, <1>11, <1>12 DEF Next, Serve, Ends

LEMMA InitUsed == Init => TypeOK /\ UsedInv
  BY ResourceAssumption DEF Init, TypeOK, UsedInv, Gone

-----------------------------------------------------------------------------
\* A deployment is created only for a cluster that is there, and goes with it.
LEMMA ClusterStep ==
    ASSUME TypeOK, UsedInv, DeploymentsHaveTheirCluster, [Next]_vars
    PROVE  DeploymentsHaveTheirCluster'
<1> USE ResourceAssumption DEF DeploymentsHaveTheirCluster, Present, tasks, requests
<1>1. CASE UNCHANGED status
  BY <1>1
<1>2. ASSUME NEW r \in Resource, Create(r) PROVE DeploymentsHaveTheirCluster'
  BY <1>2 DEF Create, TypeOK, Gone, Resource
<1>3. ASSUME NEW t \in Task, Ends(t) PROVE DeploymentsHaveTheirCluster'
  BY <1>3, EndsSets DEF Resource, Gone
<1>4. ASSUME NEW q \in Request, CommitErase(q) PROVE DeploymentsHaveTheirCluster'
  <2>1. CASE Erase(Named(q) \cup CascadeFrom(target[q]))
    <3>1. \A r \in Resource : status'[r] = IF r \in Named(q) \cup CascadeFrom(target[q])
                                           THEN "erased" ELSE status[r]
      BY <2>1 DEF Erase
    <3>2. \A c \in Cluster : c \in Named(q) \cup CascadeFrom(target[q]) => c = target[q]
      BY <1>4 DEF Named, CascadeFrom, DeploymentsOf, TypeOK
    <3>3. \A d \in Deployment : Present(d) /\ ClusterOf[d] = target[q] => d \in CascadeFrom(target[q])
      BY DEF CascadeFrom, DeploymentsOf
    <3>4. QED
      BY <3>1, <3>2, <3>3 DEF Resource, Gone
  <2>2. QED
    BY <1>1, <1>4, <2>1 DEF CommitErase
<1>5. QED
  BY <1>1, <1>2, <1>3, <1>4
     DEF Next, Serve, Ends, Begin, ReadForUpdate, ReadForErase, CommitUpdate, CommitDelete, EraseTasks,
         Take, vars

\* While a request is alone only the processor goes on, which ends tasks and
\* begins none.
LEMMA AloneStep ==
    ASSUME TypeOK, UsedInv, AloneInv, [Next]_vars
    PROVE  AloneInv'
<1> USE DEF tasks, requests
<1> SUFFICES ASSUME NEW q \in Request, alone'[q], step'[q] # "idle"
             PROVE  /\ \A p \in Request \ {q} : step'[p] = "idle"
                    /\ ActiveTasks(target[q])' = {}
                    /\ ~unsettled'[q] =>
                          /\ ~Unsettled(target[q])'
                          /\ op'[q] = "erase" /\ step'[q] # "checked" =>
                                status'[target'[q]] = "deleted"
  BY DEF AloneInv, ActiveTasks, TasksOf, Unsettled
<1> DEFINE Goal == /\ \A p \in Request \ {q} : step'[p] = "idle"
                   /\ ActiveTasks(target[q])' = {}
                   /\ ~unsettled'[q] =>
                         /\ ~Unsettled(target[q])'
                         /\ op'[q] = "erase" /\ step'[q] # "checked" =>
                               status'[target'[q]] = "deleted"
<1> DEFINE AloneOK == /\ \A p \in Request \ {q} : step[p] = "idle"
                      /\ ActiveTasks(target[q]) = {}
                      /\ ~unsettled[q] =>
                            /\ ~Unsettled(target[q])
                            /\ op[q] = "erase" /\ step[q] # "checked" =>
                                  status[target[q]] = "deleted"
<1>1. ASSUME NEW r \in Resource, Create(r) PROVE FALSE
  BY <1>1 DEF Create, Company
<1>2. ASSUME NEW p \in Request, NEW what \in Ops, NEW r \in Resource, Begin(p, what, r) PROVE Goal
  <2>1. p = q
    BY <1>2 DEF Begin, Company, TypeOK
  <2>2. /\ \A o \in Request \ {q} : step[o] = "idle"
        /\ step'[q] = "checked" /\ target'[q] = r /\ unsettled'[q] = Unsettled(r)
    BY <1>2, <2>1 DEF Begin, Company, TypeOK
  <2>3. ActiveTasks(r) = {} /\ UNCHANGED <<tasks, outcome>>
    BY <1>2 DEF Begin, FindNoActiveTasks
  <2>4. \A o \in Request \ {q} : step'[o] = step[o]
    BY <1>2, <2>1 DEF Begin, TypeOK
  <2>5. QED
    BY <2>2, <2>3, <2>4 DEF ActiveTasks, TasksOf, Unsettled
\* A step of a request: of the one that is alone, for the others are idle.
<1>3. ASSUME NEW p \in Request, step[p] # "idle",
             \A o \in Request \ {p} : step'[o] = step[o] /\ alone'[o] = alone[o]
                                         /\ target'[o] = target[o] /\ op'[o] = op[o],
             alone'[p] = alone[p] \/ step'[p] = "idle"
      PROVE  /\ p = q /\ alone[q] /\ \A o \in Request \ {q} : step'[o] = "idle"
             /\ ActiveTasks(target[q]) = {}
             /\ ~unsettled[q] =>
                   /\ ~Unsettled(target[q])
                   /\ op[q] = "erase" /\ step[q] # "checked" => status[target[q]] = "deleted"
  <2>1. p = q
    BY <1>3 DEF AloneInv
  <2>2. QED
    BY <1>3, <2>1 DEF AloneInv
<1>4. ASSUME NEW p \in Request, step[p] # "idle", EndRequest(p) PROVE FALSE
  <2>1. p = q
    BY <1>3, <1>4, EndSets
  <2>2. QED
    BY <1>4, <2>1, EndSets
<1>5. ASSUME NEW p \in Request, ReadForUpdate(p) \/ ReadForErase(p) PROVE Goal
  <2>1. step[p] = "checked"
    BY <1>5 DEF ReadForUpdate, ReadForErase
  <2>2. /\ step' = [step EXCEPT ![p] = "read"]
        /\ UNCHANGED <<status, tasks, outcome, op, target, alone, unsettled>>
        /\ op[p] = "update" \/ (op[p] = "erase" /\ Erasable(target[p]))
    BY <1>4, <1>5, <2>1 DEF ReadForUpdate, ReadForErase
  <2>3. /\ p = q /\ \A o \in Request \ {q} : step'[o] = "idle"
        /\ ActiveTasks(target[q]) = {}
        /\ ~unsettled[q] => ~Unsettled(target[q])
    BY <1>3, <2>1, <2>2 DEF TypeOK
  <2>4. /\ ActiveTasks(target[q])' = ActiveTasks(target[q])
        /\ Unsettled(target[q])' = Unsettled(target[q])
    BY <2>2 DEF ActiveTasks, TasksOf, Unsettled
  <2>5. QED
    BY <2>2, <2>3, <2>4 DEF Erasable
<1>6. ASSUME NEW p \in Request, EraseTasks(p) PROVE Goal
  <2>1. step[p] = "read" /\ step' = [step EXCEPT ![p] = "emptied"]
    BY <1>6 DEF EraseTasks
  <2>2. UNCHANGED <<status, tasks, outcome, op, target, alone, unsettled>>
    BY <1>6 DEF EraseTasks
  <2>3. /\ p = q /\ \A o \in Request \ {q} : step'[o] = "idle"
        /\ ActiveTasks(target[q]) = {}
        /\ ~unsettled[q] =>
              ~Unsettled(target[q]) /\ (op[q] = "erase" => status[target[q]] = "deleted")
    BY <1>3, <2>1, <2>2 DEF TypeOK
  <2>4. /\ ActiveTasks(target[q])' = ActiveTasks(target[q])
        /\ Unsettled(target[q])' = Unsettled(target[q])
    BY <2>2 DEF ActiveTasks, TasksOf, Unsettled
  <2>5. QED
    BY <2>2, <2>3, <2>4
<1>7. ASSUME NEW p \in Request, CommitUpdate(p) \/ CommitDelete(p) \/ CommitErase(p) PROVE FALSE
  BY <1>4, <1>7 DEF CommitUpdate, CommitDelete, CommitErase
<1>8. ASSUME NEW t \in Task, Take(t) PROVE Goal
  <2>1. UNCHANGED <<status, requests, taskOf, outcome>> /\ taskStatus[t] = "created"
        /\ taskStatus' = [taskStatus EXCEPT ![t] = "running"]
    BY <1>8 DEF Take
  <2>2. AloneOK
    BY <2>1 DEF AloneInv
  <2>3. taskOf[t] # target[q]
    BY <2>1, <2>2 DEF ActiveTasks, TasksOf, TASK_ACTIVE_STATUSES
  <2>4. ActiveTasks(target[q])' = {}
    BY <2>1, <2>2, <2>3 DEF ActiveTasks, TasksOf, TypeOK
  <2>5. Unsettled(target[q])' = Unsettled(target[q])
    BY <2>1 DEF Unsettled, TasksOf
  <2>6. QED
    BY <2>1, <2>2, <2>4, <2>5
<1>9. ASSUME NEW t \in Task, Ends(t) PROVE Goal
  <2>1. /\ UNCHANGED <<taskOf, requests>>
        /\ taskStatus[t] = "running" \/ outcome[t] # "none"
        /\ \A u \in Task \ {t} : taskStatus'[u] = taskStatus[u] /\ outcome'[u] = outcome[u]
        /\ \A r \in Resource \ {taskOf[t]} : status'[r] = status[r]
        /\ taskStatus'[t] \in {"finished", "error", taskStatus[t]}
    BY <1>9, EndsSets
  <2>2. AloneOK /\ target[q] \in Resource
    BY <2>1 DEF AloneInv, UsedInv
  <2>3. ActiveTasks(target[q])' = {}
    BY <2>1, <2>2 DEF ActiveTasks, TasksOf, TASK_ACTIVE_STATUSES
  <2>4. CASE unsettled[q]
    BY <2>1, <2>2, <2>3, <2>4
  <2>5. CASE ~unsettled[q]
    <3>1. taskOf[t] # target[q]
      BY <2>1, <2>2, <2>5 DEF ActiveTasks, TasksOf, TASK_ACTIVE_STATUSES, Unsettled
    <3>2. ~Unsettled(target[q])'
      BY <2>1, <2>2, <2>5, <3>1 DEF TasksOf, Unsettled
    <3>3. QED
      BY <2>1, <2>2, <2>3, <2>5, <3>1, <3>2
  <2>6. QED
    BY <2>4, <2>5
<1>10. CASE UNCHANGED vars
  BY <1>10 DEF vars, AloneInv, ActiveTasks, TasksOf, Unsettled
<1>11. QED
  BY <1>1, <1>2, <1>4, <1>5, <1>6, <1>7, <1>8, <1>9, <1>10 DEF Next, Serve, Ends

-----------------------------------------------------------------------------
LEMMA AbsentStep ==
    ASSUME TypeOK, UsedInv, AbsentInv, [Next]_vars
    PROVE  AbsentInv'
<1> USE DEF tasks, requests, AbsentInv
<1>1. ASSUME NEW q \in Request, EndRequest(q), UNCHANGED <<status, tasks>> PROVE AbsentInv'
  BY <1>1, EndSets
<1>2. ASSUME NEW r \in Resource, Create(r) PROVE AbsentInv'
  <2>1. /\ InsertTask(r, "create") /\ UNCHANGED <<step, target>>
        /\ status' = [status EXCEPT ![r] = "created"]
    BY <1>2 DEF Create
  <2>2. QED
    BY <2>1, InsertSets DEF TypeOK
<1>3. ASSUME NEW q \in Request, NEW what \in Ops, NEW r \in Resource, Begin(q, what, r) PROVE AbsentInv'
  BY <1>3 DEF Begin, TypeOK
<1>4. ASSUME NEW q \in Request, ReadForUpdate(q) \/ ReadForErase(q) PROVE AbsentInv'
  <2>1. CASE EndRequest(q)
    BY <1>1, <1>4, <2>1 DEF ReadForUpdate, ReadForErase
  <2>2. CASE step' = [step EXCEPT ![q] = "read"] /\ UNCHANGED target
    BY <1>4, <2>2 DEF ReadForUpdate, ReadForErase, TypeOK
  <2>3. QED
    BY <1>4, <2>1, <2>2 DEF ReadForUpdate, ReadForErase
<1>5. ASSUME NEW q \in Request, NEW what, InsertTask(target[q], what), EndRequest(q),
             step[q] # "idle", UNCHANGED status
      PROVE  AbsentInv'
  <2>1. target[q] \in Resource /\ status[target[q]] # "absent"
    BY <1>5 DEF UsedInv
  <2>2. \A t \in Task : taskStatus'[t] # "absent" =>
            taskOf'[t] = target[q] \/ (taskStatus[t] # "absent" /\ taskOf'[t] = taskOf[t])
    BY <1>5, <2>1, InsertSets
  <2>3. QED
    BY <1>5, <2>1, <2>2, EndSets
<1>6. ASSUME NEW q \in Request, CommitUpdate(q) \/ CommitDelete(q) PROVE AbsentInv'
  BY <1>1, <1>5, <1>6 DEF CommitUpdate, CommitDelete
<1>7. ASSUME NEW q \in Request, EraseTasks(q) PROVE AbsentInv'
  BY <1>7 DEF EraseTasks, TypeOK
<1>8. ASSUME NEW q \in Request, CommitErase(q) PROVE AbsentInv'
  <2>1. CASE UNCHANGED <<status, tasks>>
    BY <1>1, <1>8, <2>1 DEF CommitErase
  <2>2. CASE /\ taskStatus' = [t \in Task |-> IF t \in doomed[q] THEN "erased" ELSE taskStatus[t]]
             /\ Erase(Named(q) \cup CascadeFrom(target[q]))
             /\ UNCHANGED <<taskOf, action>>
    <3>1. \A t \in Task : taskStatus'[t] = "absent" <=> taskStatus[t] = "absent"
      BY <2>2 DEF UsedInv
    <3>2. \A r \in Resource : status'[r] = "absent" => status[r] = "absent"
      BY <2>2 DEF Erase
    <3>3. QED
      BY <1>8, <2>2, <3>1, <3>2, EndSets DEF CommitErase
  <2>3. QED
    BY <1>8, <2>1, <2>2 DEF CommitErase
<1>9. ASSUME NEW t \in Task, Take(t) PROVE AbsentInv'
  BY <1>9 DEF Take, TypeOK
<1>10. ASSUME NEW t \in Task, Ends(t) PROVE AbsentInv'
  <2>1. /\ UNCHANGED <<taskOf, requests>> /\ taskStatus[t] # "absent"
        /\ \A u \in Task \ {t} : taskStatus'[u] = taskStatus[u]
        /\ \A r \in Resource : status'[r] = status[r] \/ status'[r] \notin Gone
    BY <1>10, EndsSets
  <2>2. QED
    BY <2>1 DEF Gone
<1>11. CASE UNCHANGED vars
  BY <1>11 DEF vars
<1>12. QED
  BY <1>2, <1>3, <1>4, <1>6, <1>7, <1>8, <1>9, <1>10, <1>11 DEF Next, Serve, Ends

LEMMA InsertingFinite ==
    ASSUME NEW r
    PROVE  IsFiniteSet(Inserting(r)) /\ Cardinality(Inserting(r)) \in Nat
  BY ResourceAssumption, FS_Subset, FS_CardinalityType DEF Inserting

\* With fewer active tasks and fewer requests the bound still holds.
LEMMA FewerActive ==
    ASSUME LeakInv, NEW r \in Resource,
           ActiveTasks(r)' \subseteq ActiveTasks(r), Inserting(r)' \subseteq Inserting(r)
    PROVE  /\ IsFiniteSet(ActiveTasks(r)')
           /\ Cardinality(ActiveTasks(r)') + Cardinality(Inserting(r)') <= Cardinality(Request)
<1>1. /\ IsFiniteSet(ActiveTasks(r)') /\ Cardinality(ActiveTasks(r)') \in Nat
      /\ Cardinality(ActiveTasks(r)') <= Cardinality(ActiveTasks(r))
      /\ Cardinality(ActiveTasks(r)) \in Nat
  BY FS_Subset, FS_CardinalityType DEF LeakInv
<1>2. /\ IsFiniteSet(Inserting(r)') /\ Cardinality(Inserting(r)') \in Nat
      /\ Cardinality(Inserting(r)') <= Cardinality(Inserting(r))
  BY InsertingFinite, FS_Subset, FS_CardinalityType
<1>3. Cardinality(Request) \in Nat
  BY ResourceAssumption, FS_CardinalityType
<1>4. QED
  BY <1>1, <1>2, <1>3, InsertingFinite DEF LeakInv

\* A request begins where no task is active; when it inserts its task it is no
\* longer counted itself.
LEMMA LeakStep ==
    ASSUME TypeOK, UsedInv, AbsentInv, LeakInv, [Next]_vars
    PROVE  LeakInv'
<1> USE DEF tasks, requests
<1> SUFFICES ASSUME NEW r \in Resource
             PROVE  /\ IsFiniteSet(ActiveTasks(r)')
                    /\ Cardinality(ActiveTasks(r)') + Cardinality(Inserting(r)') <= Cardinality(Request)
  BY DEF LeakInv, ActiveTasks, TasksOf, Inserting
<1> DEFINE Bounded == /\ IsFiniteSet(ActiveTasks(r)')
                      /\ Cardinality(ActiveTasks(r)') + Cardinality(Inserting(r)')
                            <= Cardinality(Request)
<1>0. /\ IsFiniteSet(Inserting(r)') /\ Cardinality(Inserting(r)') \in Nat
      /\ Cardinality(Inserting(r)') <= Cardinality(Request)
      /\ Cardinality(Request) \in Nat
  BY ResourceAssumption, FS_Subset, FS_CardinalityType DEF Inserting
<1>1. ASSUME NEW q \in Request, EndRequest(q), UNCHANGED tasks PROVE Bounded
  <2>1. Inserting(r)' \subseteq Inserting(r)
    BY <1>1, EndSets DEF Inserting
  <2>2. QED
    BY <1>1, <2>1, FewerActive DEF ActiveTasks, TasksOf
\* A new active task and who inserted it.
<1>2. ASSUME NEW t \in Task, taskStatus[t] = "absent", taskOf'[t] = r,
             \A u \in Task \ {t} : taskStatus'[u] = taskStatus[u] /\ taskOf'[u] = taskOf[u]
      PROVE  /\ IsFiniteSet(ActiveTasks(r)')
             /\ Cardinality(ActiveTasks(r)') <= Cardinality(ActiveTasks(r)) + 1
             /\ Cardinality(ActiveTasks(r)') \in Nat /\ Cardinality(ActiveTasks(r)) \in Nat
  <2>1. ActiveTasks(r)' \subseteq ActiveTasks(r) \cup {t}
    BY <1>2 DEF ActiveTasks, TasksOf
  <2>2. t \notin ActiveTasks(r)
    BY <1>2 DEF ActiveTasks, TASK_ACTIVE_STATUSES
  <2>3. /\ IsFiniteSet(ActiveTasks(r) \cup {t})
        /\ Cardinality(ActiveTasks(r) \cup {t}) = Cardinality(ActiveTasks(r)) + 1
        /\ Cardinality(ActiveTasks(r)) \in Nat
    BY <2>2, FS_AddElement, FS_CardinalityType DEF LeakInv
  <2>4. QED
    BY <2>1, <2>3, FS_Subset, FS_CardinalityType
<1>3. ASSUME NEW s \in Resource, Create(s) PROVE Bounded
  <2>1. InsertTask(s, "create") /\ UNCHANGED <<op, target, step>> /\ status[s] = "absent"
    BY <1>3 DEF Create
  <2>2. PICK t \in Task :
            /\ taskStatus[t] = "absent" /\ taskOf'[t] = s
            /\ \A u \in Task \ {t} : taskStatus'[u] = taskStatus[u] /\ taskOf'[u] = taskOf[u]
    BY <2>1, InsertSets
  <2>3. Inserting(r)' = Inserting(r)
    BY <2>1 DEF Inserting
  <2>4. CASE r = s
    <3>1. ActiveTasks(r) = {} /\ Inserting(r) = {}
      BY <2>1, <2>4 DEF AbsentInv, ActiveTasks, TasksOf, TASK_ACTIVE_STATUSES, Inserting
    <3>2. Cardinality(Request) # 0
      BY ResourceAssumption, FS_EmptySet
    <3>3. QED
      BY <1>0, <1>2, <2>2, <2>3, <2>4, <3>1, <3>2, FS_EmptySet
  <2>5. CASE r # s
    <3>1. ActiveTasks(r)' \subseteq ActiveTasks(r)
      BY <2>2, <2>5 DEF ActiveTasks, TasksOf
    <3>2. QED
      BY <2>3, <3>1, FewerActive
  <2>6. QED
    BY <2>4, <2>5
<1>4. ASSUME NEW q \in Request, NEW what \in Ops, NEW s \in Resource, Begin(q, what, s) PROVE Bounded
  <2>1. UNCHANGED tasks /\ ActiveTasks(s) = {}
    BY <1>4 DEF Begin, FindNoActiveTasks
  <2>2. ActiveTasks(r)' = ActiveTasks(r)
    BY <2>1 DEF ActiveTasks, TasksOf
  <2>3. CASE r = s
    BY <1>0, <2>1, <2>2, <2>3, FS_EmptySet
  <2>4. CASE r # s
    <3>1. Inserting(r)' \subseteq Inserting(r)
      BY <1>4, <2>4 DEF Begin, Inserting, TypeOK
    <3>2. QED
      BY <2>2, <3>1, FewerActive
  <2>5. QED
    BY <2>3, <2>4
<1>5. ASSUME NEW q \in Request, ReadForUpdate(q) \/ ReadForErase(q) \/ EraseTasks(q) PROVE Bounded
  <2>1. CASE EndRequest(q)
    BY <1>1, <1>5, <2>1 DEF ReadForUpdate, ReadForErase, EraseTasks
  <2>2. CASE /\ step[q] # "idle"
             /\ \A p \in Request \ {q} : step'[p] = step[p]
             /\ UNCHANGED <<op, target, tasks>>
    <3>1. Inserting(r)' \subseteq Inserting(r)
      BY <2>2 DEF Inserting
    <3>2. QED
      BY <2>2, <3>1, FewerActive DEF ActiveTasks, TasksOf
  <2>3. QED
    BY <1>5, <2>1, <2>2 DEF ReadForUpdate, ReadForErase, EraseTasks, TypeOK
<1>6. ASSUME NEW q \in Request, NEW what, InsertTask(target[q], what), EndRequest(q),
             step[q] # "idle", op[q] \in {"update", "delete"}
      PROVE  Bounded
  <2>1. target[q] \in Resource
    BY <1>6 DEF UsedInv
  <2>2. PICK t \in Task :
            /\ taskStatus[t] = "absent" /\ taskOf'[t] = target[q]
            /\ \A u \in Task \ {t} : taskStatus'[u] = taskStatus[u] /\ taskOf'[u] = taskOf[u]
    BY <1>6, <2>1, InsertSets
  <2>3. Inserting(r)' \subseteq Inserting(r) \ {q}
    BY <1>6, EndSets DEF Inserting
  <2>4. CASE r = target[q]
    <3>1. q \in Inserting(r)
      BY <1>6, <2>4 DEF Inserting
    <3>2. /\ IsFiniteSet(Inserting(r) \ {q})
          /\ Cardinality(Inserting(r) \ {q}) = Cardinality(Inserting(r)) - 1
      BY <3>1, InsertingFinite, FS_RemoveElement
    <3>3. Cardinality(Inserting(r)') <= Cardinality(Inserting(r)) - 1
      BY <2>3, <3>2, FS_Subset
    <3>4. QED
      BY <1>0, <1>2, <2>2, <2>4, <3>3, InsertingFinite DEF LeakInv
  <2>5. CASE r # target[q]
    <3>1. ActiveTasks(r)' \subseteq ActiveTasks(r)
      BY <2>2, <2>5 DEF ActiveTasks, TasksOf
    <3>2. QED
      BY <2>3, <3>1, FewerActive
  <2>6. QED
    BY <2>4, <2>5
<1>7. ASSUME NEW q \in Request, CommitUpdate(q) \/ CommitDelete(q) PROVE Bounded
  BY <1>1, <1>6, <1>7 DEF CommitUpdate, CommitDelete
<1>8. ASSUME NEW q \in Request, CommitErase(q) PROVE Bounded
  <2>1. /\ EndRequest(q) /\ taskOf' = taskOf
        /\ \A t \in Task : taskStatus'[t] = taskStatus[t] \/ taskStatus'[t] = "erased"
    BY <1>8 DEF CommitErase
  <2>2. ActiveTasks(r)' \subseteq ActiveTasks(r)
    BY <2>1 DEF ActiveTasks, TasksOf, TASK_ACTIVE_STATUSES
  <2>3. Inserting(r)' \subseteq Inserting(r)
    BY <2>1, EndSets DEF Inserting
  <2>4. QED
    BY <2>2, <2>3, FewerActive
<1>9. ASSUME NEW t \in Task, Take(t) \/ Ends(t) PROVE Bounded
  <2>1. /\ UNCHANGED <<taskOf, requests>>
        /\ \/ taskStatus[t] = "created"
           \/ taskStatus'[t] \in {"finished", "error", taskStatus[t]}
        /\ \A u \in Task \ {t} : taskStatus'[u] = taskStatus[u]
    <3>1. CASE Take(t)
      BY <3>1 DEF Take, TypeOK
    <3>2. CASE Ends(t)
      BY <3>2, EndsSets
    <3>3. QED
      BY <1>9, <3>1, <3>2
  <2>2. taskStatus'[t] \in TASK_ACTIVE_STATUSES => taskStatus[t] \in TASK_ACTIVE_STATUSES
    BY <2>1 DEF TASK_ACTIVE_STATUSES
  <2>3. ActiveTasks(r)' \subseteq ActiveTasks(r) /\ Inserting(r)' = Inserting(r)
    BY <2>1, <2>2 DEF ActiveTasks, TasksOf, Inserting
  <2>4. QED
    BY <2>3, FewerActive
<1>10. CASE UNCHANGED vars
  <2>1. ActiveTasks(r)' = ActiveTasks(r) /\ Inserting(r)' = Inserting(r)
    BY <1>10 DEF vars, ActiveTasks, TasksOf, Inserting
  <2>2. QED
    BY <2>1, FewerActive
<1>11. QED
  BY <1>3, <1>4, <1>5, <1>7, <1>8, <1>9, <1>10 DEF Next, Serve, Ends

-----------------------------------------------------------------------------
\* The tables and the requests in progress keep their form.
THEOREM TypeCorrect == Spec => []TypeOK
<1>1. TypeOK /\ UsedInv /\ [Next]_vars => (TypeOK /\ UsedInv)'
  BY TypeStep
<1>2. QED
  BY <1>1, InitUsed, PTL DEF Spec

\* controller.deployment.create and controller.cluster.deletePermanently do not
\* lock the cluster against each other: the foreign key and its cascade keep
\* every deployment with its cluster all the same.
THEOREM DeploymentsKeepTheirCluster == Spec => []DeploymentsHaveTheirCluster
<1>1. Init => DeploymentsHaveTheirCluster
  BY DEF Init, DeploymentsHaveTheirCluster, Present, Gone, Resource
<1>2. /\ TypeOK /\ UsedInv /\ DeploymentsHaveTheirCluster
      /\ [Next]_vars
      => (TypeOK /\ UsedInv /\ DeploymentsHaveTheirCluster)'
  BY TypeStep, ClusterStep
<1>3. QED
  BY <1>1, <1>2, InitUsed, PTL DEF Spec

LEMMA AloneHolds == Spec => [](TypeOK /\ UsedInv /\ AloneInv)
<1>1. Init => AloneInv
  BY DEF Init, AloneInv
<1>2. TypeOK /\ UsedInv /\ AloneInv /\ [Next]_vars => (TypeOK /\ UsedInv /\ AloneInv)'
  BY TypeStep, AloneStep
<1>3. QED
  BY <1>1, <1>2, InitUsed, PTL DEF Spec

\* The check for active tasks of update and delete is exact for a request that
\* has no company, whatever the task processor does meanwhile.
THEOREM LoneRequestsAreSafe == Spec => LoneRequestIsExclusive
<1>1. TypeOK /\ UsedInv /\ AloneInv =>
          [\A q \in Request :
              (CommitUpdate(q) \/ CommitDelete(q)) /\ alone[q] => ActiveTasks(target[q]) = {}]_vars
  BY DEF AloneInv, CommitUpdate, CommitDelete
<1>2. QED
  BY <1>1, AloneHolds, PTL DEF LoneRequestIsExclusive

\* A request that has no company deletes permanently what is still deleted, if
\* the tasks that had ended on it had settled its status when it began: then
\* no task that the processor ends meanwhile brings its resource back.
THEOREM LoneErasesAreSafe == Spec => LoneEraseTakesTheDeleted
<1>1. TypeOK /\ UsedInv /\ AloneInv =>
          [\A q \in Request :
              CommitErase(q) /\ alone[q] =>
                  status[target[q]] = "deleted" \/ unsettled[q]]_vars
  BY DEF AloneInv, CommitErase
<1>2. QED
  BY <1>1, AloneHolds, PTL DEF LoneEraseTakesTheDeleted

\* Two requests may both find no active task and both insert one. The lock
\* leaks by no more than that: never are more tasks active on a resource than
\* there are requests at once.
THEOREM LeakIsBounded == Spec => []ActiveTasksBounded
<1> DEFINE IInv == TypeOK /\ UsedInv /\ AbsentInv /\ LeakInv
<1>1. Init => IInv
  <2> SUFFICES ASSUME Init PROVE IInv
    OBVIOUS
  <2>1. AbsentInv
    BY DEF Init, AbsentInv
  <2>2. ASSUME NEW r \in Resource PROVE ActiveTasks(r) = {} /\ Inserting(r) = {}
    BY DEF Init, ActiveTasks, TasksOf, TASK_ACTIVE_STATUSES, Inserting
  <2>3. Cardinality(Request) \in Nat
    BY ResourceAssumption, FS_CardinalityType
  <2>4. LeakInv
    BY <2>2, <2>3, FS_EmptySet DEF LeakInv
  <2>5. QED
    BY <2>1, <2>4, InitUsed
<1>2. IInv /\ [Next]_vars => IInv'
  BY TypeStep, AbsentStep, LeakStep
<1>3. IInv => ActiveTasksBounded
  <2> SUFFICES ASSUME IInv, NEW r \in Resource
               PROVE  Cardinality(ActiveTasks(r)) <= Cardinality(Request)
    BY DEF ActiveTasksBounded
  <2>1. Cardinality(ActiveTasks(r)) \in Nat /\ Cardinality(Request) \in Nat
    BY ResourceAssumption, FS_CardinalityType DEF LeakInv
  <2>2. QED
    BY <2>1, InsertingFinite DEF LeakInv
<1>4. QED
  BY <1>1, <1>2, <1>3, PTL DEF Spec

=============================================================================

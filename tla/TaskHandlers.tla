---------------------------- MODULE TaskHandlers ----------------------------
(***************************************************************************)
(* The handlers of the deployment tasks: what each step does to the        *)
(* database, to helm and to the namespace.  The steps write in one         *)
(* transaction, which a failure or a crash rolls back and a cancellation   *)
(* commits; what helm and kubectl did stays in any case.  The task         *)
(* processor runs one handler at a time and, after a crash, runs the one   *)
(* that was running again.                                                 *)
(***************************************************************************)
EXTENDS Naturals, Sequences, FiniteSets

CONSTANTS
    Deployment, Task, NoTask, Request,
    Namespace, Version,
    MaxCrashes            \* bound

\* "none" and 0 stand for a namespace and a version that are not there.
ASSUME HandlersAssumption ==
    /\ NoTask \notin Task
    /\ "none" \notin Namespace /\ 0 \notin Version
    /\ MaxCrashes \in Nat

VARIABLES
    deployment,    \* the committed row of each deployment
    keyPairs,      \* deployment -> committed rows named sextantKeypair
    task,          \* the committed row of each task
    request,       \* update and delete requests: the deployment they have checked
    handler,       \* the handler that runs, and its transaction
    release,       \* deployment -> namespace -> what helm has installed there
    publicKey,     \* namespace -> the secret sextant-public-key
    owed,          \* task -> the write of its error to the deployment that is still
                   \* to come: one that the processor awaits, one that it does not
                   \* ("late"), or such a one that is late by a task ("overtaken")
    crashes,
    unsettled,     \* deployments whose last task ended without its status: it was
                   \* cancelled or caught by a crash, or its write is still to come
    faltered,      \* deployments whose creation did not succeed at first
    moved,         \* deployments whose namespace was changed by an update
    assumedGone,   \* deployments taken for deleted though helm failed
    belated        \* deployments whose status is from an overtaken write

db == <<deployment, keyPairs, task>>
world == <<release, publicKey>>
history == <<unsettled, faltered, moved, assumedGone, belated>>
vars == <<db, request, handler, owed, world, crashes, history>>

State == [namespace : Namespace, version : Version]
None == [namespace |-> "none", version |-> 0]
NoKey == <<NoTask, 0>>
\* A key pair is named by the run of a handler that generated it.
KeyPair == Task \X (0..MaxCrashes)

Actions == {"create", "update", "delete"}
CreateSteps ==
    <<"read", "createKeyPair", "connect", "writeValues", "install", "publish", "save">>
UpdateSteps == <<"read", "getOrCreateKeyPair", "connect", "writeValues", "upgrade", "save">>
DeleteSteps == <<"read", "connect", "uninstall", "deleteTheRest">>
Steps == [create |-> CreateSteps, update |-> UpdateSteps, delete |-> DeleteSteps]

Unused == [on |-> "none", action |-> "none", status |-> "unused"]
NoRequest == "none"
NoHandler ==
    [task |-> NoTask, step |-> 0, desired |-> None, namespace |-> "none", key |-> NoKey,
     keyPairs |-> {}, applied |-> None, ended |-> FALSE]

TypeOK ==
    /\ deployment \in [Deployment ->
          [desired : State \cup {None}, applied : State \cup {None},
           status : {"absent", "created", "provisioned", "error", "deleted"}]]
    /\ keyPairs \in [Deployment -> SUBSET KeyPair]
    /\ task \in [Task ->
          [on : Deployment, action : Actions,
           status : {"created", "running", "cancelling", "finished", "cancelled", "error"}]
             \cup {Unused}]
    /\ request \in [Request -> Deployment \cup {NoRequest}]
    /\ handler \in
          [task : Task, step : 1..8, desired : State \cup {None},
           namespace : Namespace \cup {"none"}, key : KeyPair \cup {NoKey},
           keyPairs : SUBSET KeyPair,            \* inserted in the transaction
           applied : State \cup {None},          \* updated in the transaction
           ended : BOOLEAN]                      \* the task is recorded as finished
             \cup {NoHandler}
    /\ release \in [Deployment -> [Namespace -> Version \cup {0}]]
    /\ publicKey \in [Namespace -> KeyPair \cup {NoKey}]
    /\ owed \in [Task -> {"none", "awaited", "late", "overtaken"}]
    /\ crashes \in 0..MaxCrashes
    /\ {unsettled, faltered, moved, assumedGone, belated} \subseteq SUBSET Deployment

Init ==
    /\ deployment = [d \in Deployment |-> [desired |-> None, applied |-> None, status |-> "absent"]]
    /\ keyPairs = [d \in Deployment |-> {}]
    /\ task = [t \in Task |-> Unused]
    /\ request = [q \in Request |-> NoRequest]
    /\ handler = NoHandler
    /\ release = [d \in Deployment |-> [n \in Namespace |-> 0]]
    /\ publicKey = [n \in Namespace |-> NoKey]
    /\ crashes = 0
    /\ owed = [t \in Task |-> "none"]
    /\ unsettled = {} /\ faltered = {} /\ moved = {} /\ assumedGone = {} /\ belated = {}

Active(d) ==
    \E t \in Task : task[t].on = d /\ task[t].status \in {"created", "running", "cancelling"}

-----------------------------------------------------------------------------
(* Requests: what they save and the task they insert commit together. *)

InsertTask(d, action) ==
    \E t \in Task :
        /\ task[t] = Unused
        /\ task' = [task EXCEPT ![t] = [on |-> d, action |-> action, status |-> "created"]]

Create(d) ==
    /\ deployment[d].status = "absent"
    /\ \E s \in State :
          deployment' = [deployment EXCEPT ![d] =
              [desired |-> s, applied |-> None, status |-> "created"]]
    /\ InsertTask(d, "create")
    /\ UNCHANGED <<keyPairs, request, handler, owed, world, crashes, history>>

\* update and del begin alike.
FindNoActiveTasks(q, d) ==
    /\ request[q] = NoRequest
    /\ deployment[d].status # "absent" /\ ~Active(d)
    /\ request' = [request EXCEPT ![q] = d]
    /\ UNCHANGED <<db, handler, owed, world, crashes, history>>

\* The row is locked from saveAppliedState to the end of the transaction.
Locked(d) == handler # NoHandler /\ task[handler.task].on = d /\ handler.applied # None

Update(q) ==
    LET d == request[q] IN
    /\ d # NoRequest /\ ~Locked(d)
    /\ \E s \in State :
          /\ deployment' = [deployment EXCEPT ![d].desired = s]
          /\ moved' = IF s.namespace # deployment[d].desired.namespace
                      THEN moved \cup {d} ELSE moved
    /\ InsertTask(d, "update")
    /\ request' = [request EXCEPT ![q] = NoRequest]
    /\ UNCHANGED <<keyPairs, handler, owed, world, crashes, unsettled, faltered, assumedGone, belated>>

Delete(q) ==
    /\ request[q] # NoRequest
    /\ InsertTask(request[q], "delete")
    /\ request' = [request EXCEPT ![q] = NoRequest]
    /\ UNCHANGED <<deployment, keyPairs, handler, owed, world, crashes, history>>

-----------------------------------------------------------------------------
(* The processor, as far as a handler can see it. *)

\* A task that was running when the process died is taken before any other; a
\* late write of the task before is not waited for.
Take(t) ==
    /\ handler = NoHandler /\ \A x \in Task : owed[x] # "awaited"
    /\ IF \E x \in Task : task[x].status = "running"
       THEN task[t].status = "running" ELSE task[t].status = "created"
    /\ task' = [task EXCEPT ![t].status = "running"]
    /\ handler' = [NoHandler EXCEPT !.task = t, !.step = 1]
    /\ owed' = [x \in Task |-> IF owed[x] = "late" /\ task[x].on = task[t].on
                              THEN "overtaken" ELSE owed[x]]
    /\ UNCHANGED <<deployment, keyPairs, request, world, crashes, history>>

Cancel(t) ==
    /\ task[t].status = "running"
    /\ task' = [task EXCEPT ![t].status = "cancelling"]
    /\ UNCHANGED <<deployment, keyPairs, request, handler, owed, world, crashes, history>>

Mine == task[handler.task]
Subject == Mine.on

\* onStep has found that the task is not cancelled; the handler's next step.
At(step) ==
    /\ handler # NoHandler /\ Mine.status = "running" /\ ~handler.ended
    /\ handler.step <= Len(Steps[Mine.action])
    /\ Steps[Mine.action][handler.step] = step

Then(h) == handler' = [h EXCEPT !.step = @ + 1]

\* The transaction commits; the status is its last write.
CommitWrites(status) ==
    /\ keyPairs' = [keyPairs EXCEPT ![Subject] = @ \cup handler.keyPairs]
    /\ deployment' = [deployment EXCEPT
          ![Subject].applied = IF handler.applied = None THEN @ ELSE handler.applied,
          ![Subject].status = status]

\* Return, first half: the task is finished at once, whatever becomes of the
\* transaction.  A cancel request that came too late is overwritten.
RecordEnd ==
    /\ handler # NoHandler /\ ~handler.ended
    /\ Mine.status = "running" /\ handler.step > Len(Steps[Mine.action])
    /\ task' = [task EXCEPT ![handler.task].status = "finished"]
    /\ handler' = [handler EXCEPT !.ended = TRUE]
    /\ UNCHANGED <<deployment, keyPairs, request, owed, world, crashes, history>>

\* Mutant of Completed: the task's status is taken for the deployment's.
CompletedAsTask == "finished"

\* task.resource_status.completed, as the controllers set it.
Completed == IF Mine.action = "delete" THEN "deleted" ELSE "provisioned"

\* Second half: the status joins the handler's writes.
Commit ==
    /\ handler # NoHandler /\ handler.ended
    /\ CommitWrites(Completed)
    /\ handler' = NoHandler
    /\ unsettled' = unsettled \ {Subject}
    /\ assumedGone' = assumedGone \ {Subject}
    /\ belated' = belated \ {Subject}
    /\ UNCHANGED <<task, request, owed, world, crashes, faltered, moved>>

Falter == faltered' = IF Mine.action = "create" THEN faltered \cup {Subject} ELSE faltered

\* Before a step, or after the last: the writes made so far commit, the status
\* stays.
EndCancelled ==
    /\ handler # NoHandler /\ ~handler.ended /\ Mine.status = "cancelling"
    /\ task' = [task EXCEPT ![handler.task].status = "cancelled"]
    /\ CommitWrites(deployment[Subject].status)
    /\ handler' = NoHandler
    /\ unsettled' = unsettled \cup {Subject}
    /\ Falter
    /\ UNCHANGED <<request, owed, world, crashes, moved, assumedGone, belated>>

\* Mutant of Owes: whatever fails in a delete counts as deleted.
OwesLate(error) == IF Mine.action = "delete" THEN "late" ELSE "awaited"

\* deploymentDeleteError: a cluster out of reach and a release that is not
\* there count as deleted, by a write that it does not await.
Owes(error) ==
    IF Mine.action = "delete" /\ error \in {"unreachable", "notFound"} THEN "late" ELSE "awaited"

\* The step throws: its transaction is rolled back, and errorTask records the
\* error before it turns to the deployment.
Fail(error) ==
    /\ task' = [task EXCEPT ![handler.task].status = "error"]
    /\ owed' = [owed EXCEPT ![handler.task] = Owes(error)]
    /\ handler' = NoHandler
    /\ unsettled' = unsettled \cup {Subject}
    /\ assumedGone' = IF error = "unreachable" /\ Mine.action = "delete"
                      THEN assumedGone \cup {Subject} ELSE assumedGone \ {Subject}
    /\ Falter
    /\ UNCHANGED <<deployment, keyPairs, request, crashes, moved, belated>>

\* Mutant of StatusOnError: an update that fails leaves the status alone.
StatusOnErrorKept(t) ==
    IF task[t].action = "update" THEN deployment[task[t].on].status
    ELSE IF owed[t] = "awaited" THEN "error" ELSE "deleted"

StatusOnError(t) == IF owed[t] = "awaited" THEN "error" ELSE "deleted"

\* The resource updater's write, in no transaction.
UpdateResource(t) ==
    LET d == task[t].on IN
    /\ owed[t] # "none" /\ ~Locked(d)
    /\ deployment' = [deployment EXCEPT ![d].status = StatusOnError(t)]
    /\ owed' = [owed EXCEPT ![t] = "none"]
    /\ unsettled' = unsettled \ {d}
    /\ belated' = IF owed[t] = "overtaken" THEN belated \cup {d} ELSE belated \ {d}
    /\ UNCHANGED <<keyPairs, task, request, handler, world, crashes, faltered, moved, assumedGone>>

\* The process dies: a task that was cancelling is never taken up again, one
\* that was recorded as finished never gets its status, and the writes still to
\* come are lost.  The death of an idle process is nothing but requests that do
\* not go on.
Crash ==
    /\ handler # NoHandler \/ \E t \in Task : owed[t] # "none"
    /\ crashes < MaxCrashes
    /\ crashes' = crashes + 1
    /\ request' = [q \in Request |-> NoRequest]
    /\ handler' = NoHandler
    /\ owed' = [t \in Task |-> "none"]
    /\ unsettled' = IF handler.ended THEN unsettled \cup {Subject} ELSE unsettled
    /\ IF handler # NoHandler THEN Falter ELSE UNCHANGED faltered
    /\ UNCHANGED <<db, world, moved, assumedGone, belated>>

-----------------------------------------------------------------------------
(* The steps of the handlers. *)

\* Where getBestNamespace looks: in the applied state before the desired one.
BestNamespace(row) ==
    IF row.applied # None THEN row.applied.namespace ELSE row.desired.namespace

\* store.deployment.get, store.cluster.get and deploymentToHelmRelease.
Read ==
    /\ At("read")
    /\ Then([handler EXCEPT !.desired = deployment[Subject].desired,
                            !.namespace = BestNamespace(deployment[Subject])])
    /\ UNCHANGED <<db, request, owed, world, crashes, history>>

\* Mutant of WithNewKeyPair: nobody waits for the key pair.
WithKeyPairLater(h) == [h EXCEPT !.keyPairs = @ \cup {<<h.task, crashes>>}]

\* KeyPair.create: a new row, whether there is one or not.
WithNewKeyPair(h) ==
    [h EXCEPT !.key = <<h.task, crashes>>, !.keyPairs = @ \cup {<<h.task, crashes>>}]

CreateKeyPair ==
    /\ At("createKeyPair")
    /\ Then(WithNewKeyPair(handler))
    /\ UNCHANGED <<db, request, owed, world, crashes, history>>

\* Mutant of Lacks: the key pair of an update is not looked for.
LacksAlways(d) == TRUE

\* KeyPair.get finds nothing.
Lacks(d) == keyPairs[d] = {}

\* KeyPair.getOrCreate, which update does not await: its statements are queued
\* on the connection of the transaction ahead of all that follow.
GetOrCreateKeyPair ==
    /\ At("getOrCreateKeyPair")
    /\ Then(IF Lacks(Subject) THEN WithNewKeyPair(handler) ELSE handler)
    /\ UNCHANGED <<db, request, owed, world, crashes, history>>

\* getKubectlForCluster needs the secrets of the cluster.
Connect ==
    /\ At("connect")
    /\ \/ Then(handler) /\ UNCHANGED <<db, request, owed, crashes, history>>
       \/ Fail("other")
    /\ UNCHANGED world

\* The chart is looked up and the values are written to a temporary file.
WriteValues ==
    /\ At("writeValues")
    /\ \/ Then(handler) /\ UNCHANGED <<db, request, owed, crashes, history>>
       \/ Fail("other")
    /\ UNCHANGED world

Installed == release[Subject][handler.namespace]
Helm(v) == release' = [release EXCEPT ![Subject][handler.namespace] = v]

\* helm install refuses a name that is in use; one that fails may leave its
\* release behind.
Install ==
    /\ At("install")
    /\ \/ /\ Installed = 0 /\ Helm(handler.desired.version)
          /\ \/ Then(handler) /\ UNCHANGED <<db, request, owed, crashes, history>>
             \/ Fail("other")
       \/ Fail("other") /\ UNCHANGED release
    /\ UNCHANGED publicKey

\* helm upgrade --install
Upgrade ==
    /\ At("upgrade")
    /\ \/ /\ Helm(handler.desired.version)
          /\ \/ Then(handler) /\ UNCHANGED <<db, request, owed, crashes, history>>
             \/ Fail("other")
       \/ Fail("other") /\ UNCHANGED release
    /\ UNCHANGED publicKey

\* "If the secret exists, continue. If not, create it."
PublishKey ==
    /\ At("publish")
    /\ \/ /\ publicKey' = IF publicKey[handler.namespace] # NoKey THEN publicKey
                          ELSE [publicKey EXCEPT ![handler.namespace] = handler.key]
          /\ Then(handler) /\ UNCHANGED <<db, request, owed, crashes, history>>
       \/ Fail("other") /\ UNCHANGED publicKey
    /\ UNCHANGED release

\* saveAppliedState reads desired_state again, as it is by now.
Applicable(d) == deployment[d].desired

SaveAppliedState ==
    /\ At("save")
    /\ Then([handler EXCEPT !.applied = Applicable(Subject)])
    /\ UNCHANGED <<db, request, owed, world, crashes, history>>

\* helm uninstall
Uninstall ==
    /\ At("uninstall")
    /\ \/ /\ Installed # 0 /\ Helm(0)
          /\ \/ Then(handler) /\ UNCHANGED <<db, request, owed, crashes, history>>
             \/ Fail("other")
       \/ Installed = 0 /\ Fail("notFound") /\ UNCHANGED release
       \/ \E error \in {"unreachable", "other"} : Fail(error) /\ UNCHANGED release
    /\ UNCHANGED publicKey

\* A config map, a namespace or a cluster that is not there is no error.
DeleteTheRest ==
    /\ At("deleteTheRest")
    /\ \/ Then(handler) /\ UNCHANGED <<db, request, owed, crashes, history>>
       \/ Fail("other")
    /\ UNCHANGED world

Step ==
    \/ Read \/ CreateKeyPair \/ GetOrCreateKeyPair \/ Connect \/ WriteValues
    \/ Install \/ Upgrade \/ PublishKey \/ SaveAppliedState \/ Uninstall \/ DeleteTheRest

Next ==
    \/ \E d \in Deployment : Create(d)
    \/ \E q \in Request :
          \/ \E d \in Deployment : FindNoActiveTasks(q, d)
          \/ Update(q) \/ Delete(q)
    \/ \E t \in Task : Take(t) \/ Cancel(t) \/ UpdateResource(t)
    \/ Step \/ RecordEnd \/ Commit \/ EndCancelled \/ Crash

Spec == Init /\ [][Next]_vars

-----------------------------------------------------------------------------
Settled(d) == ~Active(d) /\ d \notin unsettled /\ handler = NoHandler

\* A deployment that is shown as provisioned runs what its applied state says,
\* in the namespace it says, although the handler installs one reading of the
\* desired state and saves another.
ProvisionedIsInstalled ==
    \A d \in Deployment \ moved :
        Settled(d) /\ deployment[d].status = "provisioned" =>
            LET applied == deployment[d].applied IN
            applied # None /\ release[d][applied.namespace] = applied.version

\* A deployment that is shown as deleted has left nothing behind, with two
\* exceptions: its cluster could not be reached, or the write that shows it,
\* which nobody waited for, came after another task of the deployment had begun.
\* One that never moved is in one place at most.
DeletedIsGone ==
    \A d \in Deployment \ moved :
        /\ Cardinality({n \in Namespace : release[d][n] # 0}) <= 1
        /\ Settled(d) /\ deployment[d].status = "deleted" =>
              d \in assumedGone \cup belated \/ \A n \in Namespace : release[d][n] = 0

\* A deployment has one key pair at most, and has it when it is provisioned,
\* although nothing in the database keeps a second row out.
OneKeyPair ==
    \A d \in Deployment :
        /\ Cardinality(keyPairs[d]) <= 1
        /\ deployment[d].status = "provisioned" => keyPairs[d] # {}

\* While no deployment was moved: where all deployments of a namespace were
\* created without a failure, the first of them finds its own public key there.
FirstKeyIsPublished ==
    moved = {} => \A n \in Namespace :
        LET here == {d \in Deployment : deployment[d].desired.namespace = n}
            created == {d \in here : deployment[d].status # "created"}
        IN created # {} /\ here \cap faltered = {} =>
              \E d \in created : keyPairs[d] = {publicKey[n]}

=============================================================================

# A verification project for sextant-api

Sextant provisions Kubernetes clusters and installs blockchain deployments on
them with helm. Its API process serves HTTP requests, runs one background worker
(the task processor) and two scheduled jobs, and keeps everything in PostgreSQL.
This directory holds TLA+ modules of the parts that carry its own logic, the TLC
configurations that check them on small instances, and TLAPS proofs of their
safety properties for instances of any size.

    tlc -config MCTaskProcessor.cfg MCTaskProcessor      # check a run
    tlapm TaskProcessorProofs.tla                        # check the proofs

## The system

| Component | State it keeps | Operations | Talks to |
|---|---|---|---|
| Controllers (`controller/cluster.ts`, `controller/deployment.js`) | none between requests; a transaction each | create, update, delete, deletePermanently, roles | task, cluster, deployment, role and secret tables |
| Task processor (`tasks/taskprocessor.ts`) | the list it is working through, the task in hand, its open transaction | start, restartTasks, controlLoop, runTask, completeTask, errorTask | task table (outside the transaction), cluster and deployment tables (inside it) |
| Task runner (`tasks/task.js`) | a stack of generators, the last value, a cancelled flag | run, cancel | the handler it drives, `onStep` of the processor |
| Task handlers (`tasks/cluster`, `tasks/deployment`) | local variables of a generator | one per action | kubectl, helm, the store |
| Resource updaters (`tasks/resource_updaters`) | none | one per action, on error | cluster and deployment tables |
| Cluster status job (`jobs/ClusterStatusTracker.ts`) | the list loaded at its start | run, ping, updateClusterStatus | Kubernetes API servers, cluster table |
| Deployment status job (`jobs/pollUtils.ts`, `store/deployment.ts`) | a release list per deployment | poll, updateStatus | helm, deployment table |
| Store (`store/`) | the tables | one class per table | knex and PostgreSQL |
| Router (`router/`) | none | sixty routes, each with a guard and a handler | access control, controllers |
| Access control (`rbac.ts`, `controller/createRole.ts`, `controller/user.ts`) | role and user tables; the user a request came in with | decide, grant, revoke, create, update, delete users | every route |
| Forms (`forms/`, `router/cluster.ts`) | none | which schema a cluster form fits, which handler it reaches | cluster controller |
| Cluster secrets (`utils/cluster.ts`, `store/cluster*.ts`) | secret rows, ids of them in two state columns | extract, create, point, update, choose credentials | controllers, handlers, kubectl |
| Key pairs (`utils/sextantKeyPair.ts`) | rows of deploymentsecret | create, get or create | deployment handlers |
| Kubernetes and helm clients (`utils/`) | a temporary directory | get, apply, helm install / upgrade / uninstall, port forward | the clusters |
| DAML and Taekion APIs (`api/`) | connections cached per deployment and label, forwarded ports | one sequence of awaited calls per request | pods of a deployment |
| Helm charts, metering | files; a job each | pull at start-up; report | chart repositories, AWS |

A request inserts a task in the transaction that changes its resource. The
processor polls for created tasks twice a second, newest first, marks one running,
opens a transaction, and runs its handler step by step, asking before each step
whether the task was cancelled. At the end it marks the task (at once) and the
resource (when the transaction commits). The jobs write the status columns too,
without a task and without a transaction.

What is hard in it:

- *Two columns tell one story.* The task's end and the resource's status are
  written one after the other, by different connections, and a crash, a failed
  commit or an unawaited write can come between them.
- *Checks that are not locks.* Active tasks, names, statuses and roles are
  selected first and relied upon later, under READ COMMITTED.
- *Several writers of `status`.* Processor, controllers, overlapping runs of the
  two jobs; a decision is taken on a row that has changed by the time it is written.
- *Restarts as a normal event.* An unhandled rejection ends the process, and
  several paths have one; what was in memory is lost, and tasks found running are
  resumed or failed.
- *Cancellation* that may arrive before, during or after any step, and commits what
  the steps before it wrote.
- *Effects outside the transaction.* What helm and kubectl did stays when the
  database rolls back; so does the one write that is not given the transaction.
- *A user as of the start of a request.* What RBAC decided on may have changed when
  the handler acts.
- *Caches that are cleared by timeouts only*, beside edits that change what is cached.

What makes the components correct: the processor runs one task at a time, loses
none, repeats none except after a restart, and leaves each resource with the
status its last task explains; the runner neither skips nor repeats steps and
heeds a cancellation within one; the controllers keep at most one task on a
resource (they do so only without overlap) and never leave a deployment without
its cluster; the jobs write only what they found, to rows they may write to; what a
deployment shows as provisioned is what helm has installed, and it has one key pair;
a reader changes nothing, and a superuser is left; an edit of a cluster keeps the
credentials it does not give, unless the task that was to apply them failed; stale connections and forwarded ports go away.
`PROJECT.json` lists the hazards with their lines.

## The modules

| Module | Models | Correspondence |
|---|---|---|
| `Enumerations` | `config.ts` | statuses, actions, the status a completed action gives |
| `TaskLifecycle` | what the task table promises | abstract: the life of a row, whoever produces it |
| `TaskProcessor` | `taskprocessor.ts`, `resource_updaters/`, `store/task.ts` | `phase` is where `start` is, `batch` and `errBatch` the lists of the two `bluebird.each` of restartTasks (the first also that of controlLoop), `cur`/`stage`/`yields`/`cancelled`/`thrown` the locals of runTask, `errCur` those of errorTask at restart, `late` the write nobody awaits. Every await that another actor can interleave with separates two actions |
| `TaskRunner` | `tasks/task.js` | `iterators`, `lastValue`, `cancelled` as in the code; `control` is where the innermost call of `next` is and `frames` the callers left behind by finished inner generators. `CancelItself` is the `cancel` function given to handlers |
| `ClusterStatusTracker` | `jobs/ClusterStatusTracker.ts` | per run: `todo` is the rest of the list as loaded, `pointed` which of those had credentials, `pinging`/`was`/`verdict` the locals of ping; `keyed` and `applied` are the clusters with credentials to use and with applied pointers to them |
| `DeploymentStatusPoll` | `jobs/pollUtils.ts`, `DeploymentStore.updateStatus` | per poll and deployment: `stage` is the await it is at (helm reads, its answer is on its way, the select, the update), `seen`/`stamp` the processed helm response, `since` the hour it is compared with; `hour` is what currentHour() returns. Stamp and hour are taken in one step, since the code has no await between them |
| `ResourceControllers` | the two controllers | per request: `op`/`target`, `step` the last select, `listed` the deployments found, `doomed` the tasks already deleted. The processor is reduced to taking and ending tasks, but its two writes stay two: `outcome` is the write to the resource that a task which has ended still owes |
| `TaskHandlers` | `tasks/deployment/`, `utils/sextantKeyPair.ts`, `saveAppliedState.ts`, the namespace of `deploymentNames.ts`, and the deployment requests that feed them | `handler` is the generator: `step` its next yield in `Steps`, `desired`/`namespace` what it read, `key` the pair it has, `keyPairs`/`applied` what its transaction has written. `release` and `publicKey` are helm and the namespace, which no transaction covers. The processor is reduced to taking, ending, cancelling, failing and resuming; `owed` is the write of an error to the deployment, which comes after the one to the task and may be one that nobody waits for |
| `Routes` | `router/index.js` | a set of routes: verb, guard (resource type and method), handler |
| `AccessControl` | `rbac.ts`, `controller/createRole.ts`, `controller/user.ts`, `store/role.ts`, the handlers of `router/user.js` | `METHOD_CONFIG` is the table; per request: `as` is req.user as it was loaded, `found` whether its selects have been made, `row` and `first` what they returned |
| `ClusterForms` | `forms/schema/cluster.ts`, `router/cluster.ts` | a form is its type and the fields it gives |
| `ClusterSecrets` | the cluster controller's edits, `utils/cluster.ts`, `store/clusterfile.ts`, the choice of credentials in `utils/kubectl.ts`, the cluster tasks | `cluster` has the three columns, `secret` the rows, `edit` the edits between their reads and their writes, `worker` the cluster task in hand. Part of `Connections`, which composes it with the requests that use the credentials |
| `Connections` | `api/taekion`, `api/daml`, `utils/deploymentPodProxy.ts` and their controllers | a request is the list of its awaited steps that are left (`Script`); `cachedConnections`, `timers` and `forward` as in the code |
| `*Proofs` | | theorems about the module of that name; `ConnectionsProofs` is also about the `ClusterSecrets` in it |

How they fit together: `TaskProcessor` has the life of a task with handlers of
anonymous steps, `TaskRunner` drives such steps, `TaskHandlers` has the steps.
`ResourceControllers` has the requests that insert tasks, with the lock they rely
on; `AccessControl` the decisions before them, over the guards of `Routes`; and
`Connections` composes `ClusterForms` and `ClusterSecrets` with the requests of the
two APIs. The two jobs stand for themselves, with the processor's writes to the
same columns around them.

`MC*` modules give the constants their values. `TaskProcessor` implements
`TaskLifecycle` (`LifecycleSpec`, with the `status` of the one being `taskStatus` of the
other). Definitions preceded by "Mutant of X" are not part of any specification:
each is X with a bug, kept to show that a property notices it.

History variables, which the code does not have: `lastEnded` and `interrupted` in
`TaskProcessor` (which task ended last on a resource, whose ending a crash cut
short), `unlisted`, `erased` and `lacked` (without credentials at some time) in
`ClusterStatusTracker`, `overtaken` in `DeploymentStatusPoll`, `alone` in `ResourceControllers`, `trace`, `given` and `late`
in `TaskRunner`; and those that name the exceptions a property makes:

- `ResourceControllers`: `unsettled` (when the request began, a task of its resource had
  ended and the resource did not have its status yet).
- `TaskHandlers`: `unsettled` (the last task of a deployment ended without its status: it
  was cancelled, caught by a crash, or its write is still to come), `faltered` (its
  creation did not succeed at first), `moved` (its namespace was changed), `assumedGone`
  (deleted, with a cluster that could not be reached), `belated` (its status is from a
  write that came when a later task of it had begun).
- `AccessControl`: `excused` (a request acted for a user who had changed since it came
  in, or an admin updated a superuser).
- `ClusterSecrets`: `asked` (the credentials as successful edits asked for them),
  `excused` (an edit wrote over another one that it had not read, or failed after
  it had changed the credentials) and `failed` (the secrets that were to be applied by
  a task that failed, until an edit gives them again).

## The runs

| Run | Instance | Shows |
|---|---|---|
| `task_processor` | four tasks (create and delete of a deployment and of a cluster; one not restartable), handlers of one yield, two crashes; 1.25 million states | the safety properties and the refinement of `TaskLifecycle` |
| `task_processor_live` | three of those tasks, one crash | `EveryTaskEnds`, `CancelTakesEffect` |
| `task_processor_crash` | two tasks, one crash | **violation**: a crash between the two writes of completeTask leaves a finished task whose resource never got its status |
| `task_runner` | five handlers: flat, empty, nested once and twice | the runner's safety properties and that it ends |
| `cluster_status_tracker` | two clusters, two overlapping runs, four changes around them; 416 thousand states | the job's safety properties, and that statuses settle on the truth unless a cluster stays without credentials |
| `deployment_status_poll` | one deployment, two overlapping polls, seven timestamps; 1.57 million states | when a poll may change a row |
| `deployment_status_poll_updates` | one deployment, one poll | **violation**: a new status is never written |
| `resource_controllers` | a cluster, a deployment, two overlapping requests, four tasks; 2.29 million states | how far the lock leaks, and what holds all the same |
| `resource_controllers_lock` | the same | **violation**: two active tasks on one resource |
| `access_control` | two users, a cluster with a deployment, two overlapping requests, three role rows, with symmetry; 366 thousand states | decisions as documented, readers change nothing, at most one role per overlapping grant, a superuser is left |
| `task_handlers` | two deployments, three tasks, two requests, two namespaces, two versions, one crash, with symmetry; 1.38 million states | what is shown as provisioned or deleted is so; one key pair, the first one published |
| `connections` | one cluster, two overlapping edits, seven forms, two requests (one of each API), two pods, two pending timeouts, three calls; 322 thousand states | edits keep what they do not give; stale connections and forwarded ports go |

Why these bounds are enough. Two tasks on a resource are the least that can
disagree about its status, two resources the least that show a task of one
disturbing the other; one yield separates "before a step" from "after the last
step"; the second crash hits a process that is itself restarting. Two runs, polls
or requests make every overlap of a pair; what three do is a sequence of those, as
they share nothing but the row. Two deployments are the least that can share a
namespace, two namespaces the least to move between; three tasks are create, update
and delete, or two deployments that are created in turn. One cluster is enough for
`connections` because neither secrets nor cache entries are shared between clusters.
`Script` has more requests than the two it runs: each of the others is the same steps in
the same order, some of them twice. `MaxChanges` (four: create, provision, delete,
erase a cluster), `MaxClock`, `MaxTasks`, `MaxCrashes`, `MaxCalls` (edits, requests and restarts
in all),
`MaxSecrets`, `MaxPods` and `MaxTimers` are the only bounds and cut the environment,
never the code.

Deadlock is checked wherever the cfg does not say `CHECK_DEADLOCK FALSE`: a runner
that is done stops, and the controllers, the handlers and the edits stop when all
ids, tasks or calls are used up.

### Fairness

- `TaskProcessor`: weak fairness of the processor's own steps as a whole. The
  event loop goes on, timers fire, and the platform restarts a process that died.
  It includes that what a handler awaits settles. Nothing in the code bounds a
  helm command, so this is an assumption about helm; if it fails, one task blocks
  the worker for good. No fairness is given to requests, cancellations, crashes
  or the unawaited write.
- `TaskRunner`: the same, for one task.
- `ClusterStatusTracker`: each run advances, the scheduler starts runs while the
  process lives, and the platform restarts it. A cluster may still change at any
  time; `StatusSettles` says something of behaviours in which the (bounded) changes
  have stopped.
- `Connections`: each request takes its next step, and each pending timeout fires. So
  every awaited call is answered or fails; the code sets no timeout of its own on
  them (axios waits for ever by default), and `ForwardsAreStopped` and
  `StaleConnectionsGo` are as good as this assumption. Edits, tasks, pods and restarts
  have no fairness.

### What the properties say about the code's weak spots

- *Recorded end, lost status.* `StatusExplained` holds of every resource whose last
  ending was not cut short by a crash, `task_processor_crash` shows why that has to be
  excepted. A failing commit is harmless: errorTask overwrites both columns.
- *A task that was cancelling at a crash* is never loaded again; `EveryTaskEnds`
  names the exception (`Orphaned`). It goes on locking its resource.
- *A cancel request after the last check* is overwritten by "finished". Only one
  that arrives in time is promised to be honoured (`CancelTakesEffect`).
- *The deployment poll* has its status filter the wrong way round. As a side
  effect it changes a status only when it loses a race
  (`OnlyOvertakenPollsChangeStatus`), and it then undoes what the task recorded.
  The same holds of setting `updated_at` back (`OnlyOvertakenPollsTurnBack`): helm's
  answer may be old and the hour may turn at any time, but the stamp and the hour are
  taken together, after the answer. Its history record is always refused, because the
  result of the update is a list read as a row.
- *The cluster job* can revive a cluster that was deleted after its list was
  loaded; what it never does is touch one that was deleted before.
- *A cluster without credentials.* The forms of a local cluster require neither token nor
  ca, and getKubectlForCluster throws outside the try of ping: every run of the job ends
  at such a cluster, the process with it, and the clusters after it in the list are not
  asked. `ExitOnlyOverMissingRows` says that nothing but this or an erased cluster makes
  the job end the process, `StatusSettles` promises nothing while such a cluster is
  listed (`EndsEveryRun`).
- *Between the end of a task and its status* the resource is not locked: the task is
  finished at once, the status comes with the commit. A deletePermanently that begins
  there, though alone, reads "deleted" and erases what has just been provisioned again.
  `LoneEraseTakesTheDeleted` excepts requests that begin in such a gap (`unsettled`); one
  that begins after it is safe to its end.
- *The unawaited "deleted".* deploymentDeleteError does not wait for its write. When a
  queued update installs the release again before it lands, the deployment is shown as
  deleted with a release installed; `DeletedIsGone` excepts just these (`belated`).
- *Moved deployments.* The first handler after a change of the namespace still works in
  the old one and saves the new one as applied; from then on helm looks where nothing
  is. `ProvisionedIsInstalled` and `DeletedIsGone` except deployments that were moved.
- *The public key of a namespace* is written by the first creation only, so later
  deployments of the namespace find another's key (`FirstKeyIsPublished`), and a creation
  that failed after that step leaves the key of a pair that was rolled back.
- *The last superuser* may go when two requests overlap, or by an admin's update of a
  superuser; nothing else takes it away (`ASuperuserRemains`).
- *Credentials of a user cluster* are written outside the transaction of the edit
  (`router/cluster.ts` does not keep a form without the cluster's half out, and that one
  always fails after the write), and overlapping edits overwrite each other.
  `EditsKeepTheRest` excepts just these for good (`excused`).
- *A token or a ca whose task failed.* createClusterSecrets falls back to the applied ids,
  so the next edit without that secret returns to the one in use and drops the newer one
  without a word; after a failed creation, where nothing is applied, the id is lost and
  the cluster left without credentials. `EditsKeepTheRest` lets the pointer be the applied
  one for exactly the secrets in `failed`; all others are the newest of their name.
- *The form for a local cluster* is accepted for a remote one and leaves it without
  `apiServer`: its tasks then fail.
- *Connections* are removed by timeouts only; the timeout of an entry may remove a
  later one, which costs a lookup and is harmless.

Observed while reading, with no property of their own: the user table of `docs/rbac.md`
lets a user with a role read users, and delete them with a write role, where `rbac.ts`
asks for no role (a user gets only their own record and deletes nobody), so
`DecisionsAsDocumented` follows the document on clusters and deployments only; the cache of `getLedgerId` is asked with an argument that
is new each time and never hits; `getParticipants` and Taekion's `deleteKey` are routed
but not defined, and `deleteVolume` and `deleteSnapshot` always throw; `utils/kubectl.ts`
leaves its temporary file behind when a command fails.

## The proofs

Every theorem holds for every value of the constants that satisfies the named
assumptions of its module, which TLC evaluates in each run:

- types of the constants, and null values that are not members (in `TaskHandlers` also
  "none" and 0, which stand for no namespace and no release; in `TaskRunner`
  "promise" and "value", which are what a generator yields when it yields none);
- where something is counted, that there are finitely many requests and at least one;
- `NestingAssumption` of `TaskRunner`: no generator comes to yield itself, so that every
  set of generators has one that yields none of the set. A handler for which this fails
  would never end: `next` would push iterators for ever, and there would be no inlined
  handler to compare it with. The handlers under `tasks/` yield no generators at all and
  those of `test/task.test.js` one that yields none. Only `NestedRunsAsWritten` and
  `YieldsAreGivenTheirValues` use the assumption; for the other theorems about the runner
  generators may be recursive.

All safety properties that the passing runs check are proved: every invariant, every
action property, and the refinement. They do not stand by themselves, the type
invariants included: what each rests on is below.

`TaskProcessorProofs`. `AtMostOneRunning` needs to know that what a restarting process
has queued is what was running, at most one task, and that what the control loop has
queued is still created (`QueueInv`); that a process holds a task exactly when it is
past the idle stage and a dead one holds none (`HoldingInv`); and which status the task
in hand has at each stage (`StageInv`). Their conjunction `ControlInv` is inductive:
`InitControl`, then `TypeStep` for the types and `ControlStep`, one step per action.
`OneRunning`, `NoneForgotten` and `TypeCorrect` are conjuncts of it and `NoRerun` is read
off RunTask with it. `StatusFollowsTasks` rests on a second layer, `RecordInv`: the last
ended task of a resource belongs to it and has ended, the ending under way is the last
one, and writes still in flight are those of failed deletes. An error is never taken
back (`ErrorIsFinal`), which is what lets a late write be explained at any later time.
`Refinement` is `LifecycleInit` and `LifecycleStep`: each action is one step of
`TaskLifecycle` or leaves all statuses alone, given `ControlInv`.

`TaskRunnerProofs`, first part. The step that is about to be taken has been checked, is uncancelled
and is the first since a request (`CheckInv`); a generator that is stepped or awaited is
on the stack, at one of its yields (`StackInv`); and a handler without inner generators
never has company on the stack nor callers waiting (`FlatInv`).

`TaskRunnerProofs`, second part: generators within generators. `RunsInlinedHandler` says only
that the trace is a beginning of the inlined handler, which the next yield need not keep.
What keeps it is `TraceInv`: the trace, followed by what each iterator on the stack, from
the top down, has left of its generator's inlined form (`Remain`), is the inlined handler
as a whole. A yield moves one element over (`RemainStep`), pushing the inlined form of the
generator that was yielded on top of the rest, and a finished generator has nothing
left. That a yield gets its value needs to know where the one `lastValue` there is came
from, across pushes and pops: `LastInv` says it is the value that the yield on top is due,
or, when the generator on top has not begun, the yield below it, which is what an empty
generator leaves behind; `ChainInv` says that each iterator is the one its neighbour below
has yielded, and `LastOfInlined` that the last yield of an inlined form is the value of
the generator's own last yield. `EndInv` links the end of the run to the empty stack.

Under these lies a theory of `Inlined` itself, a recursive function over nested generators
that `FlattenSeq`, another one, puts together. The library's induction theorems take an
operator and cannot be used, so induction is done with minimal elements of sets: over
numbers by `LeastNat` (from the library's `WFMin`), over nesting by `Innermost`. With them,
`FlattenSteps` unfolds the fold, `FlattenFirst` and `FlattenLast` split it at either end,
and `InlinesExists` shows that a function satisfying the recursive definition exists
(functions that are right about some generators and what these yield agree where they
meet, and one that misses a generator can be extended), which `InlinedIs` needs to unfold it.

`TaskHandlersProofs`. That a deployment never has two key pairs, with no constraint in the
table to see to it, comes from who may insert one: while a deployment is being created
it has no key pair and no other task (`CreationInv`), so the creation may insert without
looking; an update looks, and its transaction holds one only if the table holds none
(`KeyPairInv`). `HandlerInv` relates the handler to the status of its task, also over a
crash that resumes it.

`ProvisionedIsInstalled` and `DeletedIsGone` speak of deployments at rest, and hold because
of what is true while a handler works on them. `PlaceInv`: one that was never moved has
everything in the namespace of its desired state, and one that is not there has nothing.
`ReadInv`: what a handler has read is still the desired state, or the update that
changed it has left a task behind; what it saves is the desired state itself, whose row its
transaction then locks. `HelmInv`: what helm has done by each step of each handler.
`QuietInv`: a deployment with no task left, running or not, is as its status says. The
two readings of the desired state, the installed one and the saved one, can differ, but
only with a task to come, and then the deployment is not at rest. Writes that are still to
come are kept apart from it: `OwedInv` says which tasks may owe one, and that the processor
takes none while it awaits one; `LateInv` that a late write which no later task of the
deployment has overtaken finds the deployment as the failed delete left it, without a
release or with a cluster that could not be reached.

`FirstKeyIsPublished` is about all deployments of a namespace at once. `BirthInv`: a
deployment shown as created has its creation to come or in progress, which carries the
key it made. `OwnerInv`: the key that lies in a namespace belongs to a deployment there
whose creation has succeeded, or, while there is none, to the creation that has just
published it and not yet committed its key pair. It is the second case that the property
lacks: without it a commit could not be shown to give the key an owner.

`ResourceControllersProofs`. `ActiveTasksBounded` counts: the active tasks of a resource and
the requests that are past their selects and going to insert one together never
exceed the number of requests (`LeakInv`), since a request starts to count only when it
finds no active task. `AloneInv` says what a request without company may rely on, and
`DeploymentsHaveTheirCluster` is kept by the cascade of the deletion. For
`LoneEraseTakesTheDeleted` it also has that a resource which had settled when the request
began stays so: no task of it is active, so none can end on it, and the status that the
request reads is not written again before it commits.

`AccessControlProofs`. `RolesBounded` counts in the same way (`GrantsInv`), over roles that
exist on created resources only. `ASuperuserRemains` needs what the guards had made sure
of to stay with the request (`AdmittedInv`: who deletes is a superuser and not the one
deleted), and that a creation which counted other users still has them, or is excused
(`CountedInv`). `ReadersChangeNothing` and `DecisionsAsDocumented` relate the rules of
`rbac.ts` to the routes and to the document in whatever state the role table is, so they
follow from the types, by the lemmas about the rules: `WriteGuards` and
`ChangesAskForWrite` for each route that changes something, `ClusterDecisions` and
`DeploymentDecisions` for what each user with each role may do, and `RowOfCluster` and
`RowOfDeployment` for the row of the document that says so. The route table is finite and
goes case by case; users, resources and rows of the role table are of any number.

`ClusterStatusTrackerProofs`. Whatever is still in a run's list was not deleted when it
began, and where its row is gone it has been erased (`ListedInv`); a cluster without
credentials, or listed without them, is among those that lacked them (`LackInv`); a run decides on "error" only for a cluster listed
without it (`VerdictInv`).

`DeploymentStatusPollProofs`. A selected row still has the reported status and is the
older of the two, until somebody else writes it (`SelectedInv`): the hour it may have been
compared with instead is no later than the stamp (`HourInv`), as both are taken in one
step; a status that helm has and Sextant does not know is never selected (`KnownInv`), without
which not even the type of the column is kept.

`ConnectionsProofs`. While nothing is excused: an edit that nobody has overtaken still
knows the applied state, and its cluster has no task (`PointersInv`), so what it falls
back to is what the cluster works with; a task connects with the state that it then
saves as applied; and between the write of the credentials and the end of its edit,
the row is the merge of what the edit gives into what was asked before (`MergeInv`). Edits
that end under another one always leave it excused, which is what makes this inductive.
That the pointers are the newest rows is `NewestInv`. Rows are only appended, and a form
gives a name once, so the id that a form gives is the newest (`PointerNewest`, for the forms
that `BoundsInv` knows to be well formed). One that it leaves out becomes the applied one,
and `Kept` is why that is no loss: desired and applied agree on it, unless the cluster has a
task to come that will apply it, or a task for it has failed; and an edit finds no task.

`ConnectionTypes` is the type invariant of the whole, with the bounds it puts on what is
counted. `RoomInv` counts: the tasks of a cluster and the edits in progress on it together
are no more than its creation and the calls so far, without which the number of tasks has
no bound that a step keeps. `BoundsInv` has the pointers and copies of secrets that the
edits and the worker carry, and `PoolInv` that a request with steps left has a cluster and
a label, and that what is left of it is an end of the list it began with.

Only model-checked: all liveness (`EveryTaskEnds`, `CancelTakesEffect`, `RunEnds`,
`StatusSettles`, `StaleConnectionsGo` and `ForwardsAreStopped`), since fairness and ENABLED
are beyond the prover here; and the three violations, which a single behaviour shows.

## What is left out

- Wording and payload of tasks, names, forms, logs, the history tables.
- In `TaskProcessor`, the permanent deletion of task rows and of resources (that is
  `ResourceControllers`), and the handlers' own writes. A processor whose errorTask
  throws is one of its crashes. `created_at` is the order of insertion.
- In `ResourceControllers`, validation, secrets and roles; names are the database's
  unique constraints. Row locks are not modelled: a write that would wait for
  another transaction may go first, which only adds behaviours.
- In `TaskHandlers`, the error "unknown deployment version" counted as deleted by
  deploymentDeleteError. It comes from the loaded charts alone, for a version that is not
  among them, and getChartInfo is asked for that version first and fails with another error.
- In the jobs, failures of the database, and the crash of a poll in the middle of its
  parallel deployments other than by the rejection the code has.
- More than one API process on a database: the code has no coordination for it.
- Metering: reports to AWS, one call each, without state.
- Pulling the charts and loading their forms at start-up: file system and YAML.
- The pool of database connections. Requests and tasks that hold one and ask for
  another can fill it; knex ends the wait with an error, which every module has as a
  failure of the step.
- The lists of keys and participants that `api/daml/database.js` keeps in memory as
  fixtures, the read-only operations of the controllers and `deletePod`.
- Hashing, sessions and tokens: a request carries the user its session or token gave.
- Values inside forms: a field with a value that its schema refuses counts as a form
  that fits nothing.
- `listSnapshots` of all volumes is one request per volume, of the kind modelled.
- The hazards that no property covers are listed in `PROJECT.json` with the reason.

## Where it could go on

Modelled in this order: the task processor and its abstract specification, the two
jobs, the runner, the controllers, the handlers, access control, secrets with the
connections. Proved in this order: the processor, access control, the handlers, the
controllers, the jobs, the runner, the secrets; then what is at rest in the handlers,
the decisions of access control, the types of the connections, and nested generators.

What would come next: erasing a deployment under a task that is queued for it, in `TaskHandlers`;
and a resource locked by at most one task as an abstract specification that
`ResourceControllers` implements as long as requests do not overlap.

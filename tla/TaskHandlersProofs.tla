------------------------- MODULE TaskHandlersProofs -------------------------
(***************************************************************************)
(* Proofs about the handlers of the deployment tasks, for every set of     *)
(* deployments, tasks, namespaces and requests and any number of crashes.  *)
(***************************************************************************)
EXTENDS TaskHandlers, FiniteSetTheorems, TLAPS

ActiveStatus == {"created", "running", "cancelling"}

\* A handler runs for a task that is running or, once it has returned, finished.
RunsInv ==
    handler # NoHandler =>
        /\ Mine.status \in IF handler.ended THEN {"finished"} ELSE {"running", "cancelling"}
        /\ handler.ended => handler.step > Len(Steps[Mine.action])

\* What is still to be written is the error of a task that ended with one.
OwedInv == \A t \in Task : owed[t] # "none" => task[t].status = "error"

HandlerInv == RunsInv /\ OwedInv

\* While a deployment is being created it has no key pair and no other task.
CreationInv ==
    /\ \A d \in Deployment : deployment[d].status = "absent" => keyPairs[d] = {}
    /\ \A t \in Task : task[t] # Unused => deployment[task[t].on].status # "absent"
    /\ \A q \in Request : request[q] # NoRequest => deployment[request[q]].status # "absent"
    /\ \A t \in Task : task[t].action = "create" /\ task[t].status \in ActiveStatus =>
          /\ keyPairs[task[t].on] = {}
          /\ \A u \in Task : task[u] # Unused /\ task[u].on = task[t].on => u = t
          /\ \A q \in Request : request[q] # NoRequest => request[q] # task[t].on

AtMostOne(S) == \A x, y \in S : x = y

\* The key pair that a handler inserts is the only one of its deployment, and
\* it is there, committed or not, from the second step on.
KeyPairInv ==
    /\ \A d \in Deployment :
          /\ AtMostOne(keyPairs[d])
          /\ deployment[d].status = "provisioned" => keyPairs[d] # {}
    /\ handler # NoHandler =>
          /\ AtMostOne(handler.keyPairs)
          /\ handler.keyPairs # {} => keyPairs[Subject] = {}
          /\ handler.step <= 2 => handler.keyPairs = {}
          /\ Mine.action \in {"create", "update"} /\ handler.step > 2 =>
                handler.keyPairs \cup keyPairs[Subject] # {}

KeysInv == TypeOK /\ HandlerInv /\ CreationInv /\ KeyPairInv

-----------------------------------------------------------------------------
\* A task that is anything else than unused is one of a deployment.
LEMMA UsedTask ==
    ASSUME TypeOK, NEW t \in Task, task[t].status # "unused"
    PROVE  /\ task[t] # Unused /\ task[t].on \in Deployment /\ task[t].action \in Actions
           /\ task[t].status \in {"created", "running", "cancelling", "finished", "cancelled", "error"}
  BY DEF TypeOK, Unused

HandlerRecord ==
    [task : Task, step : 1..8, desired : State \cup {None},
     namespace : Namespace \cup {"none"}, key : KeyPair \cup {NoKey},
     keyPairs : SUBSET KeyPair, applied : State \cup {None}, ended : BOOLEAN]

\* What a handler that runs has at hand.
LEMMA Running ==
    ASSUME TypeOK, HandlerInv, handler # NoHandler
    PROVE  /\ handler \in HandlerRecord
           /\ handler.task \in Task
           /\ Mine.on \in Deployment /\ Mine.action \in Actions
           /\ Subject \in Deployment
<1>1. handler \in HandlerRecord
  BY DEF TypeOK, HandlerRecord
<1>2. handler.task \in Task
  BY <1>1 DEF HandlerRecord
<1>3. Mine.status # "unused"
  BY DEF HandlerInv, RunsInv
<1>4. QED
  BY <1>1, <1>2, <1>3, UsedTask DEF Mine, Subject

LEMMA StepsLength ==
    /\ Len(Steps["create"]) = 7
    /\ Len(Steps["update"]) = 6
    /\ Len(Steps["delete"]) = 4
  BY DEF Steps, CreateSteps, UpdateSteps, DeleteSteps

\* Where the key pair is made: the second step of a creation or an update.
LEMMA SecondStep ==
    ASSUME TypeOK, HandlerInv, NEW step, At(step)
    PROVE  /\ handler.step \in 1..7
           /\ step = "createKeyPair" => Mine.action = "create" /\ handler.step = 2
           /\ step = "getOrCreateKeyPair" => Mine.action = "update" /\ handler.step = 2
           /\ handler.step = 2 /\ Mine.action # "delete" =>
                 step \in {"createKeyPair", "getOrCreateKeyPair"}
<1> DEFINE n == handler.step
<1>1. /\ n \in 1..8 /\ Mine.action \in Actions
      /\ n <= Len(Steps[Mine.action]) /\ Steps[Mine.action][n] = step
  BY Running DEF At, HandlerRecord
<1> HIDE DEF n
<1>2. CASE Mine.action = "create"
  <2>0. Steps[Mine.action] = CreateSteps /\ Len(CreateSteps) = 7
    BY <1>2 DEF Steps, CreateSteps
  <2>1. n <= 7 /\ CreateSteps[n] = step
    BY <1>1, <2>0
  <2>2. n \in {1, 2, 3, 4, 5, 6, 7}
    BY <1>1, <2>1
  <2>3. QED
    BY <1>2, <2>1, <2>2 DEF CreateSteps, n
<1>3. CASE Mine.action = "update"
  <2>0. Steps[Mine.action] = UpdateSteps /\ Len(UpdateSteps) = 6
    BY <1>3 DEF Steps, UpdateSteps
  <2>1. n <= 6 /\ UpdateSteps[n] = step
    BY <1>1, <2>0
  <2>2. n \in {1, 2, 3, 4, 5, 6}
    BY <1>1, <2>1
  <2>3. QED
    BY <1>3, <2>1, <2>2 DEF UpdateSteps, n
<1>4. CASE Mine.action = "delete"
  <2>0. Steps[Mine.action] = DeleteSteps /\ Len(DeleteSteps) = 4
    BY <1>4 DEF Steps, DeleteSteps
  <2>1. n <= 4 /\ DeleteSteps[n] = step
    BY <1>1, <2>0
  <2>2. n \in {1, 2, 3, 4}
    BY <1>1, <2>1
  <2>3. QED
    BY <1>4, <2>1, <2>2 DEF DeleteSteps, n
<1>5. QED
  BY <1>1, <1>2, <1>3, <1>4 DEF Actions

-----------------------------------------------------------------------------
\* What the ways to end a step leave in the variables they change.
LEMMA ThenSets ==
    ASSUME NEW h \in HandlerRecord, h.step \in 1..7, Then(h)
    PROVE  /\ handler' \in HandlerRecord
           /\ handler'.step = h.step + 1
           /\ handler'.task = h.task /\ handler'.keyPairs = h.keyPairs
           /\ handler'.ended = h.ended
  BY DEF Then, HandlerRecord

TaskRecord ==
    [on : Deployment, action : Actions,
     status : {"created", "running", "cancelling", "finished", "cancelled", "error"}]

LEMMA TaskType ==
    ASSUME TypeOK, NEW t \in Task, task[t] # Unused,
           NEW s \in {"created", "running", "cancelling", "finished", "cancelled", "error"},
           task' = [task EXCEPT ![t].status = s]
    PROVE  /\ task' \in [Task -> TaskRecord \cup {Unused}]
           /\ task'[t] \in TaskRecord
           /\ task'[t].on = task[t].on /\ task'[t].action = task[t].action /\ task'[t].status = s
           /\ \A u \in Task \ {t} : task'[u] = task[u]
<1> DEFINE new == [task[t] EXCEPT !.status = s]
<1>1. task \in [Task -> TaskRecord \cup {Unused}]
  BY DEF TypeOK, TaskRecord
<1>2. task[t] \in TaskRecord
  BY <1>1
<1>3. /\ new \in TaskRecord /\ new.on = task[t].on /\ new.action = task[t].action
      /\ new.status = s
  BY <1>2 DEF TaskRecord
<1>4. task' = [task EXCEPT ![t] = new]
  OBVIOUS
<1> HIDE DEF new
<1>5. QED
  BY <1>1, <1>3, <1>4

LEMMA FailSets ==
    ASSUME TypeOK, HandlerInv, NEW error, handler # NoHandler, Fail(error)
    PROVE  /\ TypeOK' <=> release' \in [Deployment -> [Namespace -> Version \cup {0}]]
                             /\ publicKey' \in [Namespace -> KeyPair \cup {NoKey}]
           /\ handler' = NoHandler /\ UNCHANGED <<deployment, keyPairs, request>>
           /\ task' = [task EXCEPT ![handler.task].status = "error"]
<1>1. handler.task \in Task /\ Subject \in Deployment /\ Mine # Unused
  BY Running DEF HandlerInv, RunsInv, Mine, Unused, Subject
<1>2. task' \in [Task ->
          [on : Deployment, action : Actions,
           status : {"created", "running", "cancelling", "finished", "cancelled", "error"}]
             \cup {Unused}]
  BY <1>1, TaskType DEF Fail, Mine, TaskRecord
<1>3. owed' \in [Task -> {"none", "awaited", "late", "overtaken"}]
  <2>1. Owes(error) \in {"awaited", "late"}
    BY DEF Owes
  <2>2. QED
    BY <1>1, <2>1 DEF Fail, TypeOK
<1>4. {unsettled', faltered', moved', assumedGone', belated'} \subseteq SUBSET Deployment
  BY <1>1 DEF Fail, Falter, TypeOK
<1>5. UNCHANGED <<deployment, keyPairs, request, crashes>> /\ handler' = NoHandler
      /\ task' = [task EXCEPT ![handler.task].status = "error"]
  BY DEF Fail
<1>6. QED
  BY <1>2, <1>3, <1>4, <1>5 DEF TypeOK

\* What the resource updater writes.
LEMMA UpdateRow ==
    ASSUME TypeOK, HandlerInv, NEW t \in Task, UpdateResource(t)
    PROVE  /\ task[t] # Unused /\ task[t].on \in Deployment
           /\ deployment' \in [Deployment ->
                 [desired : State \cup {None}, applied : State \cup {None},
                  status : {"absent", "created", "provisioned", "error", "deleted"}]]
           /\ deployment'[task[t].on].desired = deployment[task[t].on].desired
           /\ deployment'[task[t].on].applied = deployment[task[t].on].applied
           /\ deployment'[task[t].on].status = StatusOnError(t)
           /\ StatusOnError(t) \in {"deleted", "error"}
           /\ \A d \in Deployment \ {task[t].on} : deployment'[d] = deployment[d]
<1>1. task[t].status = "error"
  BY DEF UpdateResource, HandlerInv, OwedInv
<1>2. task[t] # Unused /\ task[t].on \in Deployment
  BY <1>1, UsedTask
<1>3. StatusOnError(t) \in {"deleted", "error"}
  BY DEF StatusOnError
<1>4. PICK d \in Deployment : d = task[t].on
  BY <1>2
<1>5. deployment' = [deployment EXCEPT ![d].status = StatusOnError(t)]
  BY <1>4 DEF UpdateResource
<1>6. deployment' \in [Deployment ->
          [desired : State \cup {None}, applied : State \cup {None},
           status : {"absent", "created", "provisioned", "error", "deleted"}]]
  BY ZenonT(60), <1>3, <1>5 DEF TypeOK
<1>7. QED
  BY <1>2, <1>3, <1>4, <1>5, <1>6 DEF TypeOK

\* What a step that does not fail leaves in the handler and the database.
Proceeds ==
    /\ \E h \in HandlerRecord :
          /\ Then(h) /\ h.step = handler.step /\ h.task = handler.task /\ h.ended = handler.ended
          /\ \/ h.keyPairs = handler.keyPairs
             \/ /\ handler.step = 2
                /\ h.keyPairs = handler.keyPairs \cup {<<handler.task, crashes>>}
                /\ At("createKeyPair") \/ keyPairs[Subject] = {}
          /\ At("createKeyPair") \/ At("getOrCreateKeyPair") =>
                h.keyPairs \cup keyPairs[Subject] # {}
    /\ UNCHANGED <<db, request, owed, crashes, history>>

LEMMA FreshHandler ==
    ASSUME NEW t \in Task
    PROVE  [NoHandler EXCEPT !.task = t, !.step = 1] \in HandlerRecord
<1>1. NoHandler \in
          [task : Task \cup {NoTask}, step : 0..8, desired : State \cup {None},
           namespace : Namespace \cup {"none"}, key : KeyPair \cup {NoKey},
           keyPairs : SUBSET KeyPair, applied : State \cup {None}, ended : BOOLEAN]
  BY DEF NoHandler
<1>2. ASSUME NEW h \in
          [task : Task \cup {NoTask}, step : 0..8, desired : State \cup {None},
           namespace : Namespace \cup {"none"}, key : KeyPair \cup {NoKey},
           keyPairs : SUBSET KeyPair, applied : State \cup {None}, ended : BOOLEAN]
      PROVE  [h EXCEPT !.task = t, !.step = 1] \in HandlerRecord
  <2>1. 1 \in 1..8
    OBVIOUS
  <2>2. QED
    BY <2>1 DEF HandlerRecord
<1>3. QED
  BY <1>1, <1>2

LEMMA NewKeyPair ==
    ASSUME TypeOK, handler \in HandlerRecord
    PROVE  /\ WithNewKeyPair(handler) \in HandlerRecord
           /\ WithNewKeyPair(handler).step = handler.step
           /\ WithNewKeyPair(handler).task = handler.task
           /\ WithNewKeyPair(handler).ended = handler.ended
           /\ WithNewKeyPair(handler).keyPairs = handler.keyPairs \cup {<<handler.task, crashes>>}
<1>1. <<handler.task, crashes>> \in KeyPair
  BY DEF HandlerRecord, TypeOK, KeyPair
<1>2. QED
  BY <1>1 DEF WithNewKeyPair, HandlerRecord

LEMMA StepSets ==
    ASSUME TypeOK, HandlerInv, Step
    PROVE  /\ \E step : At(step)
           /\ Proceeds \/ \E error : Fail(error)
           /\ release' \in [Deployment -> [Namespace -> Version \cup {0}]]
           /\ publicKey' \in [Namespace -> KeyPair \cup {NoKey}]
<1> DEFINE Releases == [Deployment -> [Namespace -> Version \cup {0}]]
           Keys == [Namespace -> KeyPair \cup {NoKey}]
<1> USE DEF db, world
<1>0. /\ release \in Releases /\ publicKey \in Keys
      /\ \A step : At(step) =>
            /\ handler # NoHandler /\ handler \in HandlerRecord /\ Subject \in Deployment
            /\ handler.step \in 1..7
  BY Running, SecondStep DEF TypeOK, At
<1>1. ASSUME NEW step, At(step), step \notin {"createKeyPair", "getOrCreateKeyPair"},
             NEW h \in HandlerRecord, Then(h), UNCHANGED <<db, request, owed, crashes, history>>,
             h.step = handler.step, h.task = handler.task, h.ended = handler.ended,
             h.keyPairs = handler.keyPairs
      PROVE  Proceeds
  <2>1. ~At("createKeyPair") /\ ~At("getOrCreateKeyPair")
    BY <1>1 DEF At
  <2>2. QED
    BY <1>1, <2>1 DEF Proceeds
<1>2. ASSUME NEW step, At(step), step \notin {"createKeyPair", "getOrCreateKeyPair"},
             Then(handler), UNCHANGED <<db, request, owed, crashes, history>>
      PROVE  Proceeds
  BY <1>0, <1>1, <1>2
<1>3. ASSUME NEW v \in Version \cup {0}, NEW step, At(step), Helm(v) PROVE release' \in Releases
  BY <1>0, <1>3 DEF Helm
<1>4. CASE Read
  <2> DEFINE h == [handler EXCEPT !.desired = deployment[Subject].desired,
                                  !.namespace = BestNamespace(deployment[Subject])]
  <2>1. At("read") /\ Then(h) /\ UNCHANGED <<db, request, owed, world, crashes, history>>
    BY <1>4 DEF Read
  <2>2. handler \in HandlerRecord /\ Subject \in Deployment
    BY <1>0, <2>1
  <2>3. /\ deployment[Subject].desired \in State \cup {None}
        /\ deployment[Subject].applied \in State \cup {None}
    BY <2>2 DEF TypeOK
  <2>4. BestNamespace(deployment[Subject]) \in Namespace \cup {"none"}
    BY <2>3 DEF BestNamespace, State, None
  <2>5. /\ h \in HandlerRecord /\ h.step = handler.step /\ h.task = handler.task
        /\ h.ended = handler.ended /\ h.keyPairs = handler.keyPairs
    BY <2>2, <2>3, <2>4 DEF HandlerRecord
  <2> HIDE DEF h
  <2>6. Proceeds
    BY <1>1, <2>1, <2>5
  <2>7. QED
    BY <1>0, <2>1, <2>6
<1>5. CASE CreateKeyPair
  <2>1. /\ At("createKeyPair") /\ Then(WithNewKeyPair(handler))
        /\ UNCHANGED <<db, request, owed, world, crashes, history>>
    BY <1>5 DEF CreateKeyPair
  <2>2. Proceeds
    BY <1>0, <2>1, NewKeyPair, SecondStep DEF Proceeds
  <2>3. QED
    BY <1>0, <2>1, <2>2
<1>6. CASE GetOrCreateKeyPair
  <2>1. /\ At("getOrCreateKeyPair") /\ UNCHANGED <<db, request, owed, world, crashes, history>>
        /\ Then(IF Lacks(Subject) THEN WithNewKeyPair(handler) ELSE handler)
    BY <1>6 DEF GetOrCreateKeyPair
  <2>2. CASE Lacks(Subject)
    <3>1. Proceeds
      BY <1>0, <2>1, <2>2, NewKeyPair, SecondStep DEF Proceeds, Lacks
    <3>2. QED
      BY <1>0, <2>1, <3>1
  <2>3. CASE ~Lacks(Subject)
    <3>1. Proceeds
      BY <1>0, <2>1, <2>3 DEF Proceeds, Lacks
    <3>2. QED
      BY <1>0, <2>1, <3>1
  <2>4. QED
    BY <2>2, <2>3
<1>7. CASE Connect
  BY <1>0, <1>2, <1>7 DEF Connect
<1>8. CASE WriteValues
  BY <1>0, <1>2, <1>8 DEF WriteValues
<1>9. CASE Install
  <2>1. At("install") /\ publicKey' = publicKey
    BY <1>9 DEF Install
  <2>2. handler.desired.version \in Version \cup {0}
    BY <1>0, <2>1 DEF HandlerRecord, State, None
  <2>3. release' \in Releases
    BY <1>0, <1>3, <1>9, <2>1, <2>2 DEF Install
  <2>4. Proceeds \/ \E error : Fail(error)
    BY <1>2, <1>9, <2>1 DEF Install
  <2>5. QED
    BY <1>0, <2>1, <2>3, <2>4
<1>10. CASE Upgrade
  <2>1. At("upgrade") /\ publicKey' = publicKey
    BY <1>10 DEF Upgrade
  <2>2. handler.desired.version \in Version \cup {0}
    BY <1>0, <2>1 DEF HandlerRecord, State, None
  <2>3. release' \in Releases
    BY <1>0, <1>3, <1>10, <2>1, <2>2 DEF Upgrade
  <2>4. Proceeds \/ \E error : Fail(error)
    BY <1>2, <1>10, <2>1 DEF Upgrade
  <2>5. QED
    BY <1>0, <2>1, <2>3, <2>4
<1>11. CASE PublishKey
  <2>1. At("publish") /\ release' = release
    BY <1>11 DEF PublishKey
  <2>2. publicKey' \in Keys
    BY <1>0, <1>11, <2>1 DEF PublishKey, HandlerRecord
  <2>3. Proceeds \/ \E error : Fail(error)
    BY <1>2, <1>11, <2>1 DEF PublishKey
  <2>4. QED
    BY <1>0, <2>1, <2>2, <2>3
<1>12. CASE SaveAppliedState
  <2> DEFINE h == [handler EXCEPT !.applied = Applicable(Subject)]
  <2>1. At("save") /\ Then(h) /\ UNCHANGED <<db, request, owed, world, crashes, history>>
    BY <1>12 DEF SaveAppliedState
  <2>2. handler \in HandlerRecord /\ Subject \in Deployment
    BY <1>0, <2>1
  <2>3. Applicable(Subject) \in State \cup {None}
    BY <2>2 DEF TypeOK, Applicable
  <2>4. /\ h \in HandlerRecord /\ h.step = handler.step /\ h.task = handler.task
        /\ h.ended = handler.ended /\ h.keyPairs = handler.keyPairs
    BY <2>2, <2>3 DEF HandlerRecord
  <2> HIDE DEF h
  <2>5. Proceeds
    BY <1>1, <2>1, <2>4
  <2>6. QED
    BY <1>0, <2>1, <2>5
<1>13. CASE Uninstall
  <2>1. At("uninstall") /\ publicKey' = publicKey
    BY <1>13 DEF Uninstall
  <2>2. release' \in Releases
    BY <1>0, <1>3, <1>13, <2>1 DEF Uninstall
  <2>3. Proceeds \/ \E error : Fail(error)
    BY <1>2, <1>13, <2>1 DEF Uninstall
  <2>4. QED
    BY <1>0, <2>1, <2>2, <2>3
<1>14. CASE DeleteTheRest
  BY <1>0, <1>2, <1>14 DEF DeleteTheRest
<1>15. QED
  BY <1>4, <1>5, <1>6, <1>7, <1>8, <1>9, <1>10, <1>11, <1>12, <1>13, <1>14 DEF Step

LEMMA InsertSets ==
    ASSUME TypeOK, HandlerInv, NEW d \in Deployment, NEW action \in Actions, InsertTask(d, action)
    PROVE  /\ task' \in [Task -> TaskRecord \cup {Unused}]
           /\ \E t \in Task :
                 /\ task[t] = Unused
                 /\ task'[t] = [on |-> d, action |-> action, status |-> "created"]
                 /\ \A u \in Task \ {t} : task'[u] = task[u]
           /\ handler # NoHandler => task'[handler.task] = Mine
<1>1. PICK t \in Task :
          /\ task[t] = Unused
          /\ task' = [task EXCEPT ![t] = [on |-> d, action |-> action, status |-> "created"]]
  BY DEF InsertTask
<1>2. task \in [Task -> TaskRecord \cup {Unused}]
  BY DEF TypeOK, TaskRecord
<1>3. [on |-> d, action |-> action, status |-> "created"] \in TaskRecord
  BY DEF TaskRecord
<1>4. handler # NoHandler => handler.task # t /\ handler.task \in Task
  BY <1>1, Running DEF HandlerInv, RunsInv, Mine, Unused
<1>5. QED
  BY <1>1, <1>2, <1>3, <1>4 DEF Mine

LEMMA CommitSets ==
    ASSUME TypeOK, HandlerInv, handler # NoHandler,
           NEW s \in {"absent", "created", "provisioned", "error", "deleted"}, CommitWrites(s)
    PROVE  /\ keyPairs' \in [Deployment -> SUBSET KeyPair]
           /\ keyPairs'[Subject] = keyPairs[Subject] \cup handler.keyPairs
           /\ \A d \in Deployment \ {Subject} : keyPairs'[d] = keyPairs[d]
           /\ deployment' \in [Deployment ->
                 [desired : State \cup {None}, applied : State \cup {None},
                  status : {"absent", "created", "provisioned", "error", "deleted"}]]
           /\ deployment'[Subject].status = s
           /\ \A d \in Deployment \ {Subject} : deployment'[d] = deployment[d]
<1>1. Subject \in Deployment /\ handler \in HandlerRecord
  BY Running
<1>2. keyPairs' = [keyPairs EXCEPT ![Subject] = keyPairs[Subject] \cup handler.keyPairs]
  BY DEF CommitWrites
<1>3. /\ keyPairs' \in [Deployment -> SUBSET KeyPair]
      /\ keyPairs'[Subject] = keyPairs[Subject] \cup handler.keyPairs
      /\ \A d \in Deployment \ {Subject} : keyPairs'[d] = keyPairs[d]
  BY <1>1, <1>2 DEF TypeOK, HandlerRecord
<1> DEFINE Row == [desired : State \cup {None}, applied : State \cup {None},
                   status : {"absent", "created", "provisioned", "error", "deleted"}]
           new == [deployment[Subject] EXCEPT
                     !.applied = IF handler.applied = None THEN @ ELSE handler.applied,
                     !.status = s]
<1>4. deployment' = [deployment EXCEPT ![Subject] = new]
  BY <1>1 DEF CommitWrites, TypeOK
<1>5. new \in Row /\ new.status = s
  <2>1. deployment[Subject] \in Row
    BY <1>1 DEF TypeOK
  <2>2. (IF handler.applied = None THEN deployment[Subject].applied ELSE handler.applied)
            \in State \cup {None}
    BY <1>1, <2>1 DEF HandlerRecord
  <2>3. QED
    BY <2>1, <2>2
<1> HIDE DEF new
<1>6. QED
  BY <1>1, <1>3, <1>4, <1>5 DEF TypeOK

LEMMA CompletedStatus == Completed \in {"provisioned", "deleted"}
  BY DEF Completed

\* Type correctness is preserved, action by action.
LEMMA TypeStep ==
    ASSUME TypeOK, HandlerInv, [Next]_vars
    PROVE  TypeOK'
<1> DEFINE Rows == [Deployment ->
              [desired : State \cup {None}, applied : State \cup {None},
               status : {"absent", "created", "provisioned", "error", "deleted"}]]
<1> USE HandlersAssumption DEF db, world, history
<1>1. ASSUME NEW d \in Deployment, Create(d) PROVE TypeOK'
  <2>1. deployment' \in Rows
    BY <1>1 DEF Create, TypeOK
  <2>2. task' \in [Task -> TaskRecord \cup {Unused}]
    BY <1>1, InsertSets DEF Create, Actions
  <2>3. QED
    BY <1>1, <2>1, <2>2 DEF Create, TypeOK, TaskRecord
<1>2. ASSUME NEW q \in Request, NEW d \in Deployment, FindNoActiveTasks(q, d) PROVE TypeOK'
  BY <1>2 DEF FindNoActiveTasks, TypeOK
<1>3. ASSUME NEW q \in Request, Update(q) PROVE TypeOK'
  <2>1. request[q] \in Deployment
    BY <1>3 DEF Update, TypeOK
  <2>2. deployment' \in Rows /\ moved' \in SUBSET Deployment
    <3>1. PICK s \in State :
              /\ deployment' = [deployment EXCEPT ![request[q]].desired = s]
              /\ moved' = IF s.namespace # deployment[request[q]].desired.namespace
                          THEN moved \cup {request[q]} ELSE moved
      BY <1>3 DEF Update
    <3>2. deployment' \in Rows
      BY ZenonT(60), <2>1, <3>1 DEF TypeOK
    <3>3. moved' \in SUBSET Deployment
      BY <2>1, <3>1 DEF TypeOK
    <3>4. QED
      BY <3>2, <3>3
  <2>3. task' \in [Task -> TaskRecord \cup {Unused}]
    BY <1>3, <2>1, InsertSets DEF Update, Actions
  <2>4. QED
    BY <1>3, <2>2, <2>3 DEF Update, TypeOK, TaskRecord
<1>4. ASSUME NEW q \in Request, Delete(q) PROVE TypeOK'
  <2>1. request[q] \in Deployment
    BY <1>4 DEF Delete, TypeOK
  <2>2. task' \in [Task -> TaskRecord \cup {Unused}]
    BY <1>4, <2>1, InsertSets DEF Delete, Actions
  <2>3. QED
    BY <1>4, <2>2 DEF Delete, TypeOK, TaskRecord
<1>5. ASSUME NEW t \in Task, Take(t) PROVE TypeOK'
  <2>1. task[t] # Unused
    BY <1>5 DEF Take, Unused
  <2>2. task' \in [Task -> TaskRecord \cup {Unused}]
    BY <1>5, <2>1, TaskType DEF Take
  <2>3. [NoHandler EXCEPT !.task = t, !.step = 1] \in HandlerRecord
    BY FreshHandler
  <2>4. owed' \in [Task -> {"none", "awaited", "late", "overtaken"}]
    BY <1>5 DEF Take, TypeOK
  <2>5. QED
    BY <1>5, <2>2, <2>3, <2>4 DEF Take, TypeOK, TaskRecord, HandlerRecord
<1>6. ASSUME NEW t \in Task, Cancel(t) PROVE TypeOK'
  <2>1. task[t] # Unused
    BY <1>6 DEF Cancel, Unused
  <2>2. task' \in [Task -> TaskRecord \cup {Unused}]
    BY <1>6, <2>1, TaskType DEF Cancel
  <2>3. QED
    BY <1>6, <2>2 DEF Cancel, TypeOK, TaskRecord
<1>7. CASE Step
  <2>1. /\ \E step : At(step)
        /\ release' \in [Deployment -> [Namespace -> Version \cup {0}]]
        /\ publicKey' \in [Namespace -> KeyPair \cup {NoKey}]
        /\ Proceeds \/ \E error : Fail(error)
    BY <1>7, StepSets
  <2>2. CASE Proceeds
    <3>1. handler' \in HandlerRecord
      BY <2>1, <2>2, ThenSets, SecondStep DEF Proceeds
    <3>2. QED
      BY <2>1, <2>2, <3>1 DEF Proceeds, TypeOK, HandlerRecord
  <2>3. CASE \E error : Fail(error)
    BY <2>1, <2>3, FailSets DEF At
  <2>4. QED
    BY <2>1, <2>2, <2>3
<1>8. CASE RecordEnd
  <2>1. handler.task \in Task /\ handler \in HandlerRecord /\ task[handler.task] # Unused
    BY <1>8, Running DEF RecordEnd, Mine, Unused
  <2>2. task' \in [Task -> TaskRecord \cup {Unused}]
    BY <1>8, <2>1, TaskType DEF RecordEnd
  <2>3. [handler EXCEPT !.ended = TRUE] \in HandlerRecord
    BY <2>1 DEF HandlerRecord
  <2>4. QED
    BY <1>8, <2>2, <2>3 DEF RecordEnd, TypeOK, TaskRecord, HandlerRecord
<1>9. CASE Commit
  <2>1. keyPairs' \in [Deployment -> SUBSET KeyPair] /\ deployment' \in Rows
    BY <1>9, CommitSets, CompletedStatus DEF Commit
  <2>2. QED
    BY <1>9, <2>1 DEF Commit, TypeOK
<1>10. CASE EndCancelled
  <2>1. /\ handler.task \in Task /\ task[handler.task] # Unused /\ Subject \in Deployment
    BY <1>10, Running DEF EndCancelled, Mine, Unused
  <2>2. keyPairs' \in [Deployment -> SUBSET KeyPair] /\ deployment' \in Rows
    <3>1. deployment[Subject].status \in {"absent", "created", "provisioned", "error", "deleted"}
      BY <2>1 DEF TypeOK
    <3>2. QED
      BY <1>10, <3>1, CommitSets DEF EndCancelled
  <2>3. task' \in [Task -> TaskRecord \cup {Unused}]
    BY <1>10, <2>1, TaskType DEF EndCancelled
  <2>4. QED
    BY <1>10, <2>1, <2>2, <2>3 DEF EndCancelled, Falter, TypeOK, TaskRecord
<1>11. CASE Crash
  <2>1. handler # NoHandler => Subject \in Deployment
    BY <1>11, Running DEF Crash
  <2>2. crashes' \in 0..MaxCrashes
    BY <1>11 DEF Crash, TypeOK
  <2>3. QED
    <3>1. owed' \in [Task -> {"none", "awaited", "late", "overtaken"}]
      BY <1>11 DEF Crash
    <3>2. faltered' \in SUBSET Deployment
      BY <1>11, <2>1 DEF Crash, Falter, TypeOK
    <3>3. unsettled' \in SUBSET Deployment
      BY <1>11, <2>1 DEF Crash, TypeOK, NoHandler
    <3>4. QED
      BY <1>11, <2>2, <3>1, <3>2, <3>3 DEF Crash, TypeOK
<1>14. ASSUME NEW t \in Task, UpdateResource(t) PROVE TypeOK'
  <2>1. deployment' \in Rows /\ task[t].on \in Deployment
    BY <1>14, UpdateRow
  <2>2. QED
    BY <1>14, <2>1 DEF UpdateResource, TypeOK
<1>12. CASE UNCHANGED vars
  BY <1>12 DEF vars, TypeOK
<1>13. QED
  BY <1>1, <1>2, <1>3, <1>4, <1>5, <1>6, <1>7, <1>8, <1>9, <1>10, <1>11, <1>12, <1>14 DEF Next

LEMMA HandlerStep ==
    ASSUME TypeOK, HandlerInv, [Next]_vars
    PROVE  RunsInv'
<1> USE DEF db, world, history, HandlerInv
<1>0. handler # NoHandler => handler \in HandlerRecord /\ handler.task \in Task
  BY Running
<1>1. CASE UNCHANGED <<handler, task>>
  BY <1>1 DEF RunsInv, Mine
<1>2. ASSUME NEW d \in Deployment, NEW action \in Actions, InsertTask(d, action), UNCHANGED handler
      PROVE  RunsInv'
  BY <1>2, InsertSets DEF RunsInv, Mine
<1>3. ASSUME NEW t \in Task, Take(t) PROVE RunsInv'
  <2>1. task[t] # Unused
    BY <1>3 DEF Take, Unused
  <2>2. task'[t].status = "running"
    BY <1>3, <2>1, TaskType DEF Take
  <2>3. handler'.task = t /\ handler'.ended = FALSE
    BY <1>3 DEF Take, NoHandler
  <2>4. QED
    BY <2>2, <2>3 DEF RunsInv, Mine
<1>4. ASSUME NEW t \in Task, Cancel(t) PROVE RunsInv'
  <2>1. task[t] # Unused
    BY <1>4 DEF Cancel, Unused
  <2>2. task'[t].status = "cancelling" /\ \A u \in Task \ {t} : task'[u] = task[u]
    BY <1>4, <2>1, TaskType DEF Cancel
  <2>3. CASE handler # NoHandler /\ handler.task = t
    BY <1>4, <2>2, <2>3 DEF Cancel, RunsInv, Mine
  <2>4. CASE handler = NoHandler \/ handler.task # t
    BY <1>0, <1>4, <2>2, <2>4 DEF Cancel, RunsInv, Mine
  <2>5. QED
    BY <2>3, <2>4
<1>5. CASE Step
  <2>1. (\E step : At(step)) /\ (Proceeds \/ \E error : Fail(error))
    BY <1>5, StepSets
  <2>2. CASE Proceeds
    <3>1. /\ handler'.task = handler.task /\ handler'.ended = handler.ended
          /\ task' = task
      BY <2>1, <2>2, ThenSets, SecondStep DEF Proceeds
    <3>2. handler # NoHandler /\ ~handler.ended
      BY <2>1 DEF At
    <3>3. QED
      BY <3>1, <3>2 DEF RunsInv, Mine
  <2>3. CASE \E error : Fail(error)
    BY <2>3 DEF Fail, RunsInv
  <2>4. QED
    BY <2>1, <2>2, <2>3
<1>6. CASE RecordEnd
  <2>1. task[handler.task] # Unused
    BY <1>6 DEF RecordEnd, Mine, Unused
  <2>2. /\ task'[handler.task].status = "finished"
        /\ task'[handler.task].action = Mine.action
    BY <1>0, <1>6, <2>1, TaskType DEF RecordEnd, Mine
  <2>3. /\ handler'.task = handler.task /\ handler'.step = handler.step /\ handler'.ended = TRUE
    BY <1>0, <1>6 DEF RecordEnd, HandlerRecord
  <2>4. QED
    BY <1>6, <2>2, <2>3 DEF RecordEnd, RunsInv, Mine
<1>7. CASE Commit \/ EndCancelled \/ Crash
  BY <1>7 DEF Commit, EndCancelled, Crash, RunsInv
<1>8. ASSUME NEW q \in Request, Update(q) \/ Delete(q) PROVE RunsInv'
  <2>1. request[q] \in Deployment
    BY <1>8 DEF Update, Delete, TypeOK
  <2>2. QED
    BY <1>2, <1>8, <2>1 DEF Update, Delete, Actions
<1>9. ASSUME NEW d \in Deployment, Create(d) PROVE RunsInv'
  BY <1>2, <1>9 DEF Create, Actions
<1>10. QED
  BY <1>1, <1>3, <1>4, <1>5, <1>6, <1>7, <1>8, <1>9 DEF Next, FindNoActiveTasks, UpdateResource, vars

LEMMA OwedStep ==
    ASSUME TypeOK, HandlerInv, [Next]_vars
    PROVE  OwedInv'
<1> SUFFICES ASSUME NEW u \in Task, owed'[u] # "none" PROVE task'[u].status = "error"
  BY DEF OwedInv
<1> USE DEF db, world, history
<1>1. owed[u] # "none" => task[u].status = "error"
  BY DEF HandlerInv, OwedInv
<1>2. handler # NoHandler =>
          /\ handler.task \in Task /\ task[handler.task] # Unused
          /\ task[handler.task].status # "error"
  BY Running DEF HandlerInv, RunsInv, Mine, Unused
<1>3. CASE task' = task /\ (owed'[u] = owed[u] \/ owed'[u] = "none")
  BY <1>1, <1>3
<1>4. ASSUME NEW t \in Task, task[t] # Unused, task[t].status # "error",
             NEW s \in {"created", "running", "cancelling", "finished", "cancelled", "error"},
             task' = [task EXCEPT ![t].status = s],
             owed[u] # "none" \/ (u = t /\ s = "error")
      PROVE  task'[u].status = "error"
  <2>1. task'[t].status = s /\ \A v \in Task \ {t} : task'[v] = task[v]
    BY <1>4, TaskType
  <2>2. QED
    BY <1>1, <1>4, <2>1
<1>5. ASSUME NEW d \in Deployment, NEW action \in Actions, InsertTask(d, action), owed' = owed
      PROVE  task'[u].status = "error"
  <2>1. PICK t \in Task : task[t] = Unused /\ \A v \in Task \ {t} : task'[v] = task[v]
    BY <1>5, InsertSets
  <2>2. u # t
    BY <1>1, <1>5, <2>1 DEF Unused
  <2>3. QED
    BY <1>1, <1>5, <2>1, <2>2
<1>6. ASSUME NEW d \in Deployment, Create(d) PROVE task'[u].status = "error"
  BY <1>5, <1>6 DEF Create, Actions
<1>7. ASSUME NEW q \in Request, Update(q) \/ Delete(q) PROVE task'[u].status = "error"
  <2>1. request[q] \in Deployment
    BY <1>7 DEF Update, Delete, TypeOK
  <2>2. QED
    BY <1>5, <1>7, <2>1 DEF Update, Delete, Actions
<1>8. ASSUME NEW t \in Task, Take(t) PROVE task'[u].status = "error"
  <2>1. task[t] # Unused /\ task[t].status # "error" /\ task' = [task EXCEPT ![t].status = "running"]
    BY <1>8 DEF Take, Unused
  <2>2. owed[u] # "none"
    BY <1>8 DEF Take
  <2>3. QED
    BY <1>4, <2>1, <2>2
<1>9. ASSUME NEW t \in Task, Cancel(t) PROVE task'[u].status = "error"
  <2>1. task[t] # Unused /\ task[t].status # "error"
    BY <1>9 DEF Cancel, Unused
  <2>2. task' = [task EXCEPT ![t].status = "cancelling"] /\ owed' = owed
    BY <1>9 DEF Cancel
  <2>3. QED
    BY <1>4, <2>1, <2>2
<1>10. CASE Step
  <2>1. (\E step : At(step)) /\ (Proceeds \/ \E error : Fail(error))
    BY <1>10, StepSets
  <2>2. CASE Proceeds
    BY <1>3, <2>2 DEF Proceeds
  <2>3. CASE \E error : Fail(error)
    <3>1. /\ handler # NoHandler /\ task' = [task EXCEPT ![handler.task].status = "error"]
          /\ u = handler.task \/ owed'[u] = owed[u]
      BY <2>1, <2>3 DEF Fail, At, TypeOK
    <3>2. QED
      BY <1>2, <1>4, <3>1
  <2>4. QED
    BY <2>1, <2>2, <2>3
<1>11. CASE RecordEnd \/ EndCancelled
  BY <1>2, <1>4, <1>11 DEF RecordEnd, EndCancelled
<1>12. CASE Crash
  BY <1>12 DEF Crash
<1>13. ASSUME NEW t \in Task, UpdateResource(t) PROVE task'[u].status = "error"
  <2>1. task' = task /\ (owed'[u] = owed[u] \/ owed'[u] = "none")
    BY <1>13 DEF UpdateResource, TypeOK
  <2>2. QED
    BY <1>3, <2>1
<1>14. QED
  BY <1>3, <1>6, <1>7, <1>8, <1>9, <1>10, <1>11, <1>12, <1>13
     DEF Next, FindNoActiveTasks, Commit, vars

\* A creation stays the only task of its deployment until it ends: the other
\* requests need a deployment that is there, without active tasks.
LEMMA CreationStep ==
    ASSUME TypeOK, HandlerInv, CreationInv, [Next]_vars
    PROVE  CreationInv'
<1> USE DEF db, world, history
<1>0. handler # NoHandler =>
         /\ handler.task \in Task /\ Subject \in Deployment /\ Subject = task[handler.task].on
         /\ task[handler.task] # Unused
  BY Running DEF HandlerInv, RunsInv, Mine, Subject, Unused
\* A task changes its status only, and not to an active one unless it was; no
\* key pairs are added while its deployment is being created.
<1>1. ASSUME NEW t \in Task, task[t] # Unused, task'[t] # Unused,
             task'[t].on = task[t].on, task'[t].action = task[t].action,
             task'[t].status \in ActiveStatus => task[t].status \in ActiveStatus,
             \A u \in Task \ {t} : task'[u] = task[u],
             \A q \in Request : request'[q] \in {request[q], NoRequest},
             \A d \in Deployment \ {task[t].on} :
                 keyPairs'[d] = keyPairs[d] /\ deployment'[d].status = deployment[d].status,
             deployment'[task[t].on].status # "absent",
             \/ keyPairs' = keyPairs
             \/ task'[t].status \notin ActiveStatus
      PROVE  CreationInv'
  <2>1. \A d \in Deployment : deployment'[d].status = "absent" => keyPairs'[d] = {}
    BY <1>1 DEF CreationInv
  <2>2. \A u \in Task : task'[u] # Unused =>
            task[u] # Unused /\ task'[u].on = task[u].on /\ task'[u].action = task[u].action
    BY <1>1
  <2>3. \A u \in Task : task'[u] # Unused => deployment'[task'[u].on].status # "absent"
    <3>1. \A u \in Task : task[u] # Unused => task[u].on \in Deployment
      BY DEF TypeOK
    <3>2. QED
      BY <1>1, <2>2, <3>1 DEF CreationInv
  <2>4. \A q \in Request : request'[q] # NoRequest => deployment'[request'[q]].status # "absent"
    BY <1>1 DEF CreationInv, TypeOK
  <2>5. ASSUME NEW u \in Task, task'[u].action = "create" /\ task'[u].status \in ActiveStatus
        PROVE  /\ keyPairs'[task'[u].on] = {}
               /\ \A v \in Task : task'[v] # Unused /\ task'[v].on = task'[u].on => v = u
               /\ \A q \in Request : request'[q] # NoRequest => request'[q] # task'[u].on
    <3>1. task'[u] # Unused
      BY <2>5 DEF Unused, ActiveStatus
    <3>2. /\ task[u].action = "create" /\ task[u].status \in ActiveStatus
          /\ task'[u].on = task[u].on /\ task[u].on \in Deployment
      BY SMTT(30), <1>1, <2>2, <2>5, <3>1 DEF TypeOK
    <3>3. \A v \in Task : task'[v] # Unused /\ task'[v].on = task'[u].on => v = u
      BY <2>2, <3>2 DEF CreationInv
    <3>4. \A q \in Request : request'[q] # NoRequest => request'[q] # task'[u].on
      BY <1>1, <3>2 DEF CreationInv
    <3>5. keyPairs'[task[u].on] = keyPairs[task[u].on]
      <4>1. CASE u = t
        BY <1>1, <2>5, <4>1
      <4>2. CASE u # t
        <5>1. task[u].on # task[t].on
          BY <1>1, <3>2, <4>2 DEF CreationInv
        <5>2. QED
          BY <1>1, <3>2, <5>1
      <4>3. QED
        BY <4>1, <4>2
    <3>6. QED
      BY <3>2, <3>3, <3>4, <3>5 DEF CreationInv
  <2>6. QED
    BY <2>1, <2>3, <2>4, <2>5 DEF CreationInv
\* A task is added to a deployment that is not being created.
<1>2. ASSUME NEW d \in Deployment, NEW action \in Actions, InsertTask(d, action),
             \A u \in Task : task[u] # Unused /\ task[u].on = d =>
                 ~(task[u].action = "create" /\ task[u].status \in ActiveStatus),
             keyPairs' = keyPairs,
             \A c \in Deployment \ {d} : deployment'[c].status = deployment[c].status,
             deployment'[d].status # "absent",
             \A q \in Request : request'[q] \in {request[q], NoRequest},
             action = "create" =>
                 /\ keyPairs[d] = {}
                 /\ \A u \in Task : task[u] # Unused => task[u].on # d
                 /\ \A q \in Request : request[q] # NoRequest => request[q] # d
      PROVE  CreationInv'
  <2>1. PICK t \in Task :
            /\ task[t] = Unused
            /\ task'[t] = [on |-> d, action |-> action, status |-> "created"]
            /\ \A u \in Task \ {t} : task'[u] = task[u]
    BY <1>2, InsertSets
  <2>2. \A e \in Deployment : deployment'[e].status = "absent" => keyPairs'[e] = {}
    BY <1>2 DEF CreationInv
  <2>3. \A u \in Task : task[u] # Unused => task[u].on \in Deployment
    BY DEF TypeOK
  <2>4. \A u \in Task : task'[u] # Unused => deployment'[task'[u].on].status # "absent"
    BY <1>2, <2>1, <2>3 DEF CreationInv
  <2>5. \A q \in Request : request'[q] # NoRequest => deployment'[request'[q]].status # "absent"
    BY <1>2 DEF CreationInv, TypeOK
  <2>6. ASSUME NEW u \in Task, task'[u].action = "create" /\ task'[u].status \in ActiveStatus
        PROVE  /\ keyPairs'[task'[u].on] = {}
               /\ \A v \in Task : task'[v] # Unused /\ task'[v].on = task'[u].on => v = u
               /\ \A q \in Request : request'[q] # NoRequest => request'[q] # task'[u].on
    <3>1. CASE u = t
      BY <1>2, <2>1, <2>6, <3>1
    <3>2. CASE u # t
      <4>1. task[u] # Unused /\ task'[u] = task[u]
        BY <2>1, <2>6, <3>2 DEF Unused, ActiveStatus
      <4>2. task[u].on # d
        BY <1>2, <2>6, <4>1
      <4>3. QED
        BY <1>2, <2>1, <2>6, <4>1, <4>2 DEF CreationInv
    <3>3. QED
      BY <3>1, <3>2
  <2>7. QED
    BY <2>2, <2>4, <2>5, <2>6 DEF CreationInv
<1>3. ASSUME NEW d \in Deployment, Create(d) PROVE CreationInv'
  <2>1. /\ deployment[d].status = "absent" /\ keyPairs[d] = {}
        /\ \A u \in Task : task[u] # Unused => task[u].on # d
    BY <1>3 DEF Create, CreationInv
  <2>2. \A q \in Request : request[q] # NoRequest => request[q] # d
    BY <2>1 DEF CreationInv
  <2>3. /\ deployment'[d].status = "created"
        /\ \A c \in Deployment \ {d} : deployment'[c].status = deployment[c].status
        /\ InsertTask(d, "create") /\ keyPairs' = keyPairs /\ request' = request
    BY <1>3 DEF Create, TypeOK
  <2>4. QED
    BY <1>2, <2>1, <2>2, <2>3 DEF Actions
<1>4. ASSUME NEW q \in Request, Update(q) \/ Delete(q) PROVE CreationInv'
  <2> DEFINE d == request[q]
  <2>1. d \in Deployment /\ d # NoRequest
    BY <1>4 DEF Update, Delete, TypeOK
  <2>2. PICK action \in {"update", "delete"} : InsertTask(d, action)
    BY <1>4 DEF Update, Delete
  <2>3. /\ deployment[d].status # "absent"
        /\ \A u \in Task : task[u] # Unused /\ task[u].on = d =>
              ~(task[u].action = "create" /\ task[u].status \in ActiveStatus)
    BY <2>1 DEF CreationInv
  <2>4. \A e \in Deployment : deployment'[e].status = deployment[e].status
    <3>1. CASE Update(q)
      <4>1. PICK s \in State : deployment' = [deployment EXCEPT ![d].desired = s]
        BY <3>1 DEF Update
      <4>2. QED
        BY <2>1, <4>1 DEF TypeOK
    <3>2. CASE Delete(q)
      BY <3>2 DEF Delete
    <3>3. QED
      BY <1>4, <3>1, <3>2
  <2>5. keyPairs' = keyPairs /\ \A p \in Request : request'[p] \in {request[p], NoRequest}
    BY <1>4 DEF Update, Delete, TypeOK
  <2> HIDE DEF d
  <2>6. action \in Actions /\ action # "create"
    BY <2>2 DEF Actions
  <2>7. QED
    BY <1>2, <2>1, <2>2, <2>3, <2>4, <2>5, <2>6
<1>5. ASSUME NEW q \in Request, NEW d \in Deployment, FindNoActiveTasks(q, d) PROVE CreationInv'
  <2>1. /\ UNCHANGED <<deployment, keyPairs, task>>
        /\ deployment[d].status # "absent"
        /\ \A t \in Task : task[t].on = d => task[t].status \notin ActiveStatus
        /\ request' = [request EXCEPT ![q] = d]
    BY <1>5 DEF FindNoActiveTasks, Active, ActiveStatus
  <2>2. \A p \in Request : request'[p] = request[p] \/ request'[p] = d
    BY <2>1 DEF TypeOK
  <2>3. QED
    BY <2>1, <2>2 DEF CreationInv
<1>6. ASSUME NEW t \in Task, Take(t) \/ Cancel(t) PROVE CreationInv'
  <2>1. task[t] # Unused /\ task[t].status \in ActiveStatus
    BY <1>6 DEF Take, Cancel, Unused, ActiveStatus
  <2>2. PICK s \in {"running", "cancelling"} : task' = [task EXCEPT ![t].status = s]
    BY <1>6 DEF Take, Cancel
  <2>3. /\ task'[t] \in TaskRecord /\ task'[t].on = task[t].on /\ task'[t].action = task[t].action
        /\ \A u \in Task \ {t} : task'[u] = task[u]
    BY <2>1, <2>2, TaskType
  <2>4. task'[t] # Unused
    BY <2>3 DEF TaskRecord, Unused
  <2>5. UNCHANGED <<deployment, keyPairs, request>>
    BY <1>6 DEF Take, Cancel
  <2>6. deployment[task[t].on].status # "absent"
    BY <2>1 DEF CreationInv
  <2>7. QED
    BY <1>1, <2>1, <2>3, <2>4, <2>5, <2>6
\* The task of the handler ends.
<1>7. ASSUME handler # NoHandler, NEW s \in {"finished", "cancelled", "error"},
             task' = [task EXCEPT ![handler.task].status = s],
             request' = request,
             \A d \in Deployment \ {Subject} :
                 keyPairs'[d] = keyPairs[d] /\ deployment'[d].status = deployment[d].status,
             deployment'[Subject].status # "absent"
      PROVE  CreationInv'
  <2> DEFINE t == handler.task
  <2>1. t \in Task /\ task[t] # Unused /\ Subject = task[t].on
    BY <1>0, <1>7
  <2>2. /\ task'[t] \in TaskRecord /\ task'[t].on = task[t].on /\ task'[t].action = task[t].action
        /\ task'[t].status = s
        /\ \A u \in Task \ {t} : task'[u] = task[u]
    BY <1>7, <2>1, TaskType
  <2>3. task'[t] # Unused /\ task'[t].status \notin ActiveStatus
    BY <2>2 DEF TaskRecord, Unused, ActiveStatus
  <2> HIDE DEF t
  <2>4. QED
    BY <1>1, <1>7, <2>1, <2>2, <2>3
<1>8. CASE Step
  <2>1. (\E step : At(step)) /\ (Proceeds \/ \E error : Fail(error))
    BY <1>8, StepSets
  <2>2. CASE Proceeds
    BY <2>2 DEF Proceeds, CreationInv
  <2>3. CASE \E error : Fail(error)
    <3>1. /\ handler # NoHandler
          /\ task' = [task EXCEPT ![handler.task].status = "error"]
          /\ UNCHANGED <<deployment, keyPairs, request>>
      BY <2>1, <2>3, FailSets DEF At
    <3>2. deployment[Subject].status # "absent"
      BY <1>0, <3>1 DEF CreationInv
    <3>3. QED
      BY <1>7, <3>1, <3>2
  <2>4. QED
    BY <2>1, <2>2, <2>3
<1>9. CASE RecordEnd
  <2>1. deployment[Subject].status # "absent"
    BY <1>0, <1>9 DEF RecordEnd, CreationInv
  <2>2. QED
    BY <1>7, <1>9, <2>1 DEF RecordEnd
<1>10. CASE EndCancelled
  <2>1. deployment[Subject].status # "absent"
    BY <1>0, <1>10 DEF EndCancelled, CreationInv
  <2>2. deployment[Subject].status \in {"absent", "created", "provisioned", "error", "deleted"}
    BY <1>0, <1>10 DEF EndCancelled, TypeOK
  <2>3. /\ \A d \in Deployment \ {Subject} :
              keyPairs'[d] = keyPairs[d] /\ deployment'[d].status = deployment[d].status
        /\ deployment'[Subject].status # "absent"
    BY <1>10, <2>1, <2>2, CommitSets DEF EndCancelled
  <2>4. QED
    BY <1>7, <1>10, <2>3 DEF EndCancelled
<1>11. CASE Commit
  <2> DEFINE t == handler.task
  <2>1. /\ handler # NoHandler /\ task' = task /\ request' = request
        /\ t \in Task /\ task[t] # Unused /\ Subject = task[t].on
    BY <1>0, <1>11 DEF Commit
  <2>2. task[t].status \notin ActiveStatus
    BY <1>11, <2>1 DEF Commit, HandlerInv, RunsInv, Mine, ActiveStatus
  <2>3. /\ \A d \in Deployment \ {Subject} :
              keyPairs'[d] = keyPairs[d] /\ deployment'[d].status = deployment[d].status
        /\ deployment'[Subject].status # "absent"
    BY <1>11, <2>1, CommitSets, CompletedStatus DEF Commit
  <2> HIDE DEF t
  <2>4. QED
    BY <1>1, <2>1, <2>2, <2>3
<1>12. CASE Crash
  <2>1. UNCHANGED <<deployment, keyPairs, task>> /\ \A q \in Request : request'[q] = NoRequest
    BY <1>12 DEF Crash
  <2>2. QED
    BY <2>1 DEF CreationInv
<1>15. ASSUME NEW t \in Task, UpdateResource(t) PROVE CreationInv'
  <2>1. /\ task[t] # Unused /\ deployment'[task[t].on].status # "absent"
        /\ \A d \in Deployment \ {task[t].on} : deployment'[d] = deployment[d]
    BY <1>15, UpdateRow
  <2>2. UNCHANGED <<task, request, keyPairs>>
    BY <1>15 DEF UpdateResource
  <2>3. QED
    BY <1>1, <2>1, <2>2
<1>13. CASE UNCHANGED vars
  BY <1>13 DEF vars, CreationInv
<1>14. QED
  BY <1>3, <1>4, <1>5, <1>6, <1>8, <1>9, <1>10, <1>11, <1>12, <1>13, <1>15 DEF Next

LEMMA KeyPairStep ==
    ASSUME TypeOK, HandlerInv, CreationInv, KeyPairInv, [Next]_vars
    PROVE  KeyPairInv'
<1> USE DEF db, world, history
<1>0. handler # NoHandler =>
         /\ handler \in HandlerRecord /\ handler.task \in Task
         /\ Subject \in Deployment /\ Mine.action \in Actions
  BY Running
\* Where no key pair, no handler and no task of one changes, and no deployment
\* becomes provisioned.
<1>1. ASSUME keyPairs' = keyPairs,
             \A d \in Deployment :
                 deployment'[d].status = "provisioned" => deployment[d].status = "provisioned",
             \/ handler' = NoHandler
             \/ handler' = handler /\ (handler # NoHandler =>
                   /\ task'[handler.task].on = Subject
                   /\ task'[handler.task].action = Mine.action)
      PROVE  KeyPairInv'
  <2>1. \A d \in Deployment : AtMostOne(keyPairs'[d]) /\
            (deployment'[d].status = "provisioned" => keyPairs'[d] # {})
    BY <1>1 DEF KeyPairInv
  <2>2. CASE handler' = NoHandler
    BY <2>1, <2>2 DEF KeyPairInv
  <2>3. CASE handler' = handler /\ handler # NoHandler
    BY <1>1, <2>1, <2>3 DEF KeyPairInv, Mine, Subject
  <2>4. QED
    BY <1>1, <2>2, <2>3
<1>2. ASSUME NEW d \in Deployment, NEW action \in Actions, InsertTask(d, action), UNCHANGED handler,
             keyPairs' = keyPairs,
             \A e \in Deployment :
                 deployment'[e].status = "provisioned" => deployment[e].status = "provisioned"
      PROVE  KeyPairInv'
  BY <1>1, <1>2, InsertSets DEF Mine, Subject
<1>3. ASSUME NEW d \in Deployment, Create(d) PROVE KeyPairInv'
  <2>1. \A e \in Deployment :
            deployment'[e].status = "provisioned" => deployment[e].status = "provisioned"
    BY <1>3 DEF Create, TypeOK
  <2>2. QED
    BY <1>2, <1>3, <2>1 DEF Create, Actions
<1>4. ASSUME NEW q \in Request, Update(q) \/ Delete(q) PROVE KeyPairInv'
  <2>1. request[q] \in Deployment
    BY <1>4 DEF Update, Delete, TypeOK
  <2>2. \A e \in Deployment : deployment'[e].status = deployment[e].status
    <3>1. CASE Update(q)
      <4>1. PICK s \in State : deployment' = [deployment EXCEPT ![request[q]].desired = s]
        BY <3>1 DEF Update
      <4>2. QED
        BY <2>1, <4>1 DEF TypeOK
    <3>2. CASE Delete(q)
      BY <3>2 DEF Delete
    <3>3. QED
      BY <1>4, <3>1, <3>2
  <2>3. PICK action \in Actions : InsertTask(request[q], action)
    BY <1>4 DEF Update, Delete, Actions
  <2>4. UNCHANGED handler /\ keyPairs' = keyPairs
    BY <1>4 DEF Update, Delete
  <2>5. QED
    BY <1>2, <2>1, <2>2, <2>3, <2>4
<1>5. ASSUME NEW t \in Task, Take(t) PROVE KeyPairInv'
  <2>1. handler'.keyPairs = {} /\ handler'.step = 1 /\ UNCHANGED <<deployment, keyPairs>>
    BY <1>5 DEF Take, NoHandler
  <2>2. QED
    BY <2>1 DEF KeyPairInv, AtMostOne
<1>6. ASSUME NEW t \in Task, Cancel(t) PROVE KeyPairInv'
  <2>1. task[t] # Unused
    BY <1>6 DEF Cancel, Unused
  <2>2. /\ task'[t].on = task[t].on /\ task'[t].action = task[t].action
        /\ \A u \in Task \ {t} : task'[u] = task[u]
    BY <1>6, <2>1, TaskType DEF Cancel
  <2>3. QED
    BY <1>0, <1>1, <1>6, <2>2 DEF Cancel, Mine, Subject
<1>7. CASE Step
  <2>1. PICK step : At(step)
    BY <1>7, StepSets
  <2>2. Proceeds \/ \E error : Fail(error)
    BY <1>7, StepSets
  <2>3. handler # NoHandler /\ handler.step \in 1..7
    BY <2>1, SecondStep DEF At
  <2>4. CASE Proceeds
    <3>1. PICK h \in HandlerRecord :
          /\ Then(h) /\ h.step = handler.step /\ h.task = handler.task
          /\ \/ h.keyPairs = handler.keyPairs
             \/ /\ handler.step = 2
                /\ h.keyPairs = handler.keyPairs \cup {<<handler.task, crashes>>}
                /\ At("createKeyPair") \/ keyPairs[Subject] = {}
          /\ At("createKeyPair") \/ At("getOrCreateKeyPair") =>
                h.keyPairs \cup keyPairs[Subject] # {}
      BY <2>4 DEF Proceeds
    <3>2. /\ handler'.step = handler.step + 1 /\ handler'.task = handler.task
          /\ handler'.keyPairs = h.keyPairs /\ UNCHANGED <<deployment, keyPairs, task>>
      BY <2>3, <2>4, <3>1, ThenSets DEF Proceeds
    <3>3. Mine' = Mine /\ Subject' = Subject
      BY <3>2 DEF Mine, Subject
    <3>4. handler.step = 2 => handler.keyPairs = {}
      BY <2>3 DEF KeyPairInv
    <3>5. At("createKeyPair") => keyPairs[Subject] = {}
      <4>1. SUFFICES ASSUME At("createKeyPair") PROVE keyPairs[Subject] = {}
        OBVIOUS
      <4>2. Mine.action = "create" /\ Mine.status \in ActiveStatus
        BY <4>1, SecondStep DEF At, ActiveStatus
      <4>3. QED
        BY <1>0, <2>3, <4>2 DEF CreationInv, Mine, Subject
    <3>6. AtMostOne(h.keyPairs) /\ (h.keyPairs # {} => keyPairs[Subject] = {})
      <4>1. CASE h.keyPairs = handler.keyPairs
        BY <2>3, <4>1 DEF KeyPairInv
      <4>2. CASE h.keyPairs = {<<handler.task, crashes>>} /\ keyPairs[Subject] = {}
        BY <4>2 DEF AtMostOne
      <4>3. QED
        BY <3>1, <3>4, <3>5, <4>1, <4>2
    <3>7. handler'.step <= 2 => h.keyPairs = {}
      <4>1. handler'.step <= 2 => handler.step = 1
        BY <2>3, <3>2
      <4>2. handler.step = 1 => handler.keyPairs = {}
        BY <2>3 DEF KeyPairInv
      <4>3. QED
        BY <3>1, <4>1, <4>2
    <3>8. Mine.action \in {"create", "update"} /\ handler'.step > 2 =>
              h.keyPairs \cup keyPairs[Subject] # {}
      <4>1. SUFFICES ASSUME Mine.action \in {"create", "update"}, handler'.step > 2
                     PROVE  h.keyPairs \cup keyPairs[Subject] # {}
        OBVIOUS
      <4>2. CASE handler.step = 2
        BY <2>1, <3>1, <4>1, <4>2, SecondStep
      <4>3. CASE handler.step > 2
        <5>1. handler.keyPairs \cup keyPairs[Subject] # {}
          BY <2>3, <4>1, <4>3 DEF KeyPairInv
        <5>2. QED
          BY <3>1, <4>3, <5>1
      <4>4. QED
        BY <2>3, <3>2, <4>1, <4>2, <4>3
    <3>9. \A d \in Deployment : AtMostOne(keyPairs'[d]) /\
              (deployment'[d].status = "provisioned" => keyPairs'[d] # {})
      BY <3>2 DEF KeyPairInv
    <3>10. QED
      BY <3>2, <3>3, <3>6, <3>7, <3>8, <3>9 DEF KeyPairInv
  <2>5. CASE \E error : Fail(error)
    <3>1. handler' = NoHandler /\ UNCHANGED <<deployment, keyPairs>>
      BY <2>3, <2>5, FailSets
    <3>2. QED
      BY <1>1, <3>1
  <2>6. QED
    BY <2>2, <2>4, <2>5
<1>8. CASE RecordEnd
  <2>1. /\ handler'.keyPairs = handler.keyPairs /\ handler'.step = handler.step
        /\ handler'.task = handler.task /\ handler # NoHandler /\ UNCHANGED <<deployment, keyPairs>>
    BY <1>0, <1>8 DEF RecordEnd, HandlerRecord
  <2>2. task[handler.task] # Unused
    BY <1>8 DEF RecordEnd, Mine, Unused
  <2>3. /\ task'[handler.task].on = task[handler.task].on
        /\ task'[handler.task].action = task[handler.task].action
    BY <1>0, <1>8, <2>2, TaskType DEF RecordEnd
  <2>4. Mine'.action = Mine.action /\ Subject' = Subject
    BY <2>1, <2>3 DEF Mine, Subject
  <2>5. QED
    BY <2>1, <2>4 DEF KeyPairInv
<1>9. ASSUME NEW s \in {"absent", "created", "provisioned", "error", "deleted"}, CommitWrites(s),
             handler # NoHandler, handler' = NoHandler,
             s = "provisioned" => keyPairs[Subject] \cup handler.keyPairs # {}
      PROVE  KeyPairInv'
  <2>1. /\ keyPairs'[Subject] = keyPairs[Subject] \cup handler.keyPairs
        /\ \A d \in Deployment \ {Subject} : keyPairs'[d] = keyPairs[d]
        /\ deployment'[Subject].status = s
        /\ \A d \in Deployment \ {Subject} : deployment'[d] = deployment[d]
    BY <1>9, CommitSets
  <2>2. AtMostOne(keyPairs'[Subject])
    BY <1>0, <1>9, <2>1 DEF KeyPairInv, AtMostOne
  <2>3. \A d \in Deployment : AtMostOne(keyPairs'[d]) /\
            (deployment'[d].status = "provisioned" => keyPairs'[d] # {})
    BY <1>9, <2>1, <2>2 DEF KeyPairInv
  <2>4. QED
    BY <1>9, <2>3 DEF KeyPairInv
<1>10. CASE Commit
  <2>1. handler # NoHandler /\ handler.ended /\ handler.step > Len(Steps[Mine.action])
    BY <1>10 DEF Commit, HandlerInv, RunsInv
  <2>2. Completed = "provisioned" => Mine.action \in {"create", "update"}
    BY <1>0, <2>1 DEF Completed, Actions
  <2>3. Mine.action \in {"create", "update"} => handler.step > 2
    <3>1. CASE Mine.action = "create"
      BY <1>0, <2>1, <3>1, StepsLength DEF HandlerRecord
    <3>2. CASE Mine.action = "update"
      BY <1>0, <2>1, <3>2, StepsLength DEF HandlerRecord
    <3>3. QED
      BY <3>1, <3>2
  <2>4. Completed = "provisioned" => keyPairs[Subject] \cup handler.keyPairs # {}
    BY <2>1, <2>2, <2>3 DEF KeyPairInv
  <2>5. QED
    BY <1>9, <1>10, <2>4, CompletedStatus DEF Commit
<1>11. CASE EndCancelled
  <2>1. deployment[Subject].status \in {"absent", "created", "provisioned", "error", "deleted"}
    BY <1>0, <1>11 DEF EndCancelled, TypeOK
  <2>2. deployment[Subject].status = "provisioned" => keyPairs[Subject] # {}
    BY <1>0, <1>11 DEF EndCancelled, KeyPairInv
  <2>3. QED
    BY <1>9, <1>11, <2>1, <2>2 DEF EndCancelled
<1>12. CASE Crash
  BY <1>1, <1>12 DEF Crash
<1>15. ASSUME NEW t \in Task, UpdateResource(t) PROVE KeyPairInv'
  <2>1. \A d \in Deployment :
            deployment'[d].status = "provisioned" => deployment[d].status = "provisioned"
    BY <1>15, UpdateRow
  <2>2. UNCHANGED <<task, handler, keyPairs>>
    BY <1>15 DEF UpdateResource
  <2>3. QED
    BY <1>1, <2>1, <2>2 DEF Mine, Subject
<1>13. CASE UNCHANGED <<deployment, keyPairs, task, handler>>
  BY <1>1, <1>13 DEF Mine, Subject
<1>14. QED
  BY <1>3, <1>4, <1>5, <1>6, <1>7, <1>8, <1>10, <1>11, <1>12, <1>13, <1>15
     DEF Next, FindNoActiveTasks, vars

-----------------------------------------------------------------------------
LEMMA InitKeys == Init => KeysInv
<1> SUFFICES ASSUME Init PROVE KeysInv
  OBVIOUS
<1> USE HandlersAssumption DEF Init
<1>1. TypeOK
  BY DEF TypeOK
<1>2. HandlerInv /\ CreationInv
  BY DEF HandlerInv, RunsInv, OwedInv, CreationInv, Unused
<1>3. KeyPairInv
  BY DEF KeyPairInv, AtMostOne
<1>4. QED
  BY <1>1, <1>2, <1>3 DEF KeysInv

LEMMA StepKeys == KeysInv /\ [Next]_vars => KeysInv'
  BY TypeStep, HandlerStep, OwedStep, CreationStep, KeyPairStep DEF KeysInv, HandlerInv

-----------------------------------------------------------------------------
(* What helm has installed and what is published, along the tasks. *)

\* The handler of another task is still to run on the deployment.
MoreToCome ==
    \E t \in Task \ {handler.task} : task[t].on = Subject /\ task[t].status \in ActiveStatus

Place(d) == deployment[d].desired.namespace
Busy(d) == handler # NoHandler /\ Subject = d

\* A deployment that is not there has no states and nothing installed; one that
\* is has a desired state, and, as long as it is never moved, everything is in
\* the namespace of that.
PlaceInv ==
    \A d \in Deployment :
        /\ IF deployment[d].status = "absent"
           THEN deployment[d].applied = None /\ \A n \in Namespace : release[d][n] = 0
           ELSE deployment[d].desired \in State
        /\ d \notin moved =>
              /\ deployment[d].applied # None => deployment[d].applied.namespace = Place(d)
              /\ \A n \in Namespace : release[d][n] # 0 => n = Place(d)

\* What a handler has read is the desired state, unless the update that changed
\* it has left a task; what it saves is the desired state, whose row is locked.
ReadInv ==
    handler # NoHandler =>
        /\ handler.step > 1 => handler.desired \in State
        /\ handler.step > 1 => handler.desired = deployment[Subject].desired \/ MoreToCome
        /\ handler.applied # None => handler.applied = deployment[Subject].desired
        /\ handler.step > 1 /\ Subject \notin moved => handler.namespace = Place(Subject)

\* What helm has done for the handler so far.
HelmInv ==
    handler # NoHandler /\ Subject \notin moved =>
        /\ Mine.action # "delete" /\ handler.step > 5 =>
              release[Subject][Place(Subject)] = handler.desired.version
        /\ Mine.action # "delete" /\ handler.step > Len(Steps[Mine.action]) =>
              handler.applied # None
        /\ Mine.action = "delete" /\ handler.step > 3 =>
              \A n \in Namespace : release[Subject][n] = 0

\* A deployment with no task left, running or not, is as its status says.
QuietInv ==
    \A d \in Deployment \ moved :
        ~Active(d) /\ d \notin unsettled /\ ~Busy(d) =>
            /\ deployment[d].status = "provisioned" =>
                  /\ deployment[d].applied # None
                  /\ release[d][deployment[d].applied.namespace] = deployment[d].applied.version
            /\ deployment[d].status = "deleted" /\ d \notin assumedGone \cup belated =>
                  \A n \in Namespace : release[d][n] = 0

\* A deployment that a late write is going to show as deleted is gone, unless
\* it is taken for it, and no handler runs on it.
Gone(t) ==
    /\ ~Busy(task[t].on)
    /\ task[t].on \notin moved \cup assumedGone =>
          \A n \in Namespace : release[task[t].on][n] = 0

LateInv == \A t \in Task : owed[t] = "late" => Gone(t)

InstalledInv == PlaceInv /\ ReadInv /\ HelmInv /\ QuietInv /\ LateInv

\* A deployment that is shown as created, and did not fail, is being created; a
\* handler knows its namespace, and one that creates a deployment carries the key
\* pair it made and has published one in the namespace by its last step, and no
\* error of its deployment is still to be written.
BirthInv ==
    /\ \A d \in Deployment : deployment[d].status = "absent" => deployment[d].desired = None
    /\ \A d \in faltered : deployment[d].status # "absent"
    /\ handler # NoHandler /\ handler.step > 1 => handler.namespace \in Namespace
    /\ \A d \in Deployment \ faltered : deployment[d].status = "created" =>
          \E t \in Task :
              /\ task[t].on = d /\ task[t].action = "create"
              /\ task[t].status \in ActiveStatus \/ (handler # NoHandler /\ handler.task = t)
    /\ handler # NoHandler /\ Mine.action = "create" =>
          /\ handler.step > 2 => handler.keyPairs = {handler.key} /\ handler.key # NoKey
          /\ handler.step > 6 => publicKey[handler.namespace] # NoKey
          /\ \A t \in Task : owed[t] # "none" => task[t].on # Subject

\* The owner of the key that is published in a namespace: a deployment whose
\* creation succeeded, or, while there is none in the namespace, the one whose
\* creation has just published it.
Owner(d, n) ==
    /\ Place(d) = n
    /\ \/ deployment[d].status # "created" /\ keyPairs[d] = {publicKey[n]}
       \/ /\ Busy(d) /\ Mine.action = "create" /\ handler.step > 6
          /\ handler.keyPairs = {publicKey[n]}
          /\ \A c \in Deployment : Place(c) = n => deployment[c].status = "created"

OwnerInv ==
    moved = {} =>
        /\ \A d \in Deployment \ faltered :
              deployment[d].status \notin {"absent", "created"} => publicKey[Place(d)] # NoKey
        /\ \A n \in Namespace :
              publicKey[n] # NoKey /\ (\A d \in faltered : Place(d) # n) =>
                  \E d \in Deployment : Owner(d, n)

PublishedInv == BirthInv /\ OwnerInv


-----------------------------------------------------------------------------
\* Which step of which handler is at which place.
LEMMA StepTable ==
    ASSUME TypeOK, HandlerInv, NEW step, At(step)
    PROVE  /\ handler # NoHandler /\ ~handler.ended /\ handler \in HandlerRecord
           /\ Subject \in Deployment /\ handler.step \in 1..7
           /\ step = "read" <=> handler.step = 1
           /\ step = "createKeyPair" <=> Mine.action = "create" /\ handler.step = 2
           /\ step = "install" <=> Mine.action = "create" /\ handler.step = 5
           /\ step = "publish" <=> Mine.action = "create" /\ handler.step = 6
           /\ step = "upgrade" <=> Mine.action = "update" /\ handler.step = 5
           /\ step = "getOrCreateKeyPair" <=> Mine.action = "update" /\ handler.step = 2
           /\ step = "uninstall" <=> Mine.action = "delete" /\ handler.step = 3
           /\ step = "save" <=> \/ Mine.action = "create" /\ handler.step = 7
                                \/ Mine.action = "update" /\ handler.step = 6
<1> DEFINE n == handler.step
<1>1. /\ n \in 1..8 /\ Mine.action \in Actions
      /\ n <= Len(Steps[Mine.action]) /\ Steps[Mine.action][n] = step
      /\ handler # NoHandler /\ ~handler.ended /\ handler \in HandlerRecord
      /\ Subject \in Deployment
  BY Running DEF At, HandlerRecord
<1> HIDE DEF n
<1>2. CASE Mine.action = "create"
  <2>0. Steps[Mine.action] = CreateSteps /\ Len(CreateSteps) = 7
    BY <1>2 DEF Steps, CreateSteps
  <2>1. n <= 7 /\ CreateSteps[n] = step
    BY <1>1, <2>0
  <2>2. n \in {1, 2, 3, 4, 5, 6, 7}
    BY <1>1, <2>1
  <2>3. QED
    BY <1>1, <1>2, <2>1, <2>2 DEF CreateSteps, n
<1>3. CASE Mine.action = "update"
  <2>0. Steps[Mine.action] = UpdateSteps /\ Len(UpdateSteps) = 6
    BY <1>3 DEF Steps, UpdateSteps
  <2>1. n <= 6 /\ UpdateSteps[n] = step
    BY <1>1, <2>0
  <2>2. n \in {1, 2, 3, 4, 5, 6}
    BY <1>1, <2>1
  <2>3. QED
    BY <1>1, <1>3, <2>1, <2>2 DEF UpdateSteps, n
<1>4. CASE Mine.action = "delete"
  <2>0. Steps[Mine.action] = DeleteSteps /\ Len(DeleteSteps) = 4
    BY <1>4 DEF Steps, DeleteSteps
  <2>1. n <= 4 /\ DeleteSteps[n] = step
    BY <1>1, <2>0
  <2>2. n \in {1, 2, 3, 4}
    BY <1>1, <2>1
  <2>3. QED
    BY <1>1, <1>4, <2>1, <2>2 DEF DeleteSteps, n
<1>5. QED
  BY <1>1, <1>2, <1>3, <1>4 DEF Actions

LEMMA OneStepAtATime == \A x, y : At(x) /\ At(y) => x = y
  BY DEF At

\* A step that goes well, field by field.
Goes ==
    /\ handler' \in HandlerRecord
    /\ handler'.task = handler.task /\ handler'.ended = handler.ended
    /\ handler'.step = handler.step + 1
    /\ handler'.desired =
          IF handler.step = 1 THEN deployment[Subject].desired ELSE handler.desired
    /\ handler'.namespace =
          IF handler.step = 1 THEN BestNamespace(deployment[Subject]) ELSE handler.namespace
    /\ handler'.applied = IF At("save") THEN deployment[Subject].desired ELSE handler.applied
    /\ \/ /\ ~At("createKeyPair")
          /\ handler'.key = handler.key /\ handler'.keyPairs = handler.keyPairs
       \/ /\ handler.step = 2 /\ handler'.key = <<handler.task, crashes>>
          /\ handler'.keyPairs = handler.keyPairs \cup {<<handler.task, crashes>>}
    /\ UNCHANGED <<deployment, keyPairs, task, request, crashes, owed, unsettled, faltered, moved, assumedGone, belated>>

\* One that fails, after helm has done its work or before.
Fails ==
    \E error :
        /\ Fail(error) /\ publicKey' = publicKey
        /\ \/ release' = release
           \/ /\ handler.step > 1
              /\ \E v : release' = [release EXCEPT ![Subject][handler.namespace] = v]
        /\ error = "notFound" =>
              /\ release' = release /\ handler.step > 1
              /\ release[Subject][handler.namespace] = 0

HelmEffect ==
    release' = IF At("install") \/ At("upgrade")
               THEN [release EXCEPT ![Subject][handler.namespace] = handler.desired.version]
               ELSE IF At("uninstall")
               THEN [release EXCEPT ![Subject][handler.namespace] = 0]
               ELSE release

PublishEffect ==
    publicKey' = IF At("publish") /\ publicKey[handler.namespace] = NoKey
                 THEN [publicKey EXCEPT ![handler.namespace] = handler.key]
                 ELSE publicKey

LEMMA ThenGoes ==
    ASSUME NEW h \in HandlerRecord, h.step \in 1..7, Then(h)
    PROVE  /\ handler' \in HandlerRecord
           /\ handler'.step = h.step + 1 /\ handler'.task = h.task /\ handler'.ended = h.ended
           /\ handler'.desired = h.desired /\ handler'.namespace = h.namespace
           /\ handler'.applied = h.applied
           /\ handler'.key = h.key /\ handler'.keyPairs = h.keyPairs
  BY DEF Then, HandlerRecord

LEMMA PlainStepGoes ==
    ASSUME TypeOK, HandlerInv, NEW step, At(step), Then(handler),
           step \notin {"read", "createKeyPair", "save"},
           UNCHANGED <<deployment, keyPairs, task, request, crashes, owed, unsettled, faltered, moved, assumedGone, belated>>
    PROVE  Goes
<1>1. handler \in HandlerRecord /\ handler.step \in 1..7 /\ handler.step # 1
  BY StepTable
<1>2. ~At("save") /\ ~At("createKeyPair")
  BY OneStepAtATime
<1>3. QED
  BY <1>1, <1>2, ThenGoes DEF Goes

LEMMA StepEffect ==
    ASSUME TypeOK, HandlerInv, Step
    PROVE  /\ \E step : At(step)
           /\ (Goes /\ HelmEffect /\ PublishEffect) \/ Fails
<1> USE DEF db, world, history
<1>1. ASSUME NEW step, At(step), step \notin {"install", "upgrade", "uninstall"}, release' = release
      PROVE  HelmEffect
  BY <1>1, OneStepAtATime DEF HelmEffect
<1>2. ASSUME NEW step, At(step), step # "publish", publicKey' = publicKey
      PROVE  PublishEffect
  BY <1>2, OneStepAtATime DEF PublishEffect
<1>3. CASE Read
  <2> DEFINE h == [handler EXCEPT !.desired = deployment[Subject].desired,
                                  !.namespace = BestNamespace(deployment[Subject])]
  <2>1. At("read") /\ Then(h) /\ UNCHANGED <<db, request, owed, world, crashes, history>>
    BY <1>3 DEF Read
  <2>2. handler \in HandlerRecord /\ Subject \in Deployment /\ handler.step = 1
    BY <2>1, StepTable
  <2>3. /\ deployment[Subject].desired \in State \cup {None}
        /\ deployment[Subject].applied \in State \cup {None}
    BY <2>2 DEF TypeOK
  <2>4. BestNamespace(deployment[Subject]) \in Namespace \cup {"none"}
    BY <2>3 DEF BestNamespace, State, None
  <2>5. /\ h \in HandlerRecord /\ h.step = handler.step /\ h.task = handler.task
        /\ h.ended = handler.ended /\ h.keyPairs = handler.keyPairs /\ h.key = handler.key
        /\ h.applied = handler.applied /\ h.desired = deployment[Subject].desired
        /\ h.namespace = BestNamespace(deployment[Subject])
    BY <2>2, <2>3, <2>4 DEF HandlerRecord
  <2> HIDE DEF h
  <2>6. Goes
    BY <2>1, <2>2, <2>5, ThenGoes, OneStepAtATime DEF Goes
  <2>7. QED
    BY <1>1, <1>2, <2>1, <2>6
<1>4. CASE CreateKeyPair
  <2> DEFINE h == WithNewKeyPair(handler)
  <2>1. /\ At("createKeyPair") /\ Then(h)
        /\ UNCHANGED <<db, request, owed, world, crashes, history>>
    BY <1>4 DEF CreateKeyPair
  <2>2. handler \in HandlerRecord /\ handler.step = 2
    BY <2>1, StepTable
  <2>3. /\ h \in HandlerRecord /\ h.step = handler.step /\ h.task = handler.task
        /\ h.ended = handler.ended /\ h.keyPairs = handler.keyPairs \cup {<<handler.task, crashes>>}
    BY <2>2, NewKeyPair
  <2>4. /\ h.key = <<handler.task, crashes>> /\ h.applied = handler.applied
        /\ h.desired = handler.desired /\ h.namespace = handler.namespace
    BY <2>2 DEF WithNewKeyPair, HandlerRecord
  <2> HIDE DEF h
  <2>5. Goes
    BY <2>1, <2>2, <2>3, <2>4, ThenGoes, OneStepAtATime DEF Goes
  <2>6. QED
    BY <1>1, <1>2, <2>1, <2>5
<1>5. CASE GetOrCreateKeyPair
  <2> DEFINE h == WithNewKeyPair(handler)
  <2>1. /\ At("getOrCreateKeyPair") /\ Then(IF Lacks(Subject) THEN h ELSE handler)
        /\ UNCHANGED <<db, request, owed, world, crashes, history>>
    BY <1>5 DEF GetOrCreateKeyPair
  <2>2. handler \in HandlerRecord /\ handler.step = 2
    BY <2>1, StepTable
  <2>3. /\ h \in HandlerRecord /\ h.step = handler.step /\ h.task = handler.task
        /\ h.ended = handler.ended /\ h.keyPairs = handler.keyPairs \cup {<<handler.task, crashes>>}
    BY <2>2, NewKeyPair
  <2>4. /\ h.key = <<handler.task, crashes>> /\ h.applied = handler.applied
        /\ h.desired = handler.desired /\ h.namespace = handler.namespace
    BY <2>2 DEF WithNewKeyPair, HandlerRecord
  <2> HIDE DEF h
  <2>5. CASE Lacks(Subject)
    <3>1. Goes
      BY <2>1, <2>2, <2>3, <2>4, <2>5, ThenGoes, OneStepAtATime DEF Goes
    <3>2. QED
      BY <1>1, <1>2, <2>1, <3>1
  <2>6. CASE ~Lacks(Subject)
    <3>1. Goes
      BY <2>1, <2>6, PlainStepGoes
    <3>2. QED
      BY <1>1, <1>2, <2>1, <3>1
  <2>7. QED
    BY <2>5, <2>6
<1>6. ASSUME NEW step, At(step), step \notin {"read", "createKeyPair", "save"},
             Then(handler),
             UNCHANGED <<deployment, keyPairs, task, request, crashes, owed, unsettled, faltered, moved, assumedGone, belated>>
      PROVE  Goes
  BY <1>6, PlainStepGoes
<1>7. CASE Connect \/ WriteValues \/ DeleteTheRest
  <2>1. PICK step \in {"connect", "writeValues", "deleteTheRest"} :
            /\ At(step) /\ UNCHANGED world
            /\ \/ Then(handler) /\ UNCHANGED <<db, request, owed, crashes, history>>
               \/ Fail("other")
    BY <1>7 DEF Connect, WriteValues, DeleteTheRest
  <2>2. CASE Fail("other")
    BY <2>1, <2>2 DEF Fails
  <2>3. CASE Then(handler) /\ UNCHANGED <<db, request, owed, crashes, history>>
    BY <1>1, <1>2, <1>6, <2>1, <2>3
  <2>4. QED
    BY <2>1, <2>2, <2>3
<1>8. CASE Install \/ Upgrade
  <2>1. PICK step \in {"install", "upgrade"} : At(step)
    BY <1>8 DEF Install, Upgrade
  <2>2. /\ publicKey' = publicKey
        /\ \/ /\ Helm(handler.desired.version)
              /\ \/ Then(handler) /\ UNCHANGED <<db, request, owed, crashes, history>>
                 \/ Fail("other")
           \/ Fail("other") /\ UNCHANGED release
    BY <1>8 DEF Install, Upgrade
  <2>3. handler.step > 1
    BY <2>1, StepTable
  <2>4. CASE Fail("other")
    BY <2>1, <2>2, <2>3, <2>4 DEF Fails, Helm
  <2>5. CASE /\ Helm(handler.desired.version) /\ Then(handler)
             /\ UNCHANGED <<db, request, owed, crashes, history>>
    <3>1. HelmEffect
      BY <2>1, <2>5 DEF HelmEffect, Helm
    <3>2. QED
      BY <1>2, <1>6, <2>1, <2>2, <2>5, <3>1
  <2>6. QED
    BY <2>1, <2>2, <2>4, <2>5
<1>9. CASE Uninstall
  <2>1. At("uninstall") /\ publicKey' = publicKey
    BY <1>9 DEF Uninstall
  <2>2. handler.step > 1
    BY <2>1, StepTable
  <2>3. CASE Helm(0) /\ Then(handler) /\ UNCHANGED <<db, request, owed, crashes, history>>
    <3>1. HelmEffect
      BY <2>1, <2>3, OneStepAtATime DEF HelmEffect, Helm
    <3>2. QED
      BY <1>2, <1>6, <2>1, <2>3, <3>1
  <2>4. CASE Helm(0) /\ Fail("other")
    <3>1. \E v : release' = [release EXCEPT ![Subject][handler.namespace] = v]
      BY <2>4 DEF Helm
    <3>2. \E error : /\ error = "other" /\ Fail(error)
      BY <2>4
    <3>3. Fails
      BY <2>1, <2>2, <3>1, <3>2 DEF Fails
    <3>4. QED
      BY <2>1, <3>3
  <2>5. CASE Installed = 0 /\ Fail("notFound") /\ UNCHANGED release
    BY <2>1, <2>2, <2>5 DEF Fails, Installed
  <2>6. CASE \E error \in {"unreachable", "other"} : Fail(error) /\ UNCHANGED release
    BY <2>1, <2>6 DEF Fails
  <2>7. QED
    BY <1>9, <2>1, <2>3, <2>4, <2>5, <2>6 DEF Uninstall
<1>10. CASE PublishKey
  <2>1. At("publish") /\ release' = release
    BY <1>10 DEF PublishKey
  <2>2. CASE Fail("other") /\ UNCHANGED publicKey
    BY <2>1, <2>2 DEF Fails
  <2>3. CASE /\ publicKey' = IF publicKey[handler.namespace] # NoKey THEN publicKey
                             ELSE [publicKey EXCEPT ![handler.namespace] = handler.key]
             /\ Then(handler) /\ UNCHANGED <<db, request, owed, crashes, history>>
    <3>1. PublishEffect
      BY <2>1, <2>3 DEF PublishEffect
    <3>2. QED
      BY <1>1, <1>6, <2>1, <2>3, <3>1
  <2>4. QED
    BY <1>10, <2>1, <2>2, <2>3 DEF PublishKey
<1>11. CASE SaveAppliedState
  <2> DEFINE h == [handler EXCEPT !.applied = deployment[Subject].desired]
  <2>1. At("save") /\ Then(h) /\ UNCHANGED <<db, request, owed, world, crashes, history>>
    BY <1>11 DEF SaveAppliedState, Applicable
  <2>2. handler \in HandlerRecord /\ Subject \in Deployment /\ handler.step \in 1..7 /\ handler.step # 1
    BY <2>1, StepTable
  <2>3. deployment[Subject].desired \in State \cup {None}
    BY <2>2 DEF TypeOK
  <2>4. /\ h \in HandlerRecord /\ h.step = handler.step /\ h.task = handler.task
        /\ h.ended = handler.ended /\ h.keyPairs = handler.keyPairs /\ h.key = handler.key
        /\ h.applied = deployment[Subject].desired /\ h.desired = handler.desired
        /\ h.namespace = handler.namespace
    BY <2>2, <2>3 DEF HandlerRecord
  <2> HIDE DEF h
  <2>5. Goes
    BY <2>1, <2>2, <2>4, ThenGoes, OneStepAtATime DEF Goes
  <2>6. QED
    BY <1>1, <1>2, <2>1, <2>5
<1>12. QED
  BY <1>3, <1>4, <1>5, <1>7, <1>8, <1>9, <1>10, <1>11 DEF Step

\* The tasks go on: none changes its deployment or its action, and only that of
\* the handler stops being active.
LEMMA TasksGoOn ==
    ASSUME TypeOK, HandlerInv, [Next]_vars
    PROVE  /\ \A t \in Task : task[t] # Unused =>
                 /\ task'[t] # Unused /\ task'[t].on = task[t].on /\ task'[t].action = task[t].action
           /\ \A t \in Task :
                 task[t].status \in ActiveStatus /\ ~(handler # NoHandler /\ handler.task = t) =>
                    task'[t].status \in ActiveStatus
<1> DEFINE GoOn == /\ \A t \in Task : task[t] # Unused =>
                         /\ task'[t] # Unused /\ task'[t].on = task[t].on
                         /\ task'[t].action = task[t].action
                   /\ \A t \in Task :
                         task[t].status \in ActiveStatus
                            /\ ~(handler # NoHandler /\ handler.task = t) =>
                               task'[t].status \in ActiveStatus
<1> USE DEF db
<1>1. CASE task' = task
  BY <1>1
<1>2. ASSUME NEW d \in Deployment, NEW action \in Actions, InsertTask(d, action) PROVE GoOn
  <2>1. PICK t \in Task : task[t] = Unused /\ \A u \in Task \ {t} : task'[u] = task[u]
    BY <1>2, InsertSets
  <2>2. Unused.status \notin ActiveStatus
    BY DEF Unused, ActiveStatus
  <2>3. QED
    BY <2>1, <2>2
<1>3. ASSUME NEW t \in Task, task[t] # Unused,
             NEW s \in {"created", "running", "cancelling", "finished", "cancelled", "error"},
             task' = [task EXCEPT ![t].status = s],
             s \in ActiveStatus \/ (handler # NoHandler /\ handler.task = t)
      PROVE  GoOn
  <2>1. /\ task'[t] \in TaskRecord
        /\ task'[t].on = task[t].on /\ task'[t].action = task[t].action /\ task'[t].status = s
        /\ \A u \in Task \ {t} : task'[u] = task[u]
    BY <1>3, TaskType
  <2>2. task'[t] # Unused
    BY <2>1 DEF TaskRecord, Unused
  <2>3. QED
    BY <1>3, <2>1, <2>2
<1>4. handler # NoHandler => handler.task \in Task /\ task[handler.task] # Unused
  BY Running DEF HandlerInv, RunsInv, Mine, Unused
<1>5. ASSUME NEW d \in Deployment, Create(d) PROVE GoOn
  BY <1>2, <1>5 DEF Create, Actions
<1>6. ASSUME NEW q \in Request, Update(q) \/ Delete(q) PROVE GoOn
  <2>1. request[q] \in Deployment
    BY <1>6 DEF Update, Delete, TypeOK
  <2>2. QED
    BY <1>2, <1>6, <2>1 DEF Update, Delete, Actions
<1>7. ASSUME NEW t \in Task, Take(t) \/ Cancel(t) PROVE GoOn
  <2>1. task[t] # Unused
    BY <1>7 DEF Take, Cancel, Unused
  <2>2. QED
    BY <1>3, <1>7, <2>1 DEF Take, Cancel, ActiveStatus
<1>8. CASE Step
  <2>1. Goes \/ Fails
    BY <1>8, StepEffect
  <2>2. handler # NoHandler
    BY <1>8, StepEffect, StepTable
  <2>3. Goes \/ task' = [task EXCEPT ![handler.task].status = "error"]
    BY <2>1 DEF Fails, Fail
  <2>4. QED
    BY <1>1, <1>3, <1>4, <2>2, <2>3 DEF Goes
<1>9. CASE RecordEnd \/ EndCancelled
  BY <1>3, <1>4, <1>9 DEF RecordEnd, EndCancelled
<1>10. QED
  BY <1>1, <1>5, <1>6, <1>7, <1>8, <1>9
     DEF Next, FindNoActiveTasks, UpdateResource, Commit, Crash, vars

\* So what waits for a handler still does, unless it is the handler's own.
LEMMA WaitingGoesOn ==
    ASSUME TypeOK, HandlerInv, [Next]_vars
    PROVE  /\ \A d \in Deployment : Active(d) /\ ~Busy(d) => Active(d)'
           /\ handler # NoHandler /\ handler' # NoHandler /\ handler'.task = handler.task =>
                 /\ Subject' = Subject /\ Mine'.action = Mine.action
                 /\ MoreToCome => MoreToCome'
<1>1. \A t \in Task : task[t].status \in ActiveStatus => task[t] # Unused
  BY DEF Unused, ActiveStatus
<1>2. ASSUME NEW d \in Deployment, Active(d), ~Busy(d) PROVE Active(d)'
  <2>1. PICK t \in Task : task[t].on = d /\ task[t].status \in ActiveStatus
    BY <1>2 DEF Active, ActiveStatus
  <2>2. ~(handler # NoHandler /\ handler.task = t)
    BY <1>2, <2>1 DEF Busy, Subject, Mine
  <2>3. task'[t].on = d /\ task'[t].status \in ActiveStatus
    BY <1>1, <2>1, <2>2, TasksGoOn
  <2>4. QED
    BY <2>3 DEF Active, ActiveStatus
<1>3. ASSUME handler # NoHandler, handler' # NoHandler, handler'.task = handler.task
      PROVE  /\ Subject' = Subject /\ Mine'.action = Mine.action
             /\ MoreToCome => MoreToCome'
  <2>1. handler.task \in Task /\ task[handler.task] # Unused
    BY <1>3, Running DEF HandlerInv, RunsInv, Mine, Unused
  <2>2. Subject' = Subject /\ Mine'.action = Mine.action
    BY <1>3, <2>1, TasksGoOn DEF Subject, Mine
  <2>3. ASSUME MoreToCome PROVE MoreToCome'
    <3>1. PICK t \in Task \ {handler.task} : task[t].on = Subject /\ task[t].status \in ActiveStatus
      BY <2>3 DEF MoreToCome
    <3>2. task'[t].on = Subject /\ task'[t].status \in ActiveStatus
      BY <1>1, <3>1, TasksGoOn
    <3>3. QED
      BY <1>3, <2>2, <3>1, <3>2 DEF MoreToCome
  <2>4. QED
    BY <2>2, <2>3
<1>4. QED
  BY <1>2, <1>3

\* A task that is inserted is active, and not that of the handler.
LEMMA InsertedIsActive ==
    ASSUME TypeOK, HandlerInv, NEW d \in Deployment, NEW action \in Actions,
           InsertTask(d, action), handler' = handler
    PROVE  /\ Active(d)'
           /\ Busy(d) => MoreToCome'
           /\ \E t \in Task :
                 task'[t].on = d /\ task'[t].action = action /\ task'[t].status \in ActiveStatus
<1>1. PICK t \in Task :
          /\ task[t] = Unused
          /\ task'[t] = [on |-> d, action |-> action, status |-> "created"]
          /\ \A u \in Task \ {t} : task'[u] = task[u]
  BY InsertSets
<1>2. /\ task'[t].on = d /\ task'[t].action = action
      /\ task'[t].status \in ActiveStatus /\ task'[t].status = "created"
  BY <1>1 DEF ActiveStatus
<1>3. Active(d)'
  BY <1>2 DEF Active
<1>4. ASSUME Busy(d) PROVE MoreToCome'
  <2>1. handler.task # t /\ Subject = d /\ handler.task \in Task
    BY <1>1, <1>4, Running DEF Busy, HandlerInv, RunsInv, Mine, Unused
  <2>2. Subject' = d
    BY <1>1, <2>1 DEF Subject, Mine
  <2>3. QED
    BY <1>2, <2>1, <2>2 DEF MoreToCome
<1>5. QED
  BY <1>2, <1>3, <1>4

\* What becomes of the row of a deployment: it is inserted, its desired state is
\* replaced, the handler of one of its tasks ends, or the error of one is written.
Inserted(d) ==
    /\ deployment[d].status = "absent"
    /\ deployment'[d].status = "created" /\ deployment'[d].applied = None
    /\ deployment'[d].desired \in State
    /\ Active(d)' /\ handler' = handler
    /\ \E t \in Task :
          task'[t].on = d /\ task'[t].action = "create" /\ task'[t].status \in ActiveStatus

Desired(d) ==
    /\ deployment[d].status # "absent"
    /\ deployment'[d].status = deployment[d].status
    /\ deployment'[d].applied = deployment[d].applied
    /\ deployment'[d].desired \in State
    /\ d \in moved' \/ Place(d)' = Place(d)
    /\ Active(d)' /\ handler' = handler
    /\ Busy(d) => handler.applied = None /\ MoreToCome'

Ends(d) ==
    /\ Busy(d) /\ handler' = NoHandler
    /\ deployment'[d].desired = deployment[d].desired
    /\ \/ deployment'[d].applied = deployment[d].applied
       \/ handler.applied # None /\ deployment'[d].applied = handler.applied
    /\ deployment[d].status # "absent" /\ deployment'[d].status # "absent"

Corrected(d) ==
    /\ \E t \in Task : UpdateResource(t) /\ task[t].on = d
    /\ handler' = handler
    /\ deployment[d].status # "absent" /\ deployment'[d].status \in {"deleted", "error"}
    /\ deployment'[d].desired = deployment[d].desired
    /\ deployment'[d].applied = deployment[d].applied

LEMMA CommitRow ==
    ASSUME TypeOK, HandlerInv, handler # NoHandler, NEW s, CommitWrites(s)
    PROVE  /\ deployment'[Subject].desired = deployment[Subject].desired
           /\ deployment'[Subject].applied =
                 IF handler.applied = None THEN deployment[Subject].applied ELSE handler.applied
           /\ deployment'[Subject].status = s
           /\ \A d \in Deployment \ {Subject} : deployment'[d] = deployment[d]
<1> DEFINE new == [deployment[Subject] EXCEPT
                     !.applied = IF handler.applied = None THEN @ ELSE handler.applied,
                     !.status = s]
<1>1. Subject \in Deployment /\ deployment \in [Deployment ->
          [desired : State \cup {None}, applied : State \cup {None},
           status : {"absent", "created", "provisioned", "error", "deleted"}]]
  BY Running DEF TypeOK
<1>2. deployment' = [deployment EXCEPT ![Subject] = new]
  BY <1>1 DEF CommitWrites
<1>3. /\ new.desired = deployment[Subject].desired /\ new.status = s
      /\ new.applied =
            IF handler.applied = None THEN deployment[Subject].applied ELSE handler.applied
  BY <1>1
<1> HIDE DEF new
<1>4. QED
  BY <1>1, <1>2, <1>3

\* The row of a task's deployment is there.
LEMMA SubjectIsThere ==
    ASSUME TypeOK, HandlerInv, CreationInv, handler # NoHandler
    PROVE  /\ Subject \in Deployment /\ deployment[Subject].status # "absent"
           /\ handler.task \in Task /\ task[handler.task] # Unused /\ handler \in HandlerRecord
  BY Running DEF CreationInv, HandlerInv, RunsInv, Mine, Subject, Unused

LEMMA Corrects ==
    ASSUME TypeOK, HandlerInv, CreationInv, NEW t \in Task, UpdateResource(t)
    PROVE  Corrected(task[t].on)
<1>1. task[t].on \in Deployment /\ task[t] # Unused
  BY UpdateRow
<1>2. deployment[task[t].on].status # "absent"
  BY <1>1 DEF CreationInv
<1>3. /\ deployment'[task[t].on].status \in {"deleted", "error"}
      /\ deployment'[task[t].on].desired = deployment[task[t].on].desired
      /\ deployment'[task[t].on].applied = deployment[task[t].on].applied
  BY UpdateRow
<1>4. handler' = handler
  BY DEF UpdateResource
<1>5. QED
  BY <1>2, <1>3, <1>4 DEF Corrected

LEMMA RowEffect ==
    ASSUME TypeOK, HandlerInv, CreationInv, [Next]_vars, NEW d \in Deployment
    PROVE  deployment'[d] = deployment[d] \/ Inserted(d) \/ Desired(d) \/ Ends(d) \/ Corrected(d)
<1> USE DEF db
<1>1. ASSUME NEW c \in Deployment, Create(c)
      PROVE  deployment'[d] = deployment[d] \/ Inserted(d)
  <2>1. PICK s \in State :
            deployment' = [deployment EXCEPT ![c] =
                [desired |-> s, applied |-> None, status |-> "created"]]
    BY <1>1 DEF Create
  <2>2. CASE c # d
    BY <2>1, <2>2 DEF TypeOK
  <2>3. CASE c = d
    <3>1. /\ deployment'[d].desired = s /\ deployment'[d].applied = None
          /\ deployment'[d].status = "created"
      BY <2>1, <2>3 DEF TypeOK
    <3>2. deployment[d].status = "absent" /\ InsertTask(d, "create") /\ handler' = handler
      BY <1>1, <2>3 DEF Create
    <3>3. Active(d)' /\ \E t \in Task :
              /\ task'[t].on = d /\ task'[t].action = "create"
              /\ task'[t].status \in ActiveStatus
      BY <3>2, InsertedIsActive DEF Actions
    <3>4. QED
      BY <3>1, <3>2, <3>3 DEF Inserted
  <2>4. QED
    BY <2>2, <2>3
<1>2. ASSUME NEW q \in Request, Update(q)
      PROVE  deployment'[d] = deployment[d] \/ Desired(d)
  <2>1. PICK s \in State :
            /\ deployment' = [deployment EXCEPT ![request[q]].desired = s]
            /\ moved' = IF s.namespace # deployment[request[q]].desired.namespace
                        THEN moved \cup {request[q]} ELSE moved
    BY <1>2 DEF Update
  <2>2. CASE request[q] # d
    BY <2>1, <2>2 DEF TypeOK
  <2>3. CASE request[q] = d
    <3>1. /\ deployment'[d].desired = s /\ deployment'[d].applied = deployment[d].applied
          /\ deployment'[d].status = deployment[d].status
      BY <2>1, <2>3 DEF TypeOK
    <3>2. d \in moved' \/ Place(d)' = Place(d)
      BY <2>1, <2>3, <3>1 DEF Place
    <3>3. /\ d # NoRequest /\ ~Locked(d) /\ InsertTask(d, "update") /\ handler' = handler
      BY <1>2, <2>3 DEF Update
    <3>4. deployment[d].status # "absent"
      BY <2>3, <3>3 DEF CreationInv
    <3>5. Active(d)' /\ (Busy(d) => MoreToCome')
      BY <3>3, InsertedIsActive DEF Actions
    <3>6. Busy(d) => handler.applied = None
      BY <3>3 DEF Locked, Busy, Subject, Mine
    <3>7. QED
      BY <3>1, <3>2, <3>3, <3>4, <3>5, <3>6 DEF Desired
  <2>4. QED
    BY <2>2, <2>3
<1>3. CASE Step
  BY <1>3, StepEffect DEF Goes, Fails, Fail
<1>4. ASSUME handler # NoHandler, handler' = NoHandler,
             NEW s \in {"created", "provisioned", "error", "deleted"}, CommitWrites(s)
      PROVE  deployment'[d] = deployment[d] \/ Ends(d)
  <2>1. deployment'[Subject].status # "absent"
    BY <1>4, CommitRow
  <2>2. QED
    BY <1>4, <2>1, CommitRow, SubjectIsThere DEF Ends, Busy
<1>5. CASE Commit
  BY <1>4, <1>5, CompletedStatus DEF Commit
<1>6. CASE EndCancelled
  <2>1. deployment[Subject].status \in {"created", "provisioned", "error", "deleted"}
    BY <1>6, SubjectIsThere DEF EndCancelled, TypeOK
  <2>2. QED
    BY <1>4, <1>6, <2>1 DEF EndCancelled
<1>7. ASSUME NEW t \in Task, UpdateResource(t)
      PROVE  deployment'[d] = deployment[d] \/ Corrected(d)
  BY <1>7, UpdateRow, Corrects
<1>8. QED
  BY <1>1, <1>2, <1>3, <1>5, <1>6, <1>7
     DEF Next, FindNoActiveTasks, Delete, Take, Cancel, RecordEnd, Crash, vars

\* A deployment is only touched by the handler of one of its own tasks.
LEMMA OthersAreLeftAlone ==
    ASSUME TypeOK, HandlerInv, [Next]_vars
    PROVE  /\ moved \subseteq moved' /\ faltered \subseteq faltered'
           /\ \A d \in Deployment : ~Busy(d) =>
                 /\ release'[d] = release[d] /\ keyPairs'[d] = keyPairs[d]
                 /\ \/ \E t \in Task : UpdateResource(t) /\ task[t].on = d
                    \/ /\ d \in unsettled' <=> d \in unsettled
                       /\ d \in belated' <=> d \in belated
                 /\ d \in assumedGone' <=> d \in assumedGone
                 /\ d \in faltered' <=> d \in faltered
           /\ \A d \in Deployment, n \in Namespace :
                 release'[d][n] = release[d][n] \/
                 (Busy(d) /\ n = handler.namespace /\ handler.step > 1)
<1> DEFINE Touched(d, n) == Busy(d) /\ n = handler.namespace /\ handler.step > 1
<1> USE DEF db, world, history
<1>1. handler # NoHandler => Subject \in Deployment
  BY Running
<1>2. \A d \in Deployment : ~Busy(d) => handler = NoHandler \/ d # Subject
  BY DEF Busy
\* What only concerns requests leaves the world as it is.
<1>3. CASE UNCHANGED <<world, keyPairs, unsettled, faltered, assumedGone, belated>> /\ moved \subseteq moved'
  BY <1>3
<1>4. ASSUME NEW q \in Request, Update(q) PROVE moved \subseteq moved'
  BY <1>4 DEF Update
<1>5. ASSUME NEW v, release' = [release EXCEPT ![Subject][handler.namespace] = v],
             handler # NoHandler, handler.step > 1
      PROVE  \A d \in Deployment : /\ d # Subject => release'[d] = release[d]
                                   /\ \A n \in Namespace : release'[d][n] = release[d][n] \/ Touched(d, n)
  BY <1>1, <1>5 DEF TypeOK, Busy
<1>6. CASE Step
  <2>1. PICK step : At(step)
    BY <1>6, StepEffect
  <2>2. handler # NoHandler /\ handler.step \in Nat
    BY <2>1, StepTable
  <2>3. At("install") \/ At("upgrade") \/ At("uninstall") => handler.step > 1
    BY StepTable
  <2>4. CASE Goes /\ HelmEffect
    <3>1. /\ UNCHANGED <<keyPairs, unsettled, faltered, moved, assumedGone, belated>>
          /\ \/ release' = release
             \/ /\ handler.step > 1
                /\ \E v : release' = [release EXCEPT ![Subject][handler.namespace] = v]
      BY <2>3, <2>4 DEF Goes, HelmEffect
    <3>2. QED
      BY <1>2, <1>5, <2>2, <3>1
  <2>5. CASE Fails
    <3>1. PICK error :
              /\ Fail(error)
              /\ \/ release' = release
                 \/ /\ handler.step > 1
                    /\ \E v : release' = [release EXCEPT ![Subject][handler.namespace] = v]
      BY <2>5 DEF Fails
    <3>2. /\ UNCHANGED <<keyPairs, moved, belated>>
          /\ unsettled' = unsettled \cup {Subject}
          /\ assumedGone' \in {assumedGone \cup {Subject}, assumedGone \ {Subject}}
          /\ faltered' \in {faltered \cup {Subject}, faltered}
      BY <3>1 DEF Fail, Falter
    <3>3. QED
      BY <1>2, <1>5, <2>2, <3>1, <3>2
  <2>6. QED
    BY <1>6, <2>4, <2>5, StepEffect
<1>7. CASE Commit
  <2>1. \A d \in Deployment \ {Subject} : keyPairs'[d] = keyPairs[d]
    BY <1>7, CommitSets, CompletedStatus DEF Commit
  <2>2. QED
    BY <1>2, <1>7, <2>1 DEF Commit
<1>8. CASE EndCancelled
  <2>1. deployment[Subject].status \in {"absent", "created", "provisioned", "error", "deleted"}
    BY <1>1, <1>8 DEF EndCancelled, TypeOK
  <2>2. \A d \in Deployment \ {Subject} : keyPairs'[d] = keyPairs[d]
    BY <1>8, <2>1, CommitSets DEF EndCancelled
  <2>3. QED
    BY <1>2, <1>8, <2>2 DEF EndCancelled, Falter
<1>9. CASE Crash
  <2>1. UNCHANGED <<keyPairs, release, moved, assumedGone, belated>>
    BY <1>9 DEF Crash
  <2>2. /\ unsettled' = unsettled \/ unsettled' = unsettled \cup {Subject}
        /\ faltered' = faltered \/ faltered' = faltered \cup {Subject}
        /\ handler = NoHandler => unsettled' = unsettled /\ faltered' = faltered
    BY <1>9 DEF Crash, Falter, NoHandler
  <2>3. QED
    BY <1>2, <2>1, <2>2
<1>11. ASSUME NEW t \in Task, UpdateResource(t)
       PROVE  /\ UNCHANGED <<keyPairs, world, faltered, moved, assumedGone>>
              /\ \A d \in Deployment : task[t].on # d =>
                    /\ d \in unsettled' <=> d \in unsettled
                    /\ d \in belated' <=> d \in belated
  BY <1>11 DEF UpdateResource
<1>10. QED
  BY <1>3, <1>4, <1>6, <1>7, <1>8, <1>9, <1>11
     DEF Next, Create, FindNoActiveTasks, Update, Delete, Take, Cancel, RecordEnd, vars

\* How a handler comes to be what it is.
LEMMA HandlerEffect ==
    ASSUME TypeOK, HandlerInv, [Next]_vars, handler' # NoHandler
    PROVE  \/ /\ handler # NoHandler /\ handler' = handler
              /\ UNCHANGED <<world, keyPairs, faltered>>
              /\ moved' = moved \/ \E q \in Request : Update(q)
           \/ handler = NoHandler /\ handler'.step = 1 /\ handler'.applied = None
              /\ handler'.keyPairs = {} /\ UNCHANGED <<deployment, keyPairs, world, history>>
              /\ \E t \in Task : Take(t)
           \/ Step /\ Goes /\ HelmEffect /\ PublishEffect
           \/ /\ RecordEnd /\ handler'.step = handler.step /\ handler'.desired = handler.desired
              /\ handler'.applied = handler.applied /\ handler'.task = handler.task
              /\ handler'.namespace = handler.namespace /\ handler'.key = handler.key
              /\ handler'.keyPairs = handler.keyPairs
<1> USE DEF db, world, history
<1>1. CASE Step
  <2>1. ~Fails
    BY DEF Fails, Fail
  <2>2. QED
    BY <1>1, <2>1, StepEffect
<1>2. CASE RecordEnd
  <2>1. handler \in HandlerRecord /\ handler' = [handler EXCEPT !.ended = TRUE]
    BY <1>2, Running DEF RecordEnd
  <2>2. QED
    BY <1>2, <2>1 DEF HandlerRecord
<1>3. ASSUME NEW t \in Task, Take(t)
      PROVE  /\ handler = NoHandler /\ handler'.step = 1 /\ handler'.applied = None
             /\ handler'.keyPairs = {} /\ UNCHANGED <<deployment, keyPairs, world, history>>
  BY <1>3 DEF Take, NoHandler
<1>4. ~Commit /\ ~EndCancelled /\ ~Crash
  BY DEF Commit, EndCancelled, Crash
<1>5. QED
  BY <1>1, <1>2, <1>3, <1>4
     DEF Next, Create, FindNoActiveTasks, Update, Delete, Cancel, UpdateResource, vars

LEMMA NoneIsNoState == None \notin State
<1>1. \A s \in State : s.version \in Version
  BY DEF State
<1>2. None.version = 0
  BY DEF None
<1>3. QED
  BY <1>1, <1>2, HandlersAssumption

LEMMA PlaceStep ==
    ASSUME KeysInv, KeysInv', PlaceInv, ReadInv, [Next]_vars
    PROVE  PlaceInv'
<1> SUFFICES ASSUME NEW d \in Deployment
             PROVE  /\ IF deployment'[d].status = "absent"
                       THEN deployment'[d].applied = None /\ \A n \in Namespace : release'[d][n] = 0
                       ELSE deployment'[d].desired \in State
                    /\ d \notin moved' =>
                          /\ deployment'[d].applied # None =>
                                deployment'[d].applied.namespace = Place(d)'
                          /\ \A n \in Namespace : release'[d][n] # 0 => n = Place(d)'
  BY DEF PlaceInv
<1> USE DEF KeysInv
<1>1. Busy(d) => deployment[d].status # "absent"
  BY SubjectIsThere DEF Busy
<1>2. d \notin moved' => d \notin moved
  BY OthersAreLeftAlone
<1>3. /\ deployment[d].status = "absent" =>
            deployment[d].applied = None /\ \A n \in Namespace : release[d][n] = 0
      /\ deployment[d].status # "absent" => deployment[d].desired \in State
      /\ d \notin moved =>
            /\ deployment[d].applied # None => deployment[d].applied.namespace = Place(d)
            /\ \A n \in Namespace : release[d][n] # 0 => n = Place(d)
  BY DEF PlaceInv
<1>4. \A n \in Namespace : release'[d][n] = release[d][n] \/ Busy(d)
  BY OthersAreLeftAlone
<1>5. d \notin moved => \A n \in Namespace : release'[d][n] # 0 => n = Place(d)
  <2> SUFFICES ASSUME d \notin moved, NEW n \in Namespace, release'[d][n] # 0
               PROVE  n = Place(d)
    OBVIOUS
  <2>1. CASE release'[d][n] = release[d][n]
    BY <1>3, <2>1
  <2>2. CASE Busy(d) /\ n = handler.namespace /\ handler.step > 1
    BY <2>2 DEF ReadInv, Busy
  <2>3. QED
    BY <2>1, <2>2, OthersAreLeftAlone
<1>6. CASE deployment'[d] = deployment[d]
  BY <1>1, <1>2, <1>3, <1>4, <1>5, <1>6 DEF Place
<1>7. CASE Inserted(d)
  BY <1>1, <1>3, <1>4, <1>7 DEF Inserted
<1>8. CASE Desired(d)
  BY <1>2, <1>3, <1>5, <1>8 DEF Desired
<1>9. CASE Ends(d)
  <2>1. Place(d)' = Place(d)
    BY <1>9 DEF Ends, Place
  <2>2. handler.applied # None => handler.applied = deployment[d].desired
    BY <1>9 DEF Ends, Busy, ReadInv
  <2>3. QED
    BY <1>2, <1>3, <1>5, <1>9, <2>1, <2>2 DEF Ends, Place
<1>10. CASE Corrected(d)
  <2>1. Place(d)' = Place(d)
    BY <1>10 DEF Corrected, Place
  <2>2. QED
    BY <1>2, <1>3, <1>5, <1>10, <2>1 DEF Corrected
<1>11. QED
  BY <1>6, <1>7, <1>8, <1>9, <1>10, RowEffect

\* While the handler of a deployment stays as it is, the row may get another
\* desired state, with a task to come, or in its own namespace.
LEMMA SubjectRow ==
    ASSUME KeysInv, [Next]_vars, NEW d \in Deployment, Busy(d), handler' # NoHandler
    PROVE  /\ deployment[d].status # "absent"
           /\ deployment'[d].desired = deployment[d].desired \/ Desired(d)
           /\ d \notin moved' => d \notin moved
<1> USE DEF KeysInv
<1>1. deployment[d].status # "absent"
  BY SubjectIsThere DEF Busy
<1>2. ~Inserted(d) /\ ~Ends(d)
  BY <1>1 DEF Inserted, Ends
<1>3. QED
  BY <1>1, <1>2, RowEffect, OthersAreLeftAlone DEF Corrected

LEMMA ReadStep ==
    ASSUME KeysInv, KeysInv', PlaceInv, ReadInv, [Next]_vars
    PROVE  ReadInv'
<1> SUFFICES ASSUME handler' # NoHandler PROVE ReadInv'
  BY DEF ReadInv
<1> USE DEF KeysInv
<1>1. CASE handler # NoHandler /\ handler' = handler
  <2>0. PICK d \in Deployment : d = Subject
    BY <1>1, SubjectIsThere
  <2>1. Subject' = d /\ (MoreToCome => MoreToCome') /\ Busy(d)
    BY <1>1, <2>0, WaitingGoesOn DEF Busy
  <2>2. /\ handler.step > 1 => handler.desired \in State
        /\ handler.step > 1 => handler.desired = deployment[d].desired \/ MoreToCome
        /\ handler.applied # None => handler.applied = deployment[d].desired
        /\ handler.step > 1 /\ d \notin moved => handler.namespace = deployment[d].desired.namespace
    BY <1>1, <2>0 DEF ReadInv, Place
  <2>3. CASE deployment'[d].desired = deployment[d].desired
    <3>1. d \notin moved' => d \notin moved
      BY <2>1, SubjectRow
    <3>2. QED
      BY <1>1, <2>1, <2>2, <2>3, <3>1 DEF ReadInv, Place
  <2>4. CASE Desired(d)
    <3>1. /\ handler.applied = None /\ MoreToCome'
          /\ d \in moved' \/ deployment'[d].desired.namespace = deployment[d].desired.namespace
      BY <2>1, <2>4 DEF Desired, Place
    <3>2. d \notin moved' => d \notin moved
      BY <2>1, SubjectRow
    <3>3. QED
      BY <1>1, <2>1, <2>2, <3>1, <3>2 DEF ReadInv, Place
  <2>5. QED
    BY <2>1, <2>3, <2>4, SubjectRow
<1>2. CASE handler'.step = 1 /\ handler'.applied = None
  BY <1>2 DEF ReadInv
<1>3. CASE Step /\ Goes
  <2>1. PICK step : At(step)
    BY <1>3, StepEffect
  <2>0. PICK d \in Deployment : d = Subject
    BY <2>1, StepTable
  <2>2. /\ handler # NoHandler /\ handler.step \in 1..7 /\ d = Subject
        /\ UNCHANGED <<deployment, moved>> /\ handler'.task = handler.task
    BY <1>3, <2>0, <2>1, StepTable DEF Goes
  <2>3. Subject' = d /\ (MoreToCome => MoreToCome')
    BY <2>2, WaitingGoesOn
  <2>4. deployment[d].desired \in State
    BY <2>2, SubjectIsThere DEF PlaceInv
  <2>5. /\ handler'.desired \in State
        /\ handler'.desired = deployment[d].desired \/ MoreToCome
    <3>1. CASE handler.step = 1
      BY <1>3, <2>2, <2>4, <3>1 DEF Goes
    <3>2. CASE handler.step > 1
      BY <1>3, <2>2, <3>2 DEF Goes, ReadInv
    <3>3. QED
      BY <2>2, <3>1, <3>2
  <2>6. d \notin moved => handler'.namespace = deployment[d].desired.namespace
    <3>1. CASE handler.step = 1
      BY <1>3, <2>2, <3>1 DEF Goes, BestNamespace, PlaceInv, Place
    <3>2. CASE handler.step > 1
      BY <1>3, <2>2, <3>2 DEF Goes, ReadInv, Place
    <3>3. QED
      BY <2>2, <3>1, <3>2
  <2>7. handler'.applied # None => handler'.applied = deployment[d].desired
    BY <1>3, <2>2 DEF Goes, ReadInv
  <2>8. QED
    BY <2>2, <2>3, <2>5, <2>6, <2>7 DEF ReadInv, Place
<1>4. CASE /\ RecordEnd /\ handler'.step = handler.step /\ handler'.desired = handler.desired
           /\ handler'.applied = handler.applied /\ handler'.task = handler.task
           /\ handler'.namespace = handler.namespace
  <2>1. handler # NoHandler /\ UNCHANGED <<deployment, moved>>
    BY <1>4 DEF RecordEnd, history
  <2>2. Subject' = Subject /\ (MoreToCome => MoreToCome')
    BY <1>4, <2>1, WaitingGoesOn
  <2>3. QED
    BY <1>4, <2>1, <2>2 DEF ReadInv, Place
<1>5. QED
  BY <1>1, <1>2, <1>3, <1>4, HandlerEffect

LEMMA HelmStep ==
    ASSUME KeysInv, KeysInv', PlaceInv, ReadInv, HelmInv, [Next]_vars
    PROVE  HelmInv'
<1> SUFFICES ASSUME handler' # NoHandler PROVE HelmInv'
  BY DEF HelmInv
<1> USE DEF KeysInv
<1>1. ASSUME handler # NoHandler, handler'.task = handler.task, handler'.step = handler.step,
             handler'.desired = handler.desired, handler'.applied = handler.applied,
             release' = release
      PROVE  HelmInv'
  <2>0. PICK d \in Deployment : d = Subject
    BY <1>1, SubjectIsThere
  <2>1. Subject' = d /\ Mine'.action = Mine.action /\ Busy(d)
    BY <1>1, <2>0, WaitingGoesOn DEF Busy
  <2>2. d \notin moved' => d \notin moved /\ Place(d)' = Place(d)
    BY <2>1, SubjectRow DEF Desired, Place
  <2>3. d \notin moved =>
            /\ Mine.action # "delete" /\ handler.step > 5 =>
                  release[d][Place(d)] = handler.desired.version
            /\ Mine.action # "delete" /\ handler.step > Len(Steps[Mine.action]) =>
                  handler.applied # None
            /\ Mine.action = "delete" /\ handler.step > 3 =>
                  \A n \in Namespace : release[d][n] = 0
    BY <1>1, <2>0 DEF HelmInv
  <2>4. d \notin moved' =>
            /\ Mine'.action # "delete" /\ handler'.step > 5 =>
                  release'[d][Place(d)'] = handler'.desired.version
            /\ Mine'.action # "delete" /\ handler'.step > Len(Steps[Mine'.action]) =>
                  handler'.applied # None
            /\ Mine'.action = "delete" /\ handler'.step > 3 =>
                  \A n \in Namespace : release'[d][n] = 0
    BY <1>1, <2>1, <2>2, <2>3
  <2>5. Place(Subject)' = Place(d)'
    BY <2>1 DEF Place
  <2>6. QED
    BY <2>1, <2>4, <2>5 DEF HelmInv
<1>2. CASE handler'.step = 1
  <2>1. PICK action \in Actions : action = Mine'.action
    <3>1. handler'.task \in Task /\ Mine'.status # "unused"
      BY <1>2 DEF TypeOK, HandlerInv, RunsInv
    <3>2. Mine' \in TaskRecord
      BY <3>1 DEF TypeOK, TaskRecord, Unused, Mine
    <3>3. QED
      BY <3>2 DEF TaskRecord
  <2>2. ~(1 > Len(Steps[action]))
    <3>1. CASE action = "create"
      BY <3>1, StepsLength
    <3>2. CASE action = "update"
      BY <3>2, StepsLength
    <3>3. CASE action = "delete"
      BY <3>3, StepsLength
    <3>4. QED
      BY <3>1, <3>2, <3>3 DEF Actions
  <2>3. QED
    BY <1>2, <2>1, <2>2 DEF HelmInv
<1>3. CASE Step /\ Goes /\ HelmEffect
  <2>1. PICK step : At(step)
    BY <1>3, StepEffect
  <2>0. PICK d \in Deployment : d = Subject
    BY <2>1, StepTable
  <2>2. /\ handler # NoHandler /\ handler \in HandlerRecord /\ handler.step \in 1..7
        /\ UNCHANGED <<deployment, moved>>
        /\ handler'.task = handler.task /\ handler'.step = handler.step + 1
        /\ handler.step # 1 => handler'.desired = handler.desired
    BY <1>3, <2>1, StepTable DEF Goes
  <2>3. Subject' = d /\ Mine'.action = Mine.action /\ Mine.action \in Actions
    BY <2>0, <2>2, WaitingGoesOn, Running
  <2>4. /\ release \in [Deployment -> [Namespace -> Version \cup {0}]]
        /\ deployment[d].desired \in State /\ Place(d) \in Namespace
    BY <2>0, <2>2, SubjectIsThere DEF TypeOK, PlaceInv, Place, State
  <2>5. ASSUME d \notin moved
        PROVE  /\ Mine.action # "delete" /\ handler'.step > 5 =>
                     release'[d][Place(d)] = handler'.desired.version
               /\ Mine.action = "delete" /\ handler'.step > 3 =>
                     \A n \in Namespace : release'[d][n] = 0
    <3>1. handler.step > 1 => handler.namespace = Place(d)
      BY <2>0, <2>2, <2>5 DEF ReadInv
    <3>2. \A n \in Namespace : release[d][n] # 0 => n = Place(d)
      BY <2>5 DEF PlaceInv
    <3>3. ASSUME Mine.action # "delete", handler.step = 5
          PROVE  release'[d][Place(d)] = handler.desired.version
      <4>1. step \in {"install", "upgrade"}
        BY <2>1, <2>3, <3>3, StepTable DEF Actions
      <4>2. release' = [release EXCEPT ![d][Place(d)] = handler.desired.version]
        <5>1. At("install") \/ At("upgrade")
          BY <2>1, <4>1
        <5>2. handler.namespace = Place(d)
          BY <3>1, <3>3
        <5>3. QED
          BY <1>3, <2>0, <5>1, <5>2 DEF HelmEffect
      <4>3. QED
        BY <2>4, <4>2
    <3>4. ASSUME Mine.action = "delete", handler.step = 3
          PROVE  \A n \in Namespace : release'[d][n] = 0
      <4>1. step = "uninstall"
        BY <2>1, <3>4, StepTable
      <4>2. release' = [release EXCEPT ![d][Place(d)] = 0]
        <5>1. At("uninstall") /\ ~At("install") /\ ~At("upgrade")
          BY <2>1, <4>1, OneStepAtATime
        <5>2. handler.namespace = Place(d)
          BY <3>1, <3>4
        <5>3. QED
          BY <1>3, <2>0, <5>1, <5>2 DEF HelmEffect
      <4>3. QED
        BY <2>4, <3>2, <4>2
    <3>5. ASSUME \/ Mine.action # "delete" /\ handler.step > 5
                 \/ Mine.action = "delete" /\ handler.step > 3
          PROVE  release' = release
      <4>1. step \notin {"install", "upgrade", "uninstall"}
        BY <2>1, <2>2, <3>5, StepTable
      <4>2. QED
        BY <1>3, <2>1, <4>1, OneStepAtATime DEF HelmEffect
    <3>6. /\ Mine.action # "delete" /\ handler.step > 5 =>
                release[d][Place(d)] = handler.desired.version
          /\ Mine.action = "delete" /\ handler.step > 3 =>
                \A n \in Namespace : release[d][n] = 0
      BY <2>0, <2>2, <2>5 DEF HelmInv
    <3>7. Mine.action # "delete" /\ handler'.step > 5 =>
              release'[d][Place(d)] = handler'.desired.version
      BY <2>2, <3>3, <3>5, <3>6
    <3>8. Mine.action = "delete" /\ handler'.step > 3 =>
              \A n \in Namespace : release'[d][n] = 0
      BY <2>2, <3>4, <3>5, <3>6
    <3>9. QED
      BY <3>7, <3>8
  <2>6. Mine.action # "delete" /\ handler'.step > Len(Steps[Mine.action]) => handler'.applied # None
    <3>1. SUFFICES ASSUME Mine.action # "delete", handler'.step > Len(Steps[Mine.action])
                   PROVE  handler'.applied # None
      OBVIOUS
    <3>2. handler.step = Len(Steps[Mine.action])
      BY <2>1, <2>2, <2>3, <3>1, StepsLength DEF At, Actions
    <3>3. step = "save"
      BY <2>1, <2>3, <3>1, <3>2, StepsLength, StepTable DEF Actions
    <3>4. handler'.applied = deployment[d].desired
      BY <1>3, <2>0, <2>1, <3>3 DEF Goes
    <3>5. QED
      BY <2>4, <3>4, NoneIsNoState
  <2>7. Place(Subject)' = Place(d)
    BY <2>2, <2>3 DEF Place
  <2>8. QED
    BY <2>2, <2>3, <2>5, <2>6, <2>7 DEF HelmInv
<1>4. CASE /\ RecordEnd /\ handler'.step = handler.step /\ handler'.desired = handler.desired
           /\ handler'.applied = handler.applied /\ handler'.task = handler.task
  BY <1>1, <1>4 DEF RecordEnd, world
<1>5. CASE handler # NoHandler /\ handler' = handler /\ UNCHANGED world
  BY <1>1, <1>5 DEF world
<1>6. QED
  BY <1>2, <1>3, <1>4, <1>5, HandlerEffect

\* The handler of a deployment is gone: it committed, was cancelled, failed or
\* died with the process.
LEMMA HandlerEnds ==
    ASSUME TypeOK, HandlerInv, [Next]_vars, handler # NoHandler, handler' = NoHandler
    PROVE  Commit \/ EndCancelled \/ Crash \/ (Step /\ Fails)
<1>1. CASE Step
  <2>1. ~Goes
    BY DEF Goes, HandlerRecord, NoHandler
  <2>2. QED
    BY <1>1, <2>1, StepEffect
<1>2. ~RecordEnd
  <2>1. ASSUME RecordEnd PROVE FALSE
    <3>1. handler \in HandlerRecord /\ handler' = [handler EXCEPT !.ended = TRUE]
      BY <2>1, Running DEF RecordEnd
    <3>2. QED
      BY <3>1 DEF HandlerRecord, NoHandler
  <2>2. QED
    BY <2>1
<1>3. QED
  BY <1>1, <1>2
     DEF Next, Create, FindNoActiveTasks, Update, Delete, Take, Cancel, UpdateResource, vars

LEMMA QuietStep ==
    ASSUME KeysInv, KeysInv', PlaceInv, ReadInv, HelmInv, QuietInv, LateInv, [Next]_vars
    PROVE  QuietInv'
<1> SUFFICES ASSUME NEW d \in Deployment, d \notin moved', ~Active(d)', d \notin unsettled', ~Busy(d)'
             PROVE  /\ deployment'[d].status = "provisioned" =>
                          /\ deployment'[d].applied # None
                          /\ release'[d][deployment'[d].applied.namespace]
                                = deployment'[d].applied.version
                    /\ deployment'[d].status = "deleted" /\ d \notin assumedGone' \cup belated' =>
                          \A n \in Namespace : release'[d][n] = 0
  BY DEF QuietInv
<1> USE DEF KeysInv
<1>0. d \notin moved
  BY OthersAreLeftAlone
<1>4. CASE Corrected(d)
  <2>1. PICK t \in Task : UpdateResource(t) /\ task[t].on = d
    BY <1>4 DEF Corrected
  <2>2. SUFFICES ASSUME deployment'[d].status = "deleted", d \notin assumedGone' \cup belated'
                 PROVE  \A n \in Namespace : release'[d][n] = 0
    BY <1>4 DEF Corrected
  <2>3. owed[t] \notin {"none", "awaited", "overtaken"} /\ owed[t] \in {"none", "awaited", "late", "overtaken"}
    BY <2>1, <2>2, UpdateRow DEF UpdateResource, StatusOnError, TypeOK
  <2>4. release' = release /\ d \notin assumedGone
    BY <2>1, <2>2 DEF UpdateResource, world
  <2>5. QED
    BY <1>0, <2>1, <2>3, <2>4 DEF LateInv, Gone
<1>1. CASE ~Busy(d) /\ ~Corrected(d)
  <2>0. ~\E t \in Task : UpdateResource(t) /\ task[t].on = d
    BY <1>1, Corrects
  <2>1. ~Active(d) /\ d \notin unsettled
    BY <1>1, <2>0, WaitingGoesOn, OthersAreLeftAlone
  <2>2. deployment'[d] = deployment[d]
    BY <1>1, RowEffect DEF Inserted, Desired, Ends
  <2>3. /\ release'[d] = release[d] /\ (d \in assumedGone' <=> d \in assumedGone)
        /\ d \in belated' <=> d \in belated
    BY <1>1, <2>0, OthersAreLeftAlone
  <2>4. QED
    BY <1>0, <1>1, <2>1, <2>2, <2>3 DEF QuietInv
<1>2. CASE Busy(d)
  <2>1. handler # NoHandler /\ d = Subject /\ deployment[d].status # "absent"
    BY <1>2, SubjectIsThere DEF Busy
  <2>2. handler' = NoHandler
    <3>1. SUFFICES ASSUME handler' # NoHandler PROVE FALSE
      OBVIOUS
    <3>2. handler'.task = handler.task
      BY <2>1, <3>1, HandlerEffect DEF Goes
    <3>3. Subject' = d
      BY <2>1, <3>1, <3>2, WaitingGoesOn
    <3>4. QED
      BY <3>1, <3>3 DEF Busy
  <2>3. /\ handler \in HandlerRecord /\ Mine.action \in Actions /\ deployment[d].desired \in State
        /\ \A n \in Namespace : release[d][n] # 0 => n = Place(d)
    BY <1>0, <2>1, Running DEF PlaceInv
  <2>4. CASE Commit
    <3>1. /\ deployment'[d].applied =
                IF handler.applied = None THEN deployment[d].applied ELSE handler.applied
          /\ deployment'[d].status = Completed /\ release' = release
      BY <2>1, <2>4, CommitRow DEF Commit, world
    <3>2. handler.ended /\ handler.step > Len(Steps[Mine.action])
      BY <2>4 DEF Commit, HandlerInv, RunsInv
    <3>3. ASSUME Completed = "provisioned"
          PROVE  /\ handler.applied # None
                 /\ release[d][handler.applied.namespace] = handler.applied.version
      <4>1. Mine.action \in {"create", "update"}
        BY <2>3, <3>3 DEF Completed, Actions
      <4>2. handler.step > 6
        <5>1. CASE Mine.action = "create"
          BY <2>3, <3>2, <5>1, StepsLength DEF HandlerRecord
        <5>2. CASE Mine.action = "update"
          BY <2>3, <3>2, <5>2, StepsLength DEF HandlerRecord
        <5>3. QED
          BY <4>1, <5>1, <5>2
      <4>3. handler.applied # None /\ release[d][Place(d)] = handler.desired.version
        BY <1>0, <2>1, <2>3, <3>2, <4>1, <4>2 DEF HelmInv, HandlerRecord
      <4>4. handler.applied = deployment[d].desired
        BY <2>1, <4>3 DEF ReadInv
      <4>5. ~MoreToCome
        <5>1. \A t \in Task : task[t].on = d => task[t].status \notin ActiveStatus
          BY <2>4 DEF Commit, Active, ActiveStatus
        <5>2. QED
          BY <2>1, <5>1 DEF MoreToCome
      <4>6. handler.desired = deployment[d].desired
        BY <2>1, <2>3, <4>2, <4>5 DEF ReadInv, HandlerRecord
      <4>7. QED
        BY <4>3, <4>4, <4>6 DEF Place
    <3>4. ASSUME Completed = "deleted" PROVE \A n \in Namespace : release[d][n] = 0
      <4>1. Mine.action = "delete"
        BY <3>4 DEF Completed
      <4>2. handler.step > 3
        BY <2>3, <3>2, <4>1, StepsLength DEF HandlerRecord
      <4>3. QED
        BY <1>0, <2>1, <4>1, <4>2 DEF HelmInv
    <3>5. QED
      BY <3>1, <3>3, <3>4
  <2>5. CASE EndCancelled
    BY <2>1, <2>5 DEF EndCancelled
  <2>6. CASE Crash
    <3>1. ~handler.ended
      BY <2>1, <2>6 DEF Crash
    <3>2. handler.task \in Task /\ task[handler.task].status \in ActiveStatus /\ task' = task
      BY <2>1, <2>3, <2>6, <3>1 DEF Crash, db, HandlerInv, RunsInv, HandlerRecord, Mine, ActiveStatus
    <3>3. QED
      BY <2>1, <3>2 DEF Active, ActiveStatus, Subject, Mine
  <2>7. CASE Step /\ Fails
    BY <2>1, <2>7 DEF Fails, Fail
  <2>8. QED
    BY <2>1, <2>2, <2>4, <2>5, <2>6, <2>7, HandlerEnds
<1>3. QED
  BY <1>1, <1>2, <1>4

\* What is still to be written changes when it is written, overtaken or lost,
\* and when a handler fails.
LEMMA OwedEffect ==
    ASSUME TypeOK, HandlerInv, [Next]_vars, NEW u \in Task
    PROVE  \/ owed'[u] = owed[u]
           \/ owed'[u] = "none"
           \/ owed[u] = "late" /\ owed'[u] = "overtaken"
           \/ Step /\ handler' = NoHandler
<1> USE DEF db, world, history
<1>1. CASE Step
  <2>1. CASE Proceeds
    BY <2>1 DEF Proceeds
  <2>2. CASE \E error : Fail(error)
    BY <1>1, <2>2 DEF Fail
  <2>3. QED
    BY <1>1, <2>1, <2>2, StepSets
<1>2. ASSUME NEW t \in Task, Take(t)
      PROVE  owed'[u] = owed[u] \/ (owed[u] = "late" /\ owed'[u] = "overtaken")
  BY <1>2 DEF Take
<1>3. ASSUME NEW t \in Task, UpdateResource(t) PROVE owed'[u] = owed[u] \/ owed'[u] = "none"
  BY <1>3 DEF UpdateResource, TypeOK
<1>4. CASE Crash
  BY <1>4 DEF Crash
<1>5. CASE owed' = owed
  BY <1>5
<1>6. QED
  BY <1>1, <1>2, <1>3, <1>4, <1>5
     DEF Next, Create, FindNoActiveTasks, Update, Delete, Cancel, RecordEnd, Commit, EndCancelled, vars

\* Only a handler that found no release, or could not look, leaves a late write;
\* the next one on the deployment overtakes it.
LEMMA LateStep ==
    ASSUME KeysInv, KeysInv', PlaceInv, ReadInv, LateInv, [Next]_vars
    PROVE  LateInv'
<1> SUFFICES ASSUME NEW u \in Task, owed'[u] = "late" PROVE Gone(u)'
  BY DEF LateInv
<1> USE DEF KeysInv
<1>1. task'[u].status = "error"
  BY DEF HandlerInv, OwedInv
<1>2. CASE owed[u] = "late"
  <2>1. task[u] # Unused /\ task[u].on \in Deployment
    BY <1>2, UsedTask DEF HandlerInv, OwedInv
  <2>2. PICK d \in Deployment : d = task[u].on
    BY <2>1
  <2>3. task'[u].on = d /\ ~Busy(d)
    BY <1>2, <2>1, <2>2, TasksGoOn DEF LateInv, Gone
  <2>4. ~Busy(d)'
    <3>1. SUFFICES ASSUME handler' # NoHandler, Subject' = d PROVE FALSE
      BY DEF Busy
    <3>2. ASSUME handler # NoHandler, handler'.task = handler.task PROVE FALSE
      BY <2>3, <3>1, <3>2, WaitingGoesOn DEF Busy
    <3>3. ASSUME NEW t \in Task, Take(t) PROVE FALSE
      <4>1. handler'.task = t /\ task[t] # Unused
        BY <3>3 DEF Take, NoHandler, Unused
      <4>2. task[t].on = d
        BY <3>1, <4>1, TasksGoOn DEF Subject, Mine
      <4>3. QED
        BY <1>2, <2>2, <3>3, <4>2 DEF Take
    <3>4. CASE handler # NoHandler /\ handler'.task = handler.task
      BY <3>2, <3>4
    <3>5. CASE Step /\ Goes
      <4>1. handler # NoHandler
        BY <3>5, StepEffect DEF At
      <4>2. QED
        BY <3>2, <3>5, <4>1 DEF Goes
    <3>6. QED
      BY <3>1, <3>3, <3>4, <3>5, HandlerEffect DEF RecordEnd
  <2>5. /\ release'[d] = release[d] /\ (d \in assumedGone' <=> d \in assumedGone)
        /\ moved \subseteq moved'
    BY <2>3, OthersAreLeftAlone
  <2>6. QED
    BY <1>2, <2>2, <2>3, <2>4, <2>5 DEF LateInv, Gone
<1>3. CASE owed[u] # "late"
  <2>1. Step /\ Fails
    <3>1. Step /\ handler' = NoHandler
      BY <1>3, OwedEffect
    <3>2. NoHandler \notin HandlerRecord
      BY HandlersAssumption DEF NoHandler, HandlerRecord
    <3>3. QED
      BY <3>1, <3>2, StepEffect DEF Goes
  <2>2. handler # NoHandler /\ handler' = NoHandler
    BY <2>1, StepEffect DEF At, Fails, Fail
  <2>3. PICK error :
            /\ Fail(error)
            /\ error = "notFound" =>
                  /\ release' = release /\ handler.step > 1
                  /\ release[Subject][handler.namespace] = 0
    BY <2>1 DEF Fails
  <2>4. u = handler.task /\ Owes(error) = "late"
    BY <1>3, <2>2, <2>3 DEF Fail, TypeOK
  <2>5. PICK d \in Deployment : d = Subject
    BY <2>2, SubjectIsThere
  <2>6. task'[u].on = d
    BY <2>2, <2>4, <2>5, SubjectIsThere, TasksGoOn DEF Subject, Mine
  <2>7. CASE d \in assumedGone' \cup moved'
    BY <2>2, <2>6, <2>7 DEF Gone, Busy
  <2>8. CASE d \notin assumedGone' \cup moved'
    <3>1. error = "notFound"
      BY <2>3, <2>4, <2>5, <2>8 DEF Owes, Fail
    <3>2. d \notin moved
      BY <2>8, OthersAreLeftAlone
    <3>3. handler.namespace = Place(d)
      BY <2>2, <2>3, <2>5, <3>1, <3>2 DEF ReadInv
    <3>4. \A n \in Namespace : release[d][n] # 0 => n = Place(d)
      BY <3>2 DEF PlaceInv
    <3>5. QED
      BY <2>2, <2>3, <2>5, <2>6, <3>1, <3>3, <3>4 DEF Gone, Busy
  <2>9. QED
    BY <2>7, <2>8
<1>4. QED
  BY <1>2, <1>3

LEMMA InitInstalled == Init => InstalledInv
<1> SUFFICES ASSUME Init PROVE InstalledInv
  OBVIOUS
<1>1. PlaceInv /\ QuietInv
  BY DEF Init, PlaceInv, QuietInv
<1>2. ReadInv /\ HelmInv
  BY DEF Init, ReadInv, HelmInv
<1>3. LateInv
  BY DEF Init, LateInv
<1>4. QED
  BY <1>1, <1>2, <1>3 DEF InstalledInv

LEMMA StepInstalled == KeysInv /\ KeysInv' /\ InstalledInv /\ [Next]_vars => InstalledInv'
  BY PlaceStep, ReadStep, HelmStep, QuietStep, LateStep DEF InstalledInv

LEMMA InstalledHolds == Spec => [](KeysInv /\ InstalledInv)
<1>1. Init => KeysInv /\ InstalledInv
  BY InitKeys, InitInstalled
<1>2. KeysInv /\ InstalledInv /\ [Next]_vars => (KeysInv /\ InstalledInv)'
  BY StepKeys, StepInstalled
<1>3. QED
  BY <1>1, <1>2, PTL DEF Spec

-----------------------------------------------------------------------------
\* The way a creation ends.
LEMMA CreationEnds ==
    ASSUME TypeOK, HandlerInv, [Next]_vars, handler # NoHandler, handler' = NoHandler,
           Mine.action = "create"
    PROVE  Commit \/ Subject \in faltered'
  BY HandlerEnds DEF EndCancelled, Crash, Fails, Fail, Falter

\* A deployment is shown as created from its beginning only.
LEMMA CreatedBefore ==
    ASSUME KeysInv, [Next]_vars, NEW d \in Deployment, ~Inserted(d)
    PROVE  /\ deployment'[d].status = "created" => deployment[d].status = "created"
           /\ deployment'[d].status = "absent" <=> deployment[d].status = "absent"
           /\ deployment[d].status # "absent" /\ moved' = {} => Place(d)' = Place(d)
           /\ deployment'[d].status # deployment[d].status => Ends(d) \/ Corrected(d)
<1> USE DEF KeysInv
<1>1. CASE deployment'[d] = deployment[d] \/ Desired(d)
  BY <1>1 DEF Desired, Place
<1>2. CASE Ends(d)
  <2>1. handler # NoHandler /\ d = Subject /\ handler' = NoHandler
    BY <1>2 DEF Ends, Busy
  <2>2. ASSUME deployment'[d].status = "created" PROVE deployment[d].status = "created"
    <3>1. CASE Commit
      BY <2>1, <2>2, <3>1, CommitRow, CompletedStatus DEF Commit
    <3>2. CASE EndCancelled
      BY <2>1, <2>2, <3>2, CommitRow DEF EndCancelled
    <3>3. CASE Crash
      BY <2>2, <3>3 DEF Crash, db
    <3>4. CASE Fails
      BY <2>2, <3>4 DEF Fails, Fail
    <3>5. QED
      BY <2>1, <3>1, <3>2, <3>3, <3>4, HandlerEnds
  <2>3. QED
    BY <1>2, <2>2 DEF Ends, Place
<1>3. CASE Corrected(d)
  BY <1>3 DEF Corrected, Place
<1>4. QED
  BY <1>1, <1>2, <1>3, RowEffect

\* No error is still to be written to a deployment whose creation goes on.
LEMMA NothingOwed ==
    ASSUME KeysInv, BirthInv, NEW d \in Deployment \ faltered, deployment[d].status = "created"
    PROVE  ~Corrected(d)
<1> SUFFICES ASSUME NEW u \in Task, owed[u] # "none", task[u].on = d PROVE FALSE
  BY DEF Corrected, UpdateResource
<1> USE DEF KeysInv
<1>1. task[u].status = "error" /\ task[u] # Unused
  BY DEF HandlerInv, OwedInv, Unused
<1>2. PICK t \in Task :
          /\ task[t].on = d /\ task[t].action = "create"
          /\ task[t].status \in ActiveStatus \/ (handler # NoHandler /\ handler.task = t)
  BY DEF BirthInv
<1>3. CASE task[t].status \in ActiveStatus
  BY <1>1, <1>2, <1>3 DEF CreationInv, ActiveStatus
<1>4. CASE handler # NoHandler /\ handler.task = t
  BY <1>2, <1>4 DEF BirthInv, Mine, Subject
<1>5. QED
  BY <1>2, <1>3, <1>4

LEMMA BirthStep ==
    ASSUME KeysInv, KeysInv', PlaceInv, BirthInv, [Next]_vars
    PROVE  BirthInv'
<1> USE DEF KeysInv
<1>0. ASSUME NEW d \in Deployment, deployment'[d].status = "absent" PROVE deployment'[d].desired = None
  <2>1. deployment[d].status = "absent"
    BY <1>0, CreatedBefore DEF Inserted
  <2>2. deployment'[d] = deployment[d]
    BY <1>0, <2>1, RowEffect DEF Inserted, Desired, Ends, Corrected
  <2>3. QED
    BY <2>1, <2>2 DEF BirthInv
<1>1. \A d \in faltered' : deployment'[d].status # "absent"
  <2> SUFFICES ASSUME NEW d \in faltered' PROVE deployment'[d].status # "absent"
    OBVIOUS
  <2>1. d \in Deployment
    BY DEF TypeOK
  <2>2. deployment[d].status # "absent"
    BY <2>1, OthersAreLeftAlone, SubjectIsThere DEF BirthInv, Busy
  <2>3. QED
    BY <2>1, <2>2, CreatedBefore DEF Inserted
<1>2. ASSUME NEW d \in Deployment \ faltered', deployment'[d].status = "created"
      PROVE  \E t \in Task :
                /\ task'[t].on = d /\ task'[t].action = "create"
                /\ task'[t].status \in ActiveStatus \/ (handler' # NoHandler /\ handler'.task = t)
  <2>1. CASE Inserted(d)
    BY <2>1 DEF Inserted
  <2>2. CASE ~Inserted(d)
    <3>1. deployment[d].status = "created" /\ d \notin faltered
      BY <1>2, <2>2, CreatedBefore, OthersAreLeftAlone
    <3>2. PICK t \in Task :
              /\ task[t].on = d /\ task[t].action = "create"
              /\ task[t].status \in ActiveStatus \/ (handler # NoHandler /\ handler.task = t)
      BY <3>1 DEF BirthInv
    <3>3. task[t] # Unused
      BY <3>2, SubjectIsThere DEF Unused, ActiveStatus
    <3>4. task'[t].on = d /\ task'[t].action = "create"
      BY <3>2, <3>3, TasksGoOn
    <3>5. CASE handler # NoHandler /\ handler.task = t
      <4>1. Subject = d /\ Mine.action = "create"
        BY <3>2, <3>5 DEF Subject, Mine
      <4>2. ~Commit
        <5>1. SUFFICES ASSUME Commit PROVE FALSE
          OBVIOUS
        <5>2. deployment'[d].status = "provisioned"
          BY <3>5, <4>1, <5>1, CommitRow DEF Commit, Completed
        <5>3. QED
          BY <1>2, <5>2
      <4>3. handler' # NoHandler
        BY <1>2, <3>5, <4>1, <4>2, CreationEnds
      <4>4. handler'.task = handler.task
        BY <3>5, <4>3, HandlerEffect DEF Goes
      <4>5. QED
        BY <3>4, <3>5, <4>3, <4>4
    <3>6. CASE ~(handler # NoHandler /\ handler.task = t)
      BY <3>2, <3>4, <3>6, TasksGoOn
    <3>7. QED
      BY <3>5, <3>6
  <2>3. QED
    BY <2>1, <2>2
<1>3. ASSUME handler' # NoHandler
      PROVE  /\ handler'.step > 1 => handler'.namespace \in Namespace
             /\ Mine'.action = "create" =>
                   /\ handler'.step > 2 => handler'.keyPairs = {handler'.key} /\ handler'.key # NoKey
                   /\ handler'.step > 6 => publicKey'[handler'.namespace] # NoKey
  <2>1. ASSUME handler # NoHandler, handler'.task = handler.task, handler'.step = handler.step,
               handler'.namespace = handler.namespace, handler'.key = handler.key,
               handler'.keyPairs = handler.keyPairs, publicKey' = publicKey
        PROVE  /\ handler'.step > 1 => handler'.namespace \in Namespace
               /\ Mine'.action = "create" =>
                     /\ handler'.step > 2 => handler'.keyPairs = {handler'.key} /\ handler'.key # NoKey
                     /\ handler'.step > 6 => publicKey'[handler'.namespace] # NoKey
    <3>1. Mine'.action = Mine.action
      BY <1>3, <2>1, WaitingGoesOn
    <3>2. QED
      BY <2>1, <3>1 DEF BirthInv
  <2>2. CASE handler # NoHandler /\ handler' = handler /\ UNCHANGED world
    BY <2>1, <2>2 DEF world
  <2>3. CASE handler'.step = 1
    BY <2>3
  <2>4. CASE /\ RecordEnd /\ handler'.step = handler.step /\ handler'.task = handler.task
             /\ handler'.namespace = handler.namespace /\ handler'.key = handler.key
             /\ handler'.keyPairs = handler.keyPairs
    BY <2>1, <2>4 DEF RecordEnd, world
  <2>5. CASE Step /\ Goes /\ PublishEffect
    <3>1. PICK step : At(step)
      BY <2>5, StepEffect
    <3>0. PICK d \in Deployment : d = Subject
      BY <3>1, StepTable
    <3>2. /\ handler # NoHandler /\ handler \in HandlerRecord /\ handler.step \in 1..7
          /\ handler'.task = handler.task /\ handler'.step = handler.step + 1
          /\ publicKey \in [Namespace -> KeyPair \cup {NoKey}]
      BY <2>5, <3>1, StepTable DEF Goes, TypeOK
    <3>3. handler'.namespace \in Namespace
      <4>1. CASE handler.step = 1
        <5>1. deployment[d].status # "absent"
          BY <3>0, <3>2, SubjectIsThere
        <5>2. /\ deployment[d].desired \in State
              /\ deployment[d].applied # None => deployment[d].applied \in State
          BY <5>1 DEF PlaceInv, TypeOK
        <5>3. BestNamespace(deployment[d]) \in Namespace
          BY <5>2 DEF BestNamespace, State
        <5>4. QED
          BY <2>5, <3>0, <4>1, <5>3 DEF Goes
      <4>2. CASE handler.step > 1
        BY <2>5, <3>2, <4>2 DEF Goes, BirthInv
      <4>3. QED
        BY <3>2, <4>1, <4>2
    <3>4. Mine'.action = Mine.action
      BY <1>3, <3>2, WaitingGoesOn
    <3>5. ASSUME Mine.action = "create", handler.step = 2
          PROVE  handler'.keyPairs = {handler'.key} /\ handler'.key # NoKey
      <4>1. At("createKeyPair")
        BY <3>1, <3>5, StepTable
      <4>2. handler.keyPairs = {} /\ handler.task # NoTask
        BY <3>2, <3>5, HandlersAssumption DEF KeyPairInv, HandlerRecord
      <4>3. QED
        BY <2>5, <4>1, <4>2 DEF Goes, NoKey
    <3>6. ASSUME Mine.action = "create", handler.step > 2
          PROVE  /\ handler'.key = handler.key /\ handler'.keyPairs = handler.keyPairs
                 /\ handler.keyPairs = {handler.key} /\ handler.key # NoKey
                 /\ handler'.namespace = handler.namespace
      BY <2>5, <3>2, <3>6 DEF Goes, BirthInv
    <3>7. ASSUME Mine.action = "create", handler.step >= 6
          PROVE  publicKey'[handler.namespace] # NoKey
      <4>1. CASE handler.step = 6
        <5>1. At("publish")
          BY <3>1, <3>7, <4>1, StepTable
        <5>2. handler.namespace \in Namespace /\ handler.key # NoKey
          BY <3>2, <3>7, <4>1 DEF BirthInv
        <5>3. QED
          BY <2>5, <3>2, <5>1, <5>2 DEF PublishEffect
      <4>2. CASE handler.step > 6
        <5>1. ~At("publish")
          BY <4>2, StepTable
        <5>2. QED
          BY <2>5, <3>2, <3>7, <4>2, <5>1 DEF PublishEffect, BirthInv
      <4>3. QED
        BY <3>2, <3>7, <4>1, <4>2
    <3>8. QED
      BY <3>2, <3>3, <3>4, <3>5, <3>6, <3>7
  <2>6. QED
    BY <1>3, <2>2, <2>3, <2>4, <2>5, HandlerEffect
<1>4. ASSUME handler' # NoHandler, Mine'.action = "create", NEW u \in Task, owed'[u] # "none"
      PROVE  task'[u].on # Subject'
  <2>1. owed[u] # "none"
    BY <1>4, OwedEffect
  <2>2. task[u].status = "error" /\ task[u] # Unused
    BY <2>1 DEF HandlerInv, OwedInv, Unused
  <2>3. task'[u].on = task[u].on
    BY <2>2, TasksGoOn
  <2>4. ASSUME handler # NoHandler, handler'.task = handler.task PROVE task'[u].on # Subject'
    BY <1>4, <2>1, <2>3, <2>4, WaitingGoesOn DEF BirthInv
  <2>5. ASSUME NEW t \in Task, Take(t) PROVE task'[u].on # Subject'
    <3>1. handler'.task = t /\ task[t] # Unused /\ task[t].status \in ActiveStatus
      BY <2>5 DEF Take, NoHandler, Unused, ActiveStatus
    <3>2. task[t].action = "create" /\ Subject' = task[t].on
      BY <1>4, <3>1, TasksGoOn DEF Subject, Mine
    <3>3. task[u].on # task[t].on
      BY <2>2, <3>1, <3>2 DEF CreationInv, ActiveStatus
    <3>4. QED
      BY <2>3, <3>2, <3>3
  <2>6. CASE handler # NoHandler /\ handler'.task = handler.task
    BY <2>4, <2>6
  <2>7. CASE Step /\ Goes
    <3>1. handler # NoHandler
      BY <2>7, StepEffect DEF At
    <3>2. QED
      BY <2>4, <2>7, <3>1 DEF Goes
  <2>8. QED
    BY <1>4, <2>5, <2>6, <2>7, HandlerEffect DEF RecordEnd
<1>5. QED
  BY <1>0, <1>1, <1>2, <1>3, <1>4 DEF BirthInv

\* A namespace gets a key once, from the creation that finds none there.
LEMMA PublicEffect ==
    ASSUME TypeOK, HandlerInv, [Next]_vars, NEW n \in Namespace, publicKey'[n] # publicKey[n]
    PROVE  /\ Step /\ Goes /\ At("publish")
           /\ n = handler.namespace /\ publicKey[n] = NoKey /\ publicKey'[n] = handler.key
<1>1. CASE Step
  <2>1. ~Fails
    BY DEF Fails
  <2>2. Goes /\ PublishEffect
    BY <1>1, <2>1, StepEffect
  <2>3. At("publish") /\ publicKey[handler.namespace] = NoKey
        /\ publicKey' = [publicKey EXCEPT ![handler.namespace] = handler.key]
    BY <2>2 DEF PublishEffect
  <2>4. QED
    BY <1>1, <2>2, <2>3 DEF TypeOK
<1>2. Step
  BY DEF Next, vars, world, Create, FindNoActiveTasks, Update, Delete, Take, Cancel,
         RecordEnd, Commit, EndCancelled, Crash, UpdateResource
<1>3. QED
  BY <1>1, <1>2

LEMMA KeyPairsStay ==
    ASSUME KeysInv, [Next]_vars, NEW d \in Deployment, keyPairs[d] # {}
    PROVE  keyPairs'[d] = keyPairs[d]
<1> USE DEF KeysInv
<1>1. CASE ~Busy(d)
  BY <1>1, OthersAreLeftAlone
<1>2. CASE Busy(d) /\ handler' # NoHandler
  BY <1>2, HandlerEffect DEF Goes, RecordEnd, Busy
<1>3. CASE Busy(d) /\ handler' = NoHandler
  <2>1. handler # NoHandler /\ Subject = d
    BY <1>3 DEF Busy
  <2>2. handler.keyPairs = {} /\ keyPairs \in [Deployment -> SUBSET KeyPair]
    BY <2>1 DEF KeyPairInv, TypeOK
  <2>3. ASSUME NEW s, CommitWrites(s) PROVE keyPairs'[d] = keyPairs[d]
    BY <2>1, <2>2, <2>3 DEF CommitWrites
  <2>4. CASE Commit
    BY <2>3, <2>4 DEF Commit
  <2>5. CASE EndCancelled
    BY <2>3, <2>5 DEF EndCancelled
  <2>6. CASE Crash
    BY <2>6 DEF Crash, db
  <2>7. CASE Fails
    BY <2>7 DEF Fails, Fail
  <2>8. QED
    BY <1>3, <2>1, <2>4, <2>5, <2>6, <2>7, HandlerEnds
<1>4. QED
  BY <1>1, <1>2, <1>3

\* What lies in a namespace is there, and stays in its place.
LEMMA PlaceStays ==
    ASSUME KeysInv, BirthInv, [Next]_vars, moved' = {}, NEW d \in Deployment, Place(d) \in Namespace
    PROVE  deployment[d].status # "absent" /\ ~Inserted(d) /\ Place(d)' = Place(d)
<1>1. deployment[d].status # "absent"
  BY HandlersAssumption DEF BirthInv, Place, None
<1>2. ~Inserted(d)
  BY <1>1 DEF Inserted
<1>3. QED
  BY <1>1, <1>2, CreatedBefore

\* A creation that committed has published: the commit is the way it ended.
LEMMA CreatedHasPublished ==
    ASSUME KeysInv, PlaceInv, ReadInv, BirthInv, [Next]_vars, moved' = {},
           NEW d \in Deployment \ faltered', ~Inserted(d), deployment[d].status = "created",
           deployment'[d].status # "created"
    PROVE  /\ Commit /\ Busy(d) /\ Mine.action = "create" /\ handler.step > 6
           /\ publicKey[Place(d)] # NoKey /\ Place(d) \in Namespace
<1> USE DEF KeysInv
<1>2. d \notin faltered /\ d \notin moved
  BY OthersAreLeftAlone
<1>1. Busy(d) /\ handler' = NoHandler /\ handler # NoHandler /\ Subject = d
  <2>1. ~Corrected(d)
    BY <1>2, NothingOwed
  <2>2. QED
    BY <2>1, CreatedBefore DEF Ends, Busy
<1>3. PICK t \in Task :
          /\ task[t].on = d /\ task[t].action = "create"
          /\ task[t].status \in ActiveStatus \/ handler.task = t
  BY <1>1, <1>2 DEF BirthInv
<1>4. handler.task = t
  <2>1. SUFFICES ASSUME task[t].status \in ActiveStatus PROVE handler.task = t
    BY <1>3
  <2>2. task[handler.task] # Unused /\ handler.task \in Task /\ task[handler.task].on = d
    BY <1>1, SubjectIsThere DEF Subject, Mine
  <2>3. QED
    BY <1>3, <2>1, <2>2 DEF CreationInv
<1>5. Mine.action = "create"
  BY <1>3, <1>4 DEF Mine
<1>6. Commit
  BY <1>1, <1>5, CreationEnds
<1>7. handler.step > 6 /\ handler.step > 1
  BY <1>1, <1>5, <1>6, StepsLength, Running DEF Commit, HandlerInv, RunsInv, HandlerRecord
<1>8. handler.namespace = Place(d) /\ handler.namespace \in Namespace
      /\ publicKey[handler.namespace] # NoKey
  BY <1>1, <1>2, <1>5, <1>7 DEF ReadInv, BirthInv
<1>9. QED
  BY <1>1, <1>5, <1>6, <1>7, <1>8

LEMMA OwnerStays ==
    ASSUME KeysInv, KeysInv', BirthInv, BirthInv', [Next]_vars, moved' = {},
           NEW d \in Deployment, NEW n \in Namespace, Owner(d, n), publicKey[n] # NoKey,
           \A c \in faltered' : Place(c)' # n
    PROVE  Owner(d, n)'
<1> USE DEF KeysInv
<1>1. Place(d) = n /\ Place(d)' = n /\ ~Inserted(d) /\ deployment[d].status # "absent"
  BY PlaceStays DEF Owner
<1>2. d \notin faltered'
  BY <1>1
<1>3. publicKey'[n] = publicKey[n]
  BY PublicEffect
<1>4. CASE deployment[d].status # "created" /\ keyPairs[d] = {publicKey[n]}
  <2>1. deployment'[d].status # "created"
    BY <1>1, <1>4, CreatedBefore
  <2>2. keyPairs'[d] = {publicKey'[n]}
    BY <1>3, <1>4, KeyPairsStay
  <2>3. QED
    BY <1>1, <2>1, <2>2 DEF Owner
<1>5. CASE /\ Busy(d) /\ Mine.action = "create" /\ handler.step > 6
           /\ handler.keyPairs = {publicKey[n]}
           /\ \A c \in Deployment : Place(c) = n => deployment[c].status = "created"
  <2>1. handler # NoHandler /\ Subject = d /\ handler \in HandlerRecord
    BY <1>5, Running DEF Busy
  <2>2. CASE handler' = NoHandler
    <3>1. Commit
      BY <1>2, <1>5, <2>1, <2>2, CreationEnds
    <3>2. deployment'[d].status = "provisioned"
      BY <1>5, <2>1, <3>1, CommitRow DEF Commit, Completed
    <3>3. keyPairs'[d] = keyPairs[d] \cup handler.keyPairs
      BY <2>1, <3>1 DEF Commit, CommitWrites, TypeOK
    <3>4. keyPairs[d] = {}
      BY <1>5, <2>1 DEF KeyPairInv
    <3>5. QED
      BY <1>1, <1>3, <1>5, <3>2, <3>3, <3>4 DEF Owner
  <2>3. CASE handler' # NoHandler
    <3>1. /\ handler'.task = handler.task /\ handler'.step > 6
          /\ handler'.keyPairs = handler.keyPairs
      BY <1>5, <2>1, <2>3, HandlerEffect DEF Goes, HandlerRecord
    <3>2. Busy(d)' /\ Mine'.action = "create"
      BY <1>5, <2>1, <2>3, <3>1, WaitingGoesOn DEF Busy
    <3>3. ASSUME NEW c \in Deployment, Place(c)' = n PROVE deployment'[c].status = "created"
      <4>1. SUFFICES ASSUME ~Inserted(c) PROVE deployment'[c].status = "created"
        BY DEF Inserted
      <4>2. deployment'[c].status # "absent"
        BY <3>3, HandlersAssumption DEF BirthInv, Place, None
      <4>3. deployment[c].status = "created"
        BY <1>5, <3>3, <4>1, <4>2, CreatedBefore
      <4>4. ~Corrected(c)
        <5>1. c \notin faltered
          BY <3>3, OthersAreLeftAlone
        <5>2. QED
          BY <4>3, <5>1, NothingOwed
      <4>5. QED
        BY <2>3, <4>1, <4>3, <4>4, CreatedBefore DEF Ends
    <3>4. QED
      BY <1>1, <1>3, <1>5, <3>1, <3>2, <3>3 DEF Owner
  <2>4. QED
    BY <2>2, <2>3
<1>6. QED
  BY <1>4, <1>5 DEF Owner

LEMMA OwnerStep ==
    ASSUME KeysInv, KeysInv', PlaceInv, ReadInv, ReadInv', BirthInv, BirthInv', OwnerInv, [Next]_vars
    PROVE  OwnerInv'
<1> USE DEF KeysInv
<1> SUFFICES ASSUME moved' = {}
             PROVE  /\ \A d \in Deployment \ faltered' :
                          deployment'[d].status \notin {"absent", "created"} =>
                              publicKey'[Place(d)'] # NoKey
                    /\ \A n \in Namespace :
                          publicKey'[n] # NoKey /\ (\A d \in faltered' : Place(d)' # n) =>
                              \E d \in Deployment : Owner(d, n)'
  BY DEF OwnerInv
<1>0. moved = {} /\ faltered \subseteq faltered'
  BY OthersAreLeftAlone
<1>1. ASSUME NEW d \in Deployment \ faltered', deployment'[d].status \notin {"absent", "created"}
      PROVE  publicKey'[Place(d)'] # NoKey
  <2>1. ~Inserted(d) /\ deployment[d].status # "absent"
    BY <1>1, CreatedBefore DEF Inserted
  <2>2. Place(d)' = Place(d) /\ Place(d) \in Namespace
    BY <2>1, CreatedBefore DEF PlaceInv, State, Place
  <2>3. publicKey[Place(d)] # NoKey
    <3>1. CASE deployment[d].status = "created"
      BY <1>1, <2>1, <3>1, CreatedHasPublished
    <3>2. CASE deployment[d].status # "created"
      BY <1>0, <1>1, <2>1, <3>2 DEF OwnerInv
    <3>3. QED
      BY <3>1, <3>2
  <2>4. QED
    BY <2>2, <2>3, PublicEffect
<1>2. ASSUME NEW n \in Namespace, publicKey'[n] # NoKey, \A d \in faltered' : Place(d)' # n
      PROVE  \E d \in Deployment : Owner(d, n)'
  <2>1. \A d \in faltered : Place(d) # n
    <3>1. SUFFICES ASSUME NEW d \in faltered, Place(d) = n PROVE FALSE
      OBVIOUS
    <3>2. d \in Deployment
      BY DEF TypeOK
    <3>3. Place(d)' = n
      BY <3>1, <3>2, PlaceStays
    <3>4. QED
      BY <1>0, <1>2, <3>3
  <2>2. CASE publicKey[n] # NoKey
    <3>1. PICK d \in Deployment : Owner(d, n)
      BY <1>0, <2>1, <2>2 DEF OwnerInv
    <3>2. Owner(d, n)'
      BY <1>2, <2>2, <3>1, OwnerStays
    <3>3. QED
      BY <3>2
  <2>3. CASE publicKey[n] = NoKey
    <3>1. /\ Step /\ Goes /\ At("publish") /\ n = handler.namespace /\ publicKey'[n] = handler.key
      BY <1>2, <2>3, PublicEffect
    <3>2. /\ handler # NoHandler /\ Mine.action = "create" /\ handler.step = 6
          /\ Subject \in Deployment /\ handler' # NoHandler
      BY <3>1, StepTable DEF Goes, HandlerRecord, NoHandler
    <3>3. PICK d \in Deployment : d = Subject
      BY <3>2
    <3>4. /\ handler'.task = handler.task /\ handler'.step = 7
          /\ handler'.namespace = n /\ handler'.keyPairs = handler.keyPairs
      BY <3>1, <3>2 DEF Goes
    <3>5. Busy(d)' /\ Mine'.action = "create" /\ Subject' = d
      BY <3>2, <3>3, <3>4, WaitingGoesOn DEF Busy
    <3>6. Place(d)' = n
      BY <3>2, <3>4, <3>5 DEF ReadInv
    <3>7. handler'.keyPairs = {publicKey'[n]}
      BY <3>1, <3>2, <3>4 DEF BirthInv
    <3>8. ASSUME NEW c \in Deployment, Place(c)' = n PROVE deployment'[c].status = "created"
      <4>1. deployment' = deployment /\ faltered' = faltered
        BY <3>1 DEF Goes
      <4>2. deployment[c].status # "absent" /\ Place(c) = n /\ c \notin faltered'
        BY <1>2, <3>8, <4>1, HandlersAssumption DEF BirthInv, Place, None
      <4>3. publicKey[Place(c)] = NoKey
        BY <2>3, <4>2
      <4>4. QED
        BY <1>0, <4>1, <4>2, <4>3 DEF OwnerInv
    <3>9. Owner(d, n)'
      BY <3>4, <3>5, <3>6, <3>7, <3>8 DEF Owner
    <3>10. QED
      BY <3>9
  <2>4. QED
    BY <2>2, <2>3
<1>3. QED
  BY <1>1, <1>2

LEMMA PublishedHolds == Spec => [](KeysInv /\ InstalledInv /\ PublishedInv)
<1>1. Init => PublishedInv
  <2>1. Init => BirthInv
    BY DEF Init, BirthInv
  <2>2. Init => OwnerInv
    BY DEF Init, OwnerInv
  <2>3. QED
    BY <2>1, <2>2 DEF PublishedInv
<1>2. ASSUME KeysInv, KeysInv', InstalledInv, InstalledInv', PublishedInv, [Next]_vars
      PROVE  PublishedInv'
  <2>1. BirthInv'
    BY <1>2, BirthStep DEF PublishedInv, InstalledInv
  <2>2. OwnerInv'
    BY <1>2, <2>1, OwnerStep DEF PublishedInv, InstalledInv
  <2>3. QED
    BY <2>1, <2>2 DEF PublishedInv
<1>3. KeysInv /\ KeysInv' /\ InstalledInv /\ InstalledInv' /\ PublishedInv /\ [Next]_vars
        => PublishedInv'
  BY <1>2
<1>4. QED
  BY <1>1, <1>3, InstalledHolds, PTL DEF Spec

\* The rows, the tasks, the transaction of the handler and what helm and the
\* namespaces hold keep their form, whatever fails, is cancelled or crashes.
THEOREM TypeCorrect == Spec => []TypeOK
<1>1. KeysInv => TypeOK
  BY DEF KeysInv
<1>2. QED
  BY <1>1, InitKeys, StepKeys, PTL DEF Spec

\* KeyPair.create inserts without looking and KeyPair.getOrCreate looks first:
\* since a creation is the only task of its deployment and handlers run one at
\* a time, no deployment ever gets a second key pair, and none is provisioned
\* without one, for any number of deployments, tasks, requests and crashes.
THEOREM KeyPairsStaySingle == Spec => []OneKeyPair
<1>1. KeysInv => OneKeyPair
  <2> SUFFICES ASSUME KeysInv, NEW d \in Deployment
               PROVE  /\ Cardinality(keyPairs[d]) <= 1
                      /\ deployment[d].status = "provisioned" => keyPairs[d] # {}
    BY DEF OneKeyPair
  <2>1. CASE keyPairs[d] = {}
    BY <2>1, FS_EmptySet DEF KeysInv, KeyPairInv
  <2>2. CASE keyPairs[d] # {}
    <3>1. PICK k \in keyPairs[d] : TRUE
      BY <2>2
    <3>2. keyPairs[d] = {k}
      BY <3>1 DEF KeysInv, KeyPairInv, AtMostOne
    <3>3. Cardinality(keyPairs[d]) = 1
      BY <3>2, FS_Singleton
    <3>4. QED
      BY <2>2, <3>3
  <2>3. QED
    BY <2>1, <2>2
<1>2. QED
  BY <1>1, InitKeys, StepKeys, PTL DEF Spec

\* The handler installs one reading of the desired state and saves another, and
\* helm and the database fail and are cancelled apart from each other: still a
\* deployment that stayed in its namespace, has no task left and is shown as
\* provisioned runs the version of its applied state there.
THEOREM ProvisionedRunsWhatItShows == Spec => []ProvisionedIsInstalled
<1>1. KeysInv /\ InstalledInv => ProvisionedIsInstalled
  <2> SUFFICES ASSUME InstalledInv, NEW d \in Deployment \ moved, Settled(d),
                      deployment[d].status = "provisioned"
               PROVE  /\ deployment[d].applied # None
                      /\ release[d][deployment[d].applied.namespace] = deployment[d].applied.version
    BY DEF ProvisionedIsInstalled
  <2>1. ~Active(d) /\ d \notin unsettled /\ ~Busy(d)
    BY DEF Settled, Busy
  <2>2. QED
    BY <2>1 DEF InstalledInv, QuietInv
<1>2. QED
  BY <1>1, InstalledHolds, PTL

\* The same for what is shown as deleted: nothing of it is left in any
\* namespace, unless its cluster was out of reach, or the write that shows it
\* came, unawaited, after another task of the deployment had begun; and at no
\* time is a deployment that was never moved installed in two places.
THEOREM DeletedLeavesNothing == Spec => []DeletedIsGone
<1>1. KeysInv /\ InstalledInv => DeletedIsGone
  <2> SUFFICES ASSUME InstalledInv, NEW d \in Deployment \ moved
               PROVE  /\ Cardinality({n \in Namespace : release[d][n] # 0}) <= 1
                      /\ Settled(d) /\ deployment[d].status = "deleted" =>
                            \/ d \in assumedGone \cup belated
                            \/ \A n \in Namespace : release[d][n] = 0
    BY DEF DeletedIsGone
  <2>1. Settled(d) => ~Active(d) /\ d \notin unsettled /\ ~Busy(d)
    BY DEF Settled, Busy
  <2>2. Settled(d) /\ deployment[d].status = "deleted" =>
            d \in assumedGone \cup belated \/ \A n \in Namespace : release[d][n] = 0
    BY <2>1 DEF InstalledInv, QuietInv
  <2>3. Cardinality({n \in Namespace : release[d][n] # 0}) <= 1
    <3> DEFINE S == {n \in Namespace : release[d][n] # 0}
    <3>1. S \subseteq {Place(d)}
      BY DEF InstalledInv, PlaceInv
    <3>2. IsFiniteSet({Place(d)}) /\ Cardinality({Place(d)}) = 1
      BY FS_Singleton
    <3>3. Cardinality(S) <= 1
      BY <3>1, <3>2, FS_Subset
    <3>4. QED
      BY <3>3
  <2>4. QED
    BY <2>2, <2>3
<1>2. QED
  BY <1>1, InstalledHolds, PTL

\* Each creation publishes its own key only where none is published yet, and
\* installs and fails on its own: still, in a namespace where every creation
\* succeeded and nothing was moved, the key that lies there is always the
\* committed one of a deployment of that namespace.
THEOREM FirstKeyStays == Spec => []FirstKeyIsPublished
<1>1. KeysInv /\ InstalledInv /\ PublishedInv => FirstKeyIsPublished
  <2> SUFFICES ASSUME KeysInv, InstalledInv, PublishedInv, moved = {}, NEW n \in Namespace,
                      NEW c \in Deployment, Place(c) = n, deployment[c].status # "created",
                      \A d \in Deployment : Place(d) = n => d \notin faltered
               PROVE  \E d \in Deployment : /\ Place(d) = n /\ deployment[d].status # "created"
                                            /\ keyPairs[d] = {publicKey[n]}
    BY DEF FirstKeyIsPublished, Place
  <2>1. deployment[c].status # "absent"
    BY HandlersAssumption DEF PublishedInv, BirthInv, Place, None
  <2>2. publicKey[n] # NoKey
    BY <2>1 DEF PublishedInv, OwnerInv
  <2>3. \A d \in faltered : Place(d) # n
    BY DEF KeysInv, TypeOK
  <2>4. PICK d \in Deployment : Owner(d, n)
    BY <2>2, <2>3 DEF PublishedInv, OwnerInv
  <2>5. QED
    BY <2>4 DEF Owner
<1>2. QED
  BY <1>1, PublishedHolds, PTL

=============================================================================

------------------------ MODULE TaskProcessorProofs ------------------------
(***************************************************************************)
(* Proofs about the task processor, for every set of tasks and resources,  *)
(* every length of handler and any number of crashes.                      *)
(***************************************************************************)
EXTENDS TaskProcessor, TLAPS

\* The tasks a process has in hand or queued.
Held == Owned \ {NoTask}

\* runTask is resting exactly when it holds no task, and a process that is
\* down holds nothing at all.
HoldingInv ==
    /\ stage = "idle" <=> cur = NoTask
    /\ phase = "down" =>
          cur = NoTask /\ errCur = NoTask /\ batch = {} /\ errBatch = {}
    /\ stage \in {"idle", "running"} => ~cancelled

\* What is queued while restarting was running at the crash, and there is at
\* most one such task; what is queued by the control loop is still created.
QueueInv ==
    /\ phase = "restarting" =>
          /\ \A t, u \in Held : t = u
          /\ \A t \in batch \cup errBatch :
                t # cur /\ t # errCur /\ taskStatus[t] \in {"running", "cancelling"}
          /\ batch \cap errBatch = {}
          /\ cur = NoTask \/ errCur = NoTask
    /\ phase = "looping" =>
          /\ errBatch = {} /\ errCur = NoTask
          /\ \A t \in batch : t # cur /\ taskStatus[t] = "created"

\* How far runTask and errorTask are determines the status of their task.
StageInv ==
    /\ stage \in {"running", "completing"} => taskStatus[cur] \in {"running", "cancelling"}
    /\ stage = "completing" /\ cancelled => taskStatus[cur] = "cancelling"
    /\ stage = "committing" => taskStatus[cur] = IF cancelled THEN "cancelled" ELSE "finished"
    /\ stage = "failing" => taskStatus[cur] \notin {"absent", "error"}
    /\ stage = "blaming" => taskStatus[cur] = "error"
    /\ errCur # NoTask => taskStatus[errCur] = "error"

ControlInv ==
    TypeOK /\ HoldingInv /\ QueueInv /\ StageInv /\ AtMostOneRunning /\ RunningIsOwned

-----------------------------------------------------------------------------
\* The status of a resource follows the last end on it (StatusExplained) when,
\* besides, lastEnded names ended tasks of that resource, the endings under way
\* are the last ones, and the writes in flight are those of failed deletes.
RecordInv ==
    /\ \A t \in Task : taskStatus[t] # "absent" => resourceStatus[ResourceOf[t]] # "absent"
    /\ \A r \in Resource :
          lastEnded[r] # NoTask =>
             ResourceOf[lastEnded[r]] = r /\ taskStatus[lastEnded[r]] \in {"finished", "error"}
    /\ stage = "committing" /\ ~cancelled => lastEnded[ResourceOf[cur]] = cur
    /\ stage = "blaming" => lastEnded[ResourceOf[cur]] = cur
    /\ errCur # NoTask => lastEnded[ResourceOf[errCur]] = errCur
    /\ \A d \in late : taskStatus[d] = "error" /\ NothingLeft(d)

-----------------------------------------------------------------------------
LEMMA CompleteStatusType ==
    ASSUME NEW a \in TASK_ACTION
    PROVE  TASK_RESOURCE_COMPLETE_STATUS(a) \in RESOURCE_STATUS \ {"absent"}
  BY DEF TASK_RESOURCE_COMPLETE_STATUS, RESOURCE_STATUS

LEMMA HandlerErrorsType ==
    ASSUME NEW a \in TASK_ACTION
    PROVE  HandlerErrors(a) \subseteq ErrorKinds \ {"none"}
  BY DEF HandlerErrors, ErrorKinds, TASK_ACTION

\* While the process holds a task, it is a row of the table.
LEMMA HeldIsTask ==
    ASSUME TypeOK, HoldingInv, stage # "idle"
    PROVE  cur \in Task
  BY DEF TypeOK, HoldingInv

LEMMA InitControl == Init => ControlInv
<1> SUFFICES ASSUME Init PROVE ControlInv
  OBVIOUS
<1> USE TaskAssumption DEF Init, Resting
<1>1. TypeOK
  BY DEF TypeOK, Stages, ErrorKinds
<1>2. HoldingInv
  BY DEF HoldingInv
<1>3. QueueInv
  BY DEF QueueInv
<1>4. StageInv
  BY DEF StageInv
<1>5. AtMostOneRunning /\ RunningIsOwned
  BY DEF AtMostOneRunning, RunningIsOwned
<1>6. QED
  BY <1>1, <1>2, <1>3, <1>4, <1>5 DEF ControlInv

\* Type correctness is preserved, action by action.
LEMMA TypeStep ==
    ASSUME TypeOK, HoldingInv, [Next]_vars
    PROVE  TypeOK'
<1> USE TaskAssumption DEF TypeOK
<1>1. ASSUME NEW t \in Task, InsertTask(t) PROVE TypeOK'
  BY <1>1 DEF InsertTask, TASK_STATUS, RESOURCE_STATUS, runner, restart, history
<1>2. ASSUME NEW t \in Task, Cancel(t) PROVE TypeOK'
  BY <1>2 DEF Cancel, TASK_STATUS, runner, restart, history
<1>3. CASE Start
  BY <1>3 DEF Start, database, runner, history
<1>4. CASE StartControlLoop
  BY <1>4 DEF StartControlLoop, database, runner, restart, history
<1>5. CASE LoadCreatedTasks
  BY <1>5 DEF LoadCreatedTasks, database, runner, restart, history
<1>6. ASSUME NEW t \in Task, RunTask(t) PROVE TypeOK'
  BY <1>6 DEF RunTask, Newest, TASK_STATUS, Stages, restart, history
<1>7. ASSUME NEW t \in Task, RunTaskFails(t) PROVE TypeOK'
  BY <1>7 DEF RunTaskFails, Newest, Throw, Stages, ErrorKinds, database, restart, history
<1>8. CASE Yield
  BY <1>8 DEF Yield, database, restart, history
<1>9. CASE Return
  BY <1>9 DEF Return, Stages, database, restart, history
<1>10. CASE HandlerThrows
  <2>1. PICK kind \in HandlerErrors(ActionOf[cur]) : Throw(kind)
    BY <1>10 DEF HandlerThrows
  <2>2. cur \in Task
    BY <1>10, HeldIsTask DEF HandlerThrows
  <2>3. kind \in ErrorKinds
    BY <2>2, HandlerErrorsType
  <2>4. QED
    BY <1>10, <2>1, <2>3 DEF HandlerThrows, Throw, Stages, database, restart, history
<1>11. CASE StopRunner
  BY <1>11 DEF StopRunner, Stages, database, restart, history
<1>12. CASE RecordEnd
  <2>1. cur \in Task
    BY <1>12, HeldIsTask DEF RecordEnd
  <2>2. QED
    BY <1>12, <2>1 DEF RecordEnd, Stages, TASK_STATUS, restart, history
<1>13. CASE Commit
  <2>1. cur \in Task
    BY <1>13, HeldIsTask DEF Commit
  <2>2. TASK_RESOURCE_COMPLETE_STATUS(ActionOf[cur]) \in RESOURCE_STATUS
    BY <2>1, CompleteStatusType
  <2>3. QED
    BY <1>13, <2>1, <2>2 DEF Commit, Release, Stages, ErrorKinds, restart, history
<1>14. CASE CompleteTaskFails
  BY <1>14 DEF CompleteTaskFails, Throw, Stages, ErrorKinds, database, restart, history
<1>15. CASE RecordError
  <2>1. cur \in Task
    BY <1>15, HeldIsTask DEF RecordError
  <2>2. QED
    BY <1>15, <2>1 DEF RecordError, MarkError, Stages, TASK_STATUS, restart, history
<1>16. CASE BlameResource
  <2>1. cur \in Task
    BY <1>16, HeldIsTask DEF BlameResource
  <2>2. QED
    BY <1>16, <2>1 DEF BlameResource, UpdateResource, Release, Stages, ErrorKinds,
                       RESOURCE_STATUS, restart, history
<1>17. ASSUME NEW t \in Task, RecordNotRestartable(t) PROVE TypeOK'
  BY <1>17 DEF RecordNotRestartable, Newest, MarkError, ErrorKinds, TASK_STATUS, runner, history
<1>18. CASE BlameNotRestartable
  BY <1>18 DEF BlameNotRestartable, UpdateResource, RESOURCE_STATUS, runner, history
<1>19. ASSUME NEW t \in Task, LateWrite(t) PROVE TypeOK'
  BY <1>19 DEF LateWrite, RESOURCE_STATUS, runner, restart, history
<1>20. CASE Crash
  <2>1. interrupted' \subseteq Task /\ crashes' \in Nat
    BY <1>20 DEF Crash
  <2>2. UNCHANGED database
    BY <1>20 DEF Crash
  <2>3. /\ phase' = "down" /\ batch' = {} /\ errBatch' = {} /\ errCur' = NoTask
        /\ late' = {} /\ Release
    BY <1>20 DEF Crash
  <2>4. QED
    BY <2>1, <2>2, <2>3 DEF Release, Stages, ErrorKinds, database
<1>21. CASE UNCHANGED vars
  BY <1>21 DEF vars, database, runner, restart, history
<1>22. QED
  BY <1>1, <1>2, <1>3, <1>4, <1>5, <1>6, <1>7, <1>8, <1>9, <1>10, <1>11, <1>12, <1>13,
     <1>14, <1>15, <1>16, <1>17, <1>18, <1>19, <1>20, <1>21 DEF Next, Work

-----------------------------------------------------------------------------
\* The parts of ControlInv beside the types, to be preserved together.
ControlParts == HoldingInv /\ QueueInv /\ StageInv /\ AtMostOneRunning /\ RunningIsOwned

LEMMA ControlStep ==
    ASSUME ControlInv, [Next]_vars
    PROVE  ControlParts'
<1> USE TaskAssumption DEF ControlInv, ControlParts, HoldingInv, QueueInv, StageInv,
        AtMostOneRunning, RunningIsOwned, Held, Owned, TypeOK, Stages
<1>1. ASSUME NEW t \in Task, InsertTask(t) PROVE ControlParts'
  BY <1>1 DEF InsertTask, runner, restart, history
<1>2. ASSUME NEW t \in Task, Cancel(t) PROVE ControlParts'
  BY <1>2 DEF Cancel, runner, restart, history
<1>3. CASE Start
  BY <1>3 DEF Start, database, runner, history
<1>4. CASE StartControlLoop
  BY <1>4 DEF StartControlLoop, database, runner, restart, history
<1>5. CASE LoadCreatedTasks
  BY <1>5 DEF LoadCreatedTasks, database, runner, restart, history
<1>6. ASSUME NEW t \in Task, RunTask(t) PROVE ControlParts'
  <2>1. HoldingInv'
    BY <1>6 DEF RunTask, Newest, restart, history
  <2>2. QueueInv'
    BY <1>6 DEF RunTask, Newest, restart, history
  <2>3. StageInv'
    BY <1>6 DEF RunTask, Newest, restart, history
  <2>4. AtMostOneRunning'
    BY <1>6 DEF RunTask, Newest, restart, history
  <2>5. RunningIsOwned'
    BY <1>6 DEF RunTask, Newest, restart, history
  <2>6. QED
    BY <2>1, <2>2, <2>3, <2>4, <2>5
<1>7. ASSUME NEW t \in Task, RunTaskFails(t) PROVE ControlParts'
  BY <1>7 DEF RunTaskFails, Newest, Throw, database, restart, history
<1>8. CASE Yield
  BY <1>8 DEF Yield, database, restart, history
<1>9. CASE Return
  BY <1>9 DEF Return, database, restart, history
<1>10. CASE HandlerThrows
  BY <1>10 DEF HandlerThrows, Throw, database, restart, history
<1>11. CASE StopRunner
  BY <1>11 DEF StopRunner, database, restart, history
<1>12. CASE RecordEnd
  BY <1>12 DEF RecordEnd, restart, history
<1>13. CASE Commit
  BY <1>13 DEF Commit, Release, restart, history
<1>14. CASE CompleteTaskFails
  BY <1>14 DEF CompleteTaskFails, Throw, database, restart, history
<1>15. CASE RecordError
  <2>1. HoldingInv'
    BY <1>15 DEF RecordError, MarkError, restart, history
  <2>2. QueueInv'
    BY <1>15 DEF RecordError, MarkError, restart, history
  <2>3. StageInv'
    <3>1. /\ cur \in Task
          /\ cur' = cur /\ errCur' = errCur /\ stage' = "blaming"
          /\ taskStatus' = [taskStatus EXCEPT ![cur] = "error"]
      BY <1>15 DEF RecordError, MarkError, restart
    <3>2. taskStatus'[cur'] = "error" /\ (errCur' # NoTask => taskStatus'[errCur'] = "error")
      BY <3>1
    <3>3. QED
      BY <3>1, <3>2
  <2>4. AtMostOneRunning'
    BY <1>15 DEF RecordError, MarkError, restart, history
  <2>5. RunningIsOwned'
    BY <1>15 DEF RecordError, MarkError, restart, history
  <2>6. QED
    BY <2>1, <2>2, <2>3, <2>4, <2>5
<1>16. CASE BlameResource
  BY <1>16 DEF BlameResource, UpdateResource, Release, restart, history
<1>17. ASSUME NEW t \in Task, RecordNotRestartable(t) PROVE ControlParts'
  BY <1>17 DEF RecordNotRestartable, Newest, MarkError, runner, history
<1>18. CASE BlameNotRestartable
  BY <1>18 DEF BlameNotRestartable, UpdateResource, runner, history
<1>19. ASSUME NEW t \in Task, LateWrite(t) PROVE ControlParts'
  BY <1>19 DEF LateWrite, runner, restart, history
<1>20. CASE Crash
  BY <1>20 DEF Crash, Release, database
<1>21. CASE UNCHANGED vars
  BY <1>21 DEF vars, database, runner, restart, history
<1>22. QED
  BY <1>1, <1>2, <1>3, <1>4, <1>5, <1>6, <1>7, <1>8, <1>9, <1>10, <1>11, <1>12, <1>13,
     <1>14, <1>15, <1>16, <1>17, <1>18, <1>19, <1>20, <1>21 DEF Next, Work

-----------------------------------------------------------------------------
\* The control invariant: whatever crashes and whenever, at most one task is
\* marked running and a live process holds it.
THEOREM ControlInvariant == Spec => []ControlInv
<1>1. Init => ControlInv
  BY InitControl
<1>2. ControlInv /\ [Next]_vars => ControlInv'
  BY TypeStep, ControlStep DEF ControlInv, ControlParts
<1>3. QED
  BY <1>1, <1>2, PTL DEF Spec

\* Type correctness of every column and every local of the processor.
THEOREM TypeCorrect == Spec => []TypeOK
  BY ControlInvariant, PTL DEF ControlInv

\* No two tasks are ever marked running at once.
THEOREM OneRunning == Spec => []AtMostOneRunning
  BY ControlInvariant, PTL DEF ControlInv

\* No task is left running without the live process holding it.
THEOREM NoneForgotten == Spec => []RunningIsOwned
  BY ControlInvariant, PTL DEF ControlInv

\* Within the life of a process no handler is run twice for one task: runTask
\* takes queued tasks only, and those of the control loop are still created.
THEOREM NoRerun == Spec => RerunOnlyAfterRestart
<1>1. ASSUME ControlInv, [Next]_vars, NEW t \in Task, cur' = t, cur # t
      PROVE  taskStatus[t] = "created" \/ phase = "restarting"
  <2>1. t # NoTask
    BY TaskAssumption
  <2>2. \E u \in Task : RunTask(u) \/ RunTaskFails(u)
    BY <1>1, <2>1 DEF Next, Work, vars, runner, Release, InsertTask, Cancel, Start,
       StartControlLoop, LoadCreatedTasks, Yield, Return, HandlerThrows, StopRunner, RecordEnd,
       Commit, CompleteTaskFails, RecordError, BlameResource, RecordNotRestartable,
       BlameNotRestartable, LateWrite, Crash
  <2>3. t \in batch /\ phase # "down"
    BY <1>1, <2>2 DEF RunTask, RunTaskFails, Newest
  <2>4. QED
    BY <1>1, <2>3 DEF ControlInv, TypeOK, QueueInv
<1>2. ControlInv /\ [Next]_vars =>
        [\A t \in Task :
            cur' = t /\ cur # t => taskStatus[t] = "created" \/ phase = "restarting"]_vars
  BY <1>1
<1>3. QED
  BY <1>2, ControlInvariant, PTL DEF Spec, RerunOnlyAfterRestart

-----------------------------------------------------------------------------
(* What the status of a resource says: StatusExplained. *)

\* A task that failed stays failed, with the error it failed with.
LEMMA ErrorIsFinal ==
    ASSUME ControlInv, [Next]_vars, NEW d \in Task, taskStatus[d] = "error"
    PROVE  taskStatus'[d] = "error" /\ taskError'[d] = taskError[d]
<1> USE TaskAssumption DEF ControlInv, HoldingInv, QueueInv, StageInv, Held, Owned, TypeOK, Stages
<1>1. ASSUME NEW t \in Task, InsertTask(t) PROVE taskStatus'[d] = "error" /\ taskError'[d] = taskError[d]
  BY <1>1 DEF InsertTask, runner, restart, history
<1>2. ASSUME NEW t \in Task, Cancel(t) PROVE taskStatus'[d] = "error" /\ taskError'[d] = taskError[d]
  BY <1>2 DEF Cancel, runner, restart, history
<1>3. CASE Start
  BY <1>3 DEF Start, database, runner, history
<1>4. CASE StartControlLoop
  BY <1>4 DEF StartControlLoop, database, runner, restart, history
<1>5. CASE LoadCreatedTasks
  BY <1>5 DEF LoadCreatedTasks, database, runner, restart, history
<1>6. ASSUME NEW t \in Task, RunTask(t) PROVE taskStatus'[d] = "error" /\ taskError'[d] = taskError[d]
  BY <1>6 DEF RunTask, Newest, restart, history
<1>7. ASSUME NEW t \in Task, RunTaskFails(t) PROVE taskStatus'[d] = "error" /\ taskError'[d] = taskError[d]
  BY <1>7 DEF RunTaskFails, Newest, Throw, database, restart, history
<1>8. CASE Yield
  BY <1>8 DEF Yield, database, restart, history
<1>9. CASE Return
  BY <1>9 DEF Return, database, restart, history
<1>10. CASE HandlerThrows
  BY <1>10 DEF HandlerThrows, Throw, database, restart, history
<1>11. CASE StopRunner
  BY <1>11 DEF StopRunner, database, restart, history
<1>12. CASE RecordEnd
  BY <1>12 DEF RecordEnd, restart, history
<1>13. CASE Commit
  BY <1>13 DEF Commit, Release, restart, history
<1>14. CASE CompleteTaskFails
  BY <1>14 DEF CompleteTaskFails, Throw, database, restart, history
<1>15. CASE RecordError
  BY <1>15 DEF RecordError, MarkError, restart, history
<1>16. CASE BlameResource
  BY <1>16 DEF BlameResource, UpdateResource, Release, restart, history
<1>17. ASSUME NEW t \in Task, RecordNotRestartable(t) PROVE taskStatus'[d] = "error" /\ taskError'[d] = taskError[d]
  BY <1>17 DEF RecordNotRestartable, Newest, MarkError, runner, history
<1>18. CASE BlameNotRestartable
  BY <1>18 DEF BlameNotRestartable, UpdateResource, runner, history
<1>19. ASSUME NEW t \in Task, LateWrite(t) PROVE taskStatus'[d] = "error" /\ taskError'[d] = taskError[d]
  BY <1>19 DEF LateWrite, runner, restart, history
<1>20. CASE Crash
  BY <1>20 DEF Crash, Ending, Release, database
<1>21. CASE UNCHANGED vars
  BY <1>21 DEF vars, database, runner, restart, history
<1>22. QED
  BY <1>1, <1>2, <1>3, <1>4, <1>5, <1>6, <1>7, <1>8, <1>9, <1>10, <1>11, <1>12, <1>13,
     <1>14, <1>15, <1>16, <1>17, <1>18, <1>19, <1>20, <1>21 DEF Next, Work

\* The invariant on what is recorded is preserved.
LEMMA RecordStep ==
    ASSUME ControlInv, RecordInv, [Next]_vars
    PROVE  RecordInv'
<1> USE TaskAssumption DEF ControlInv, HoldingInv, QueueInv, StageInv, Held, Owned, TypeOK, Stages, RecordInv, NothingLeft
<1>1. ASSUME NEW t \in Task, InsertTask(t) PROVE RecordInv'
  BY <1>1 DEF InsertTask, runner, restart, history
<1>2. ASSUME NEW t \in Task, Cancel(t) PROVE RecordInv'
  BY <1>2 DEF Cancel, runner, restart, history
<1>3. CASE Start
  BY <1>3 DEF Start, database, runner, history
<1>4. CASE StartControlLoop
  BY <1>4 DEF StartControlLoop, database, runner, restart, history
<1>5. CASE LoadCreatedTasks
  BY <1>5 DEF LoadCreatedTasks, database, runner, restart, history
<1>6. ASSUME NEW t \in Task, RunTask(t) PROVE RecordInv'
  BY <1>6 DEF RunTask, Newest, restart, history
<1>7. ASSUME NEW t \in Task, RunTaskFails(t) PROVE RecordInv'
  BY <1>7 DEF RunTaskFails, Newest, Throw, database, restart, history
<1>8. CASE Yield
  BY <1>8 DEF Yield, database, restart, history
<1>9. CASE Return
  BY <1>9 DEF Return, database, restart, history
<1>10. CASE HandlerThrows
  BY <1>10 DEF HandlerThrows, Throw, database, restart, history
<1>11. CASE StopRunner
  BY <1>11 DEF StopRunner, database, restart, history
<1>12. CASE RecordEnd
  BY <1>12 DEF RecordEnd, restart, history
<1>13. CASE Commit
  <2>1. TASK_RESOURCE_COMPLETE_STATUS(ActionOf[cur]) # "absent"
    BY CompleteStatusType DEF Commit, RESOURCE_STATUS, TASK_RESOURCE_COMPLETE_STATUS
  <2>2. QED
    BY <1>13, <2>1 DEF Commit, Release, restart, history
<1>14. CASE CompleteTaskFails
  BY <1>14 DEF CompleteTaskFails, Throw, database, restart, history
<1>15. CASE RecordError
  BY <1>15 DEF RecordError, MarkError, restart, history
<1>16. CASE BlameResource
  BY <1>16 DEF BlameResource, UpdateResource, Release, restart, history
<1>17. ASSUME NEW t \in Task, RecordNotRestartable(t) PROVE RecordInv'
  BY <1>17 DEF RecordNotRestartable, Newest, MarkError, runner, history
<1>18. CASE BlameNotRestartable
  BY <1>18 DEF BlameNotRestartable, UpdateResource, runner, history
<1>19. ASSUME NEW t \in Task, LateWrite(t) PROVE RecordInv'
  BY <1>19 DEF LateWrite, runner, restart, history
<1>20. CASE Crash
  BY <1>20 DEF Crash, Ending, Release, database
<1>21. CASE UNCHANGED vars
  BY <1>21 DEF vars, database, runner, restart, history
<1>22. QED
  BY <1>1, <1>2, <1>3, <1>4, <1>5, <1>6, <1>7, <1>8, <1>9, <1>10, <1>11, <1>12, <1>13,
     <1>14, <1>15, <1>16, <1>17, <1>18, <1>19, <1>20, <1>21 DEF Next, Work

\* For one resource: what its status says is still so after a step.
LEMMA ExplainedStep ==
    ASSUME ControlInv, RecordInv, StatusExplained, [Next]_vars, NEW r \in Resource,
           lastEnded'[r] \in Task \ (interrupted' \cup {cur', errCur'})
    PROVE  \/ Explains(lastEnded[r], resourceStatus[r])'
           \/ LateDelete(r, resourceStatus[r])'
<1> USE TaskAssumption DEF ControlInv, HoldingInv, QueueInv, StageInv, Held, Owned, TypeOK,
        Stages, RecordInv, StatusExplained
<1> DEFINE Goal == \/ Explains(lastEnded[r], resourceStatus[r])'
                   \/ LateDelete(r, resourceStatus[r])'
\* A delete that was late stays late: its task has failed for good.
<1>0. ASSUME LateDelete(r, resourceStatus[r]), resourceStatus'[r] = resourceStatus[r]
      PROVE  Goal
  BY <1>0, ErrorIsFinal DEF LateDelete, NothingLeft
\* A step that changes neither the task that ended last nor the status.
<1>q. ASSUME lastEnded'[r] = lastEnded[r], resourceStatus'[r] = resourceStatus[r],
             lastEnded[r] \notin interrupted \cup {cur, errCur},
             taskStatus'[lastEnded[r]] = taskStatus[lastEnded[r]],
             taskError'[lastEnded[r]] = taskError[lastEnded[r]]
      PROVE  Goal
  BY <1>q, <1>0 DEF Explains, KeepsStatus, NothingLeft
<1>1. ASSUME NEW t \in Task, InsertTask(t) PROVE Goal
  BY <1>q, <1>1 DEF InsertTask, runner, restart, history
<1>2. ASSUME NEW t \in Task, Cancel(t) PROVE Goal
  BY <1>q, <1>2 DEF Cancel, runner, restart, history
<1>3. CASE Start
  BY <1>q, <1>3 DEF Start, database, runner, history
<1>4. CASE StartControlLoop
  BY <1>q, <1>4 DEF StartControlLoop, database, runner, restart, history
<1>5. CASE LoadCreatedTasks
  BY <1>q, <1>5 DEF LoadCreatedTasks, database, runner, restart, history
<1>6. ASSUME NEW t \in Task, RunTask(t) PROVE Goal
  BY <1>q, <1>6 DEF RunTask, Newest, restart, history
<1>7. ASSUME NEW t \in Task, RunTaskFails(t) PROVE Goal
  BY <1>q, <1>7 DEF RunTaskFails, Newest, Throw, database, restart, history
<1>8. CASE Yield
  BY <1>q, <1>8 DEF Yield, database, restart, history
<1>9. CASE Return
  BY <1>q, <1>9 DEF Return, database, restart, history
<1>10. CASE HandlerThrows
  BY <1>q, <1>10 DEF HandlerThrows, Throw, database, restart, history
<1>11. CASE StopRunner
  BY <1>q, <1>11 DEF StopRunner, database, restart, history
<1>12. CASE RecordEnd
  BY <1>q, <1>12 DEF RecordEnd, restart, history
<1>13. CASE Commit
  <2>1. CASE lastEnded[r] = cur
    <3>1. ~cancelled /\ taskStatus[cur] = "finished" /\ ResourceOf[cur] = r
      BY <1>13, <2>1 DEF Commit
    <3>2. resourceStatus'[r] = TASK_RESOURCE_COMPLETE_STATUS(ActionOf[cur])
      BY <1>13, <3>1 DEF Commit
    <3>3. lastEnded'[r] = cur /\ taskStatus' = taskStatus
      BY <1>13, <2>1 DEF Commit
    <3>4. QED
      BY <3>1, <3>2, <3>3 DEF Explains
  <2>2. CASE lastEnded[r] # cur
    <3>1. resourceStatus'[r] = resourceStatus[r]
      BY <1>13, <2>2 DEF Commit
    <3>2. QED
      BY <1>q, <1>13, <2>2, <3>1 DEF Commit, restart, history
  <2>3. QED
    BY <2>1, <2>2
<1>14. CASE CompleteTaskFails
  BY <1>q, <1>14 DEF CompleteTaskFails, Throw, database, restart, history
<1>15. CASE RecordError
  BY <1>q, <1>15 DEF RecordError, MarkError, restart, history
<1>16. CASE BlameResource
  <2>1. CASE lastEnded[r] = cur
    <3>1. /\ lastEnded'[r] = cur /\ taskStatus' = taskStatus /\ taskError' = taskError
          /\ taskStatus[cur] = "error" /\ ResourceOf[cur] = r
      BY <1>16, <2>1 DEF BlameResource, UpdateResource
    <3>2. KeepsStatus(cur) \/ NothingLeft(cur) \/ resourceStatus'[r] = "error"
      BY <1>16, <3>1 DEF BlameResource, UpdateResource
    <3>3. QED
      BY <3>1, <3>2 DEF Explains, KeepsStatus, NothingLeft
  <2>2. CASE lastEnded[r] # cur
    <3>1. resourceStatus'[r] = resourceStatus[r]
      BY <1>16, <2>2 DEF BlameResource, UpdateResource
    <3>2. QED
      BY <1>q, <1>16, <2>2, <3>1 DEF BlameResource, UpdateResource, Release, restart, history
  <2>3. QED
    BY <2>1, <2>2
<1>17. ASSUME NEW t \in Task, RecordNotRestartable(t) PROVE Goal
  BY <1>q, <1>17 DEF RecordNotRestartable, Newest, MarkError, runner, history
<1>18. CASE BlameNotRestartable
  <2>1. CASE lastEnded[r] = errCur
    <3>1. /\ lastEnded'[r] = errCur /\ taskStatus' = taskStatus /\ taskError' = taskError
          /\ taskStatus[errCur] = "error" /\ ResourceOf[errCur] = r
      BY <1>18, <2>1 DEF BlameNotRestartable, UpdateResource
    <3>2. KeepsStatus(errCur) \/ NothingLeft(errCur) \/ resourceStatus'[r] = "error"
      BY <1>18, <3>1 DEF BlameNotRestartable, UpdateResource
    <3>3. QED
      BY <3>1, <3>2 DEF Explains, KeepsStatus, NothingLeft
  <2>2. CASE lastEnded[r] # errCur
    <3>1. resourceStatus'[r] = resourceStatus[r]
      BY <1>18, <2>2 DEF BlameNotRestartable, UpdateResource
    <3>2. QED
      BY <1>q, <1>18, <2>2, <3>1 DEF BlameNotRestartable, UpdateResource, runner, history
  <2>3. QED
    BY <2>1, <2>2
<1>19. ASSUME NEW t \in Task, LateWrite(t) PROVE Goal
  <2>1. CASE ResourceOf[t] = r
    <3>1. taskStatus'[t] = "error" /\ NothingLeft(t)' /\ resourceStatus'[r] = "deleted"
      BY <1>19, <2>1 DEF LateWrite, NothingLeft
    <3>2. QED
      BY <2>1, <3>1 DEF LateDelete
  <2>2. CASE ResourceOf[t] # r
    BY <1>q, <1>19, <2>2 DEF LateWrite, runner, restart, history
  <2>3. QED
    BY <2>1, <2>2
<1>20. CASE Crash
  BY <1>q, <1>20 DEF Crash, Ending, Release, database
<1>21. CASE UNCHANGED vars
  BY <1>q, <1>21 DEF vars, database, runner, restart, history
<1>22. QED
  BY <1>1, <1>2, <1>3, <1>4, <1>5, <1>6, <1>7, <1>8, <1>9, <1>10, <1>11, <1>12, <1>13,
     <1>14, <1>15, <1>16, <1>17, <1>18, <1>19, <1>20, <1>21 DEF Next, Work

\* The status of every resource is the one its last ended task gave it, except
\* where a crash cut that task's ending short or a late delete overwrote it.
THEOREM StatusFollowsTasks == Spec => []StatusExplained
<1>1. Init => RecordInv /\ StatusExplained
  BY TaskAssumption DEF Init, Resting, RecordInv, StatusExplained
<1>2. ControlInv /\ RecordInv /\ StatusExplained /\ [Next]_vars
        => RecordInv' /\ StatusExplained'
  <2>1. SUFFICES ASSUME ControlInv, RecordInv, StatusExplained, [Next]_vars
                 PROVE  RecordInv' /\ StatusExplained'
    OBVIOUS
  <2>2. RecordInv'
    BY <2>1, RecordStep
  <2>3. StatusExplained'
    BY <2>1, ExplainedStep DEF StatusExplained
  <2>4. QED
    BY <2>2, <2>3
<1>3. QED
  BY <1>1, <1>2, ControlInvariant, PTL DEF Spec

-----------------------------------------------------------------------------
(* The task processor implements TaskLifecycle. *)

LEMMA LifecycleInit == Init => Lifecycle!Init
  BY DEF Init, Lifecycle!Init

\* Every step of the processor is a step of the life of one task, or none.
LEMMA LifecycleStep ==
    ASSUME ControlInv, [Next]_vars
    PROVE  [Lifecycle!Next]_taskStatus
<1> USE TaskAssumption DEF ControlInv, HoldingInv, QueueInv, StageInv, TypeOK,
        Lifecycle!Become
<1>1. ASSUME NEW t \in Task, InsertTask(t) PROVE Lifecycle!Insert(t)
  BY <1>1 DEF InsertTask, Lifecycle!Insert
<1>2. ASSUME NEW t \in Task, Cancel(t) PROVE Lifecycle!RequestCancel(t)
  BY <1>2 DEF Cancel, Lifecycle!RequestCancel
<1>3. ASSUME NEW t \in Task, RunTask(t) PROVE Lifecycle!Start(t)
  BY <1>3 DEF RunTask, Newest, Lifecycle!Start, Lifecycle!TASK_ACTIVE_STATUSES
<1>4. CASE RecordEnd
  <2>1. cur \in Task
    BY <1>4, HeldIsTask DEF RecordEnd
  <2>2. CASE cancelled
    BY <1>4, <2>1, <2>2 DEF RecordEnd, Lifecycle!Cancelled, Lifecycle!Next
  <2>3. CASE ~cancelled
    BY <1>4, <2>1, <2>3 DEF RecordEnd, Lifecycle!Finish, Lifecycle!Next
  <2>4. QED
    BY <2>2, <2>3
<1>5. CASE RecordError
  <2>1. cur \in Task
    BY <1>5, HeldIsTask DEF RecordError
  <2>2. Lifecycle!Fail(cur)
    BY <1>5, <2>1 DEF RecordError, MarkError, Lifecycle!Fail
  <2>3. QED
    BY <2>1, <2>2 DEF Lifecycle!Next
<1>6. ASSUME NEW t \in Task, RecordNotRestartable(t) PROVE Lifecycle!Fail(t)
  BY <1>6 DEF RecordNotRestartable, Newest, MarkError, Lifecycle!Fail
<1>7. CASE UNCHANGED taskStatus
  BY <1>7
<1>8. \/ \E t \in Task : \/ InsertTask(t) \/ Cancel(t) \/ RunTask(t)
                        \/ RecordNotRestartable(t)
      \/ RecordEnd \/ RecordError \/ UNCHANGED taskStatus
  BY DEF Next, Work, vars, database, Start, StartControlLoop, LoadCreatedTasks,
     RunTaskFails, Yield, Return, HandlerThrows, StopRunner, Commit, CompleteTaskFails,
     BlameResource, BlameNotRestartable, UpdateResource, LateWrite, Crash
<1>9. QED
  BY <1>1, <1>2, <1>3, <1>4, <1>5, <1>6, <1>7, <1>8 DEF Lifecycle!Next

\* What the rows of the task table go through is what TaskLifecycle promises:
\* nothing finishes that was not started, nothing that ended runs again.
THEOREM Refinement == Spec => LifecycleSpec
<1>1. ControlInv /\ [Next]_vars => [Lifecycle!Next]_taskStatus
  BY LifecycleStep
<1>2. QED
  BY LifecycleInit, <1>1, ControlInvariant, PTL DEF Spec, LifecycleSpec, Lifecycle!Spec

=============================================================================

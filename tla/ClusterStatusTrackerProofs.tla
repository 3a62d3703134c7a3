---------------------- MODULE ClusterStatusTrackerProofs ----------------------
(***************************************************************************)
(* Proofs about the cluster status job, for every set of clusters and runs *)
(* and any number of changes around them.                                  *)
(***************************************************************************)
EXTENDS ClusterStatusTracker, TLAPS

\* The run r still has to ping c, or is pinging it.
HasListed(r, c) == todo[r][c] # "absent" \/ pinging[r] = c

\* What a run listed was not deleted when it began, and was there.
ListedInv ==
    \A r \in Run, c \in Cluster :
        HasListed(r, c) =>
            /\ c \notin unlisted[r]
            /\ status[c] = "absent" => c \in erased

\* A cluster without credentials, and one that was listed without them, is among
\* those that lacked them at some time.
LackInv ==
    /\ \A c \in Cluster : status[c] # "absent" /\ c \notin keyed => c \in lacked
    /\ \A r \in Run, c \in Cluster :
          todo[r][c] # "absent" /\ c \notin pointed[r] => c \in lacked

\* A run decides on "error" only for a cluster that was listed without it.
VerdictInv ==
    \A r \in Run :
        /\ pinging[r] = NoCluster => verdict[r] = "ask"
        /\ verdict[r] = "error" => was[r] # "error"

TrackerInv == TypeOK /\ ListedInv /\ LackInv /\ VerdictInv

-----------------------------------------------------------------------------
LEMMA InitTracker == ASSUME Init PROVE TrackerInv
<1>1. TypeOK
  BY ClusterAssumption DEF Init, NoRuns, TypeOK, Listed, Nothing, RESOURCE_STATUS
<1>2. ListedInv
  BY ClusterAssumption DEF Init, NoRuns, Nothing, ListedInv, HasListed
<1>3. VerdictInv
  BY DEF Init, NoRuns, VerdictInv
<1>4. LackInv
  BY DEF Init, NoRuns, Nothing, LackInv
<1>5. QED
  BY <1>1, <1>2, <1>3, <1>4 DEF TrackerInv

\* The process exits, by itself or because of a run.
LEMMA ExitKeeps ==
    ASSUME TrackerInv, Exit, changes' \in 0..MaxChanges,
           UNCHANGED <<status, secrets, reachable, erased, unlisted>>
    PROVE  TrackerInv'
<1>1. TypeOK'
  BY DEF TrackerInv, TypeOK, Exit, Nothing, Listed, secrets
<1>2. ListedInv'
  BY ClusterAssumption DEF ListedInv, HasListed, Exit, Nothing
<1>3. VerdictInv'
  BY DEF VerdictInv, Exit
<1>4. LackInv'
  BY DEF TrackerInv, LackInv, Exit, Nothing, secrets
<1>5. QED
  BY <1>1, <1>2, <1>3, <1>4 DEF TrackerInv

-----------------------------------------------------------------------------
\* The steps of a run.
LEMMA JobKeeps == ASSUME TrackerInv, Job PROVE TrackerInv'
<1> USE ClusterAssumption DEF TrackerInv
<1>1. CASE Boot
  BY <1>1 DEF Boot, run, secrets, TypeOK, ListedInv, HasListed, LackInv, VerdictInv
<1>2. ASSUME NEW r \in Run, StartRun(r) PROVE TrackerInv'
  <2>1. TypeOK'
    BY <1>2 DEF StartRun, Snapshot, TypeOK, Listed, secrets
  <2>2. ListedInv'
    <3> SUFFICES ASSUME NEW q \in Run, NEW c \in Cluster, HasListed(q, c)'
                 PROVE  c \notin unlisted'[q] /\ (status[c] = "absent" => c \in erased)
      BY <1>2 DEF ListedInv, StartRun
    <3>1. CASE q = r
      BY <1>2, <3>1 DEF StartRun, Snapshot, Idle, HasListed, TypeOK, Listed
    <3>2. CASE q # r
      BY <1>2, <3>2 DEF StartRun, HasListed, ListedInv, TypeOK, Listed
    <3>3. QED BY <3>1, <3>2
  <2>3. VerdictInv'
    BY <1>2 DEF StartRun, VerdictInv
  <2>4. LackInv'
    BY <1>2 DEF StartRun, Snapshot, TypeOK, Listed, LackInv, secrets
  <2>5. QED BY <2>1, <2>2, <2>3, <2>4
<1>3. ASSUME NEW r \in Run, NEW c \in Cluster, Ping(r, c) PROVE TrackerInv'
  <2>1. TypeOK'
    BY <1>3 DEF Ping, TypeOK, Listed, secrets
  <2>2. ListedInv'
    BY <1>3 DEF Ping, TypeOK, Listed, ListedInv, HasListed
  <2>3. VerdictInv'
    BY <1>3 DEF Ping, TypeOK, VerdictInv
  <2>4. LackInv'
    BY <1>3 DEF Ping, TypeOK, Listed, LackInv, secrets
  <2>5. QED BY <2>1, <2>2, <2>3, <2>4
<1>4. ASSUME NEW r \in Run, NEW c \in Cluster, PingFails(r, c) PROVE TrackerInv'
  BY <1>4, ExitKeeps DEF PingFails, TypeOK
<1>5. ASSUME NEW r \in Run, Answer(r) PROVE TrackerInv'
  <2>1. TypeOK'
    BY <1>5 DEF Answer, EndPing, TypeOK, secrets
  <2>2. ListedInv'
    BY <1>5 DEF Answer, EndPing, TypeOK, ListedInv, HasListed
  <2>3. VerdictInv'
    BY <1>5 DEF Answer, EndPing, TypeOK, VerdictInv
  <2>4. LackInv'
    BY <1>5 DEF Answer, LackInv, secrets
  <2>5. QED BY <2>1, <2>2, <2>3, <2>4
<1>6. ASSUME NEW r \in Run, Write(r) PROVE TrackerInv'
  <2>1. verdict[r] \in RESOURCE_STATUS \ {"absent"}
    BY <1>6 DEF Write, TypeOK, RESOURCE_STATUS
  <2>2. TypeOK'
    BY <1>6, <2>1 DEF Write, EndPing, TypeOK, Listed, secrets
  <2>3. ListedInv'
    BY <1>6, <2>1 DEF Write, EndPing, TypeOK, Listed, ListedInv, HasListed
  <2>4. VerdictInv'
    BY <1>6 DEF Write, EndPing, TypeOK, VerdictInv
  <2>5. LackInv'
    BY <1>6, <2>1 DEF Write, TypeOK, Listed, LackInv, secrets
  <2>6. QED BY <2>2, <2>3, <2>4, <2>5
<1>7. ASSUME NEW r \in Run, WriteNothing(r) PROVE TrackerInv'
  <2>1. CASE Exit
    BY <1>7, <2>1, ExitKeeps DEF WriteNothing, TypeOK
  <2>2. CASE EndPing(r) /\ UNCHANGED <<up, todo, pointed>>
    <3>1. TypeOK'
      BY <1>7, <2>2 DEF WriteNothing, EndPing, TypeOK, secrets
    <3>2. ListedInv'
      BY <1>7, <2>2 DEF WriteNothing, EndPing, TypeOK, ListedInv, HasListed
    <3>3. VerdictInv'
      BY <1>7, <2>2 DEF WriteNothing, EndPing, TypeOK, VerdictInv
    <3>4. LackInv'
      BY <1>7, <2>2 DEF WriteNothing, LackInv, secrets
    <3>5. QED BY <3>1, <3>2, <3>3, <3>4
  <2>3. QED BY <1>7, <2>1, <2>2 DEF WriteNothing
<1>8. QED
  BY <1>1, <1>2, <1>3, <1>4, <1>5, <1>6, <1>7 DEF Job, Advance

\* What happens around the job.
LEMMA AroundKeeps == ASSUME TrackerInv, Around PROVE TrackerInv'
<1> USE ClusterAssumption DEF TrackerInv
<1>1. ASSUME Change PROVE changes' \in 0..MaxChanges
  BY <1>1 DEF Change, TypeOK
<1>2. ASSUME NEW c \in Cluster, CreateCluster(c) PROVE TrackerInv'
  <2> USE <1>2 DEF CreateCluster, Holding, run
  <2>1. TypeOK'
    BY <1>1 DEF TypeOK, Listed, RESOURCE_STATUS
  <2>2. ListedInv' /\ VerdictInv'
    BY DEF TypeOK, Listed, ListedInv, HasListed, VerdictInv
  <2>3. LackInv'
    BY DEF TypeOK, Listed, LackInv
  <2>4. QED BY <2>1, <2>2, <2>3
<1>3. ASSUME NEW c \in Cluster, EditCluster(c) PROVE TrackerInv'
  <2> USE <1>3 DEF EditCluster, Holding, run
  <2>1. TypeOK'
    BY <1>1 DEF TypeOK
  <2>2. ListedInv' /\ VerdictInv'
    BY DEF ListedInv, HasListed, VerdictInv
  <2>3. LackInv'
    BY DEF TypeOK, LackInv
  <2>4. QED BY <2>1, <2>2, <2>3
<1>4. ASSUME NEW c \in Cluster, TaskEnds(c) PROVE TrackerInv'
  <2> USE <1>4 DEF TaskEnds, run
  <2>1. TypeOK'
    BY <1>1 DEF TypeOK, Listed, RESOURCE_STATUS
  <2>2. ListedInv' /\ VerdictInv'
    BY DEF TypeOK, Listed, ListedInv, HasListed, VerdictInv
  <2>3. LackInv'
    BY DEF TypeOK, Listed, LackInv
  <2>4. QED BY <2>1, <2>2, <2>3
<1>5. ASSUME NEW c \in Cluster, DeletePermanently(c) PROVE TrackerInv'
  <2> USE <1>5 DEF DeletePermanently, run
  <2>1. TypeOK'
    BY <1>1 DEF TypeOK, Listed
  <2>2. ListedInv' /\ VerdictInv'
    BY DEF TypeOK, Listed, ListedInv, HasListed, VerdictInv
  <2>3. LackInv'
    BY DEF TypeOK, Listed, LackInv
  <2>4. QED BY <2>1, <2>2, <2>3
<1>6. ASSUME NEW c \in Cluster, Flip(c) PROVE TrackerInv'
  BY <1>1, <1>6 DEF Flip, run, secrets, TypeOK, ListedInv, HasListed, LackInv, VerdictInv
<1>7. CASE Crash
  BY <1>1, <1>7, ExitKeeps DEF Crash
<1>8. QED
  BY <1>2, <1>3, <1>4, <1>5, <1>6, <1>7 DEF Around

\* Every step of the program and of what surrounds it keeps the invariant.
LEMMA StepKeeps == ASSUME TrackerInv, [Next]_vars PROVE TrackerInv'
<1>1. CASE UNCHANGED vars
  BY <1>1 DEF vars, run, secrets, TrackerInv, TypeOK, ListedInv, HasListed, LackInv, VerdictInv
<1>2. QED
  BY <1>1, JobKeeps, AroundKeeps DEF Next

LEMMA TrackerHolds == Spec => []TrackerInv
<1>1. Init => TrackerInv
  BY InitTracker
<1>2. TrackerInv /\ [Next]_vars => TrackerInv'
  BY StepKeeps
<1>3. QED
  BY <1>1, <1>2, PTL DEF Spec

-----------------------------------------------------------------------------
\* Rows, lists, pings and verdicts have the values that the code gives them.
THEOREM TypeCorrect == Spec => []TypeOK
<1>1. TrackerInv => TypeOK
  BY DEF TrackerInv
<1>2. QED
  BY <1>1, TrackerHolds, PTL

\* However stale the list of a run, it does not hold a cluster that was already
\* deleted when the run began, so the job does not write to such a cluster.
THEOREM RunsLeaveTheDeletedAlone == Spec => DeletedIsLeftAlone
<1>1. TrackerInv => \A r \in Run, c \in Cluster :
                       Write(r) /\ pinging[r] = c => c \notin unlisted[r]
  BY DEF TrackerInv, ListedInv, HasListed
<1>2. QED
  BY <1>1, TrackerHolds, PTL DEF DeletedIsLeftAlone

\* The job ends the process only over a cluster that a run had listed and that
\* was deleted permanently or had lacked its credentials: never over clusters
\* that have always had them and are there still, answering or not.
THEOREM OnlyMissingRowsEndTheProcess == Spec => ExitOnlyOverMissingRows
<1> DEFINE Lost ==
      \E r \in Run :
         \/ \E c \in erased \cup lacked : todo[r][c] # "absent"
         \/ pinging[r] \in erased /\ was[r] # "error"
<1>1. ASSUME TrackerInv, Next, up, ~up', ~Crash PROVE Lost
  <2>1. \/ \E r \in Run : \E c \in Cluster : PingFails(r, c)
        \/ \E r \in Run : WriteNothing(r) /\ Exit
    BY <1>1 DEF Next, Job, Around, Boot, StartRun, Advance, Ping, Answer, Write, WriteNothing,
                CreateCluster, EditCluster, TaskEnds, DeletePermanently, Flip
  <2>2. ASSUME NEW r \in Run, NEW c \in Cluster, PingFails(r, c) PROVE Lost
    BY <1>1, <2>2 DEF PingFails, HasCredentials, TrackerInv, ListedInv, HasListed, LackInv
  <2>3. ASSUME NEW r \in Run, WriteNothing(r), Exit PROVE Lost
    <3>1. pinging[r] \in Cluster /\ status[pinging[r]] = "absent"
      BY <1>1, <2>3 DEF WriteNothing, TrackerInv, TypeOK
    <3>2. pinging[r] \in erased
      BY <1>1, <3>1 DEF TrackerInv, ListedInv, HasListed
    <3>3. verdict[r] = "error"
      BY <1>1, <2>3 DEF WriteNothing
    <3>4. was[r] # "error"
      BY <1>1, <3>3 DEF TrackerInv, VerdictInv
    <3>5. QED BY <3>2, <3>4
  <2>4. QED BY <2>1, <2>2, <2>3
<1>2. TrackerInv /\ [Next]_vars => [up /\ ~up' /\ ~Crash => Lost]_vars
  BY <1>1
<1>3. QED
  BY <1>2, TrackerHolds, PTL DEF Spec, ExitOnlyOverMissingRows

=============================================================================

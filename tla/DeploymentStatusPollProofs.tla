---------------------- MODULE DeploymentStatusPollProofs ----------------------
(***************************************************************************)
(* Proofs about the deployment status job, for every set of deployments    *)
(* and polls, whatever helm may report, and any length of the clock.       *)
(***************************************************************************)
EXTENDS DeploymentStatusPoll, TLAPS

\* The current hour began at the latest with the next timestamp, and so the hour
\* of a stamp is not later than the stamp.
HourInv ==
    /\ hour <= clock + 1
    /\ \A p \in Poll, d \in Deployment : since[p][d] <= stamp[p][d]

\* What a poll selected is as it was then, unless others have written it.
SelectedInv ==
    \A p \in Poll, d \in Deployment :
        stage[p][d] = "update" /\ d \notin overtaken[p] =>
            /\ status[d] \in {seen[p][d], "absent"}
            /\ updatedAt[d] < stamp[p][d]

\* Only a status that is known is selected.
KnownInv ==
    \A p \in Poll, d \in Deployment :
        stage[p][d] = "update" => seen[p][d] # "undefined"

PollInv == TypeOK /\ HourInv /\ SelectedInv /\ KnownInv

-----------------------------------------------------------------------------
\* The translation of a helm status is a deployment status, or nothing known.
LEMMA TranslateType ==
    ASSUME NEW helm
    PROVE  Translate(helm) \in RESOURCE_STATUS \cup {"undefined"}
  BY DEF Translate, RESOURCE_STATUS

LEMMA InitPoll == ASSUME Init PROVE PollInv
<1>1. TypeOK
  BY PollAssumption DEF Init, NoPolls, TypeOK, Stages
<1>2. HourInv
  BY DEF Init, NoPolls, HourInv
<1>3. SelectedInv
  BY DEF Init, NoPolls, SelectedInv
<1>4. KnownInv
  BY DEF Init, NoPolls, KnownInv
<1>5. QED
  BY <1>1, <1>2, <1>3, <1>4 DEF PollInv

\* A poll is done with a deployment.
LEMMA DoneKeeps ==
    ASSUME PollInv, NEW p \in Poll, NEW d \in Deployment, Done(p, d),
           UNCHANGED <<table, release, clock, hour, up>>
    PROVE  PollInv'
<1> USE PollAssumption DEF PollInv
<1>1. /\ stage' \in [Poll -> [Deployment -> Stages]]
      /\ seen' \in [Poll -> [Deployment -> RESOURCE_STATUS \cup {"undefined"}]]
  BY DEF Done, TypeOK, Stages
<1>2. /\ stamp' \in [Poll -> [Deployment -> 0..MaxClock]]
      /\ since' \in [Poll -> [Deployment -> 0..MaxClock]]
  BY DEF Done, TypeOK
<1>3. overtaken' \in [Poll -> SUBSET Deployment]
  BY DEF Done, TypeOK
<1>4. TypeOK'
  BY <1>1, <1>2, <1>3 DEF table, TypeOK
<1>5. ASSUME NEW q \in Poll, NEW e \in Deployment, stage'[q][e] = "update"
      PROVE  /\ stage[q][e] = "update"
             /\ seen'[q][e] = seen[q][e] /\ stamp'[q][e] = stamp[q][e]
             /\ e \in overtaken'[q] <=> e \in overtaken[q]
  BY <1>5 DEF Done, TypeOK
<1>6. SelectedInv' /\ KnownInv'
  BY <1>5 DEF SelectedInv, KnownInv, table
<1>7. HourInv'
  BY DEF Done, TypeOK, HourInv
<1>8. QED
  BY <1>4, <1>6, <1>7

-----------------------------------------------------------------------------
\* The job's own steps.
LEMMA JobKeeps == ASSUME PollInv, Job PROVE PollInv'
<1> USE PollAssumption DEF PollInv
<1>1. CASE Boot
  BY <1>1 DEF Boot, table, poll, TypeOK, HourInv, SelectedInv, KnownInv
<1>2. ASSUME NEW p \in Poll, StartPoll(p) PROVE PollInv'
  <2>1. TypeOK'
    BY <1>2 DEF StartPoll, table, TypeOK, Stages
  <2>2. SelectedInv' /\ KnownInv'
    BY <1>2 DEF StartPoll, table, TypeOK, SelectedInv, KnownInv
  <2>3. QED BY <1>2, <2>1, <2>2 DEF StartPoll, HourInv
<1>3. ASSUME NEW p \in Poll, NEW d \in Deployment, HelmList(p, d) PROVE PollInv'
  <2>1. Translate(release[d]) \in RESOURCE_STATUS \cup {"undefined"}
    BY TranslateType
  <2>2. TypeOK'
    BY <1>3, <2>1 DEF HelmList, table, TypeOK, Stages
  <2>3. SelectedInv' /\ KnownInv'
    BY <1>3 DEF HelmList, table, TypeOK, SelectedInv, KnownInv
  <2>4. QED BY <1>3, <2>2, <2>3 DEF HelmList, HourInv
<1>4. ASSUME NEW p \in Poll, NEW d \in Deployment, ProcessHelmResponse(p, d) PROVE PollInv'
  <2>1. hour \in 0..MaxClock /\ clock + 1 \in 0..MaxClock
    BY <1>4 DEF ProcessHelmResponse, TypeOK, HourInv
  <2>2. TypeOK'
    BY <1>4, <2>1 DEF ProcessHelmResponse, table, TypeOK, Stages
  <2>3. SelectedInv' /\ KnownInv'
    BY <1>4 DEF ProcessHelmResponse, table, TypeOK, SelectedInv, KnownInv
  <2>4. HourInv'
    BY <1>4, <2>1 DEF ProcessHelmResponse, TypeOK, HourInv
  <2>5. QED BY <2>2, <2>3, <2>4
<1>5. ASSUME NEW p \in Poll, NEW d \in Deployment, HelmListFails(p, d) PROVE PollInv'
  <2>1. /\ stage' \in [Poll -> [Deployment -> Stages]]
        /\ seen' \in [Poll -> [Deployment -> RESOURCE_STATUS \cup {"undefined"}]]
    BY <1>5 DEF HelmListFails, Stages
  <2>2. /\ stamp' \in [Poll -> [Deployment -> 0..MaxClock]]
        /\ since' \in [Poll -> [Deployment -> 0..MaxClock]]
    BY <1>5 DEF HelmListFails
  <2>3. TypeOK'
    BY <1>5, <2>1, <2>2 DEF HelmListFails, table, TypeOK
  <2>4. SelectedInv' /\ KnownInv'
    BY <1>5 DEF HelmListFails, SelectedInv, KnownInv
  <2>5. QED BY <1>5, <2>3, <2>4 DEF HelmListFails, HourInv
<1>6. ASSUME NEW p \in Poll, NEW d \in Deployment, Select(p, d) PROVE PollInv'
  <2>1. CASE ~Selected(p, d)
    BY <1>6, <2>1, DoneKeeps DEF Select
  <2>2. CASE Selected(p, d)
    <3>1. stage' = [stage EXCEPT ![p][d] = "update"] /\ UNCHANGED <<table, release, clock, hour, up>>
      BY <1>6, <2>2 DEF Select
    <3>2. UNCHANGED <<seen, stamp, since, overtaken>>
      BY <1>6, <2>2 DEF Select
    <3>3. TypeOK'
      BY <3>1, <3>2 DEF table, TypeOK, Stages
    <3>4. /\ updatedAt[d] < stamp[p][d]
          /\ status[d] = seen[p][d]
      BY <2>2 DEF Selected, IsMoreRecent, TypeOK, HourInv
    <3>5. seen[p][d] # "undefined"
      BY <3>4 DEF TypeOK, RESOURCE_STATUS
    <3>6. ASSUME NEW q \in Poll, NEW e \in Deployment, stage'[q][e] = "update"
          PROVE  stage[q][e] = "update" \/ (q = p /\ e = d)
      BY <3>1, <3>6 DEF TypeOK
    <3>7. SelectedInv' /\ KnownInv'
      BY <3>1, <3>2, <3>4, <3>5, <3>6 DEF table, SelectedInv, KnownInv
    <3>8. QED BY <3>1, <3>2, <3>3, <3>7 DEF HourInv
  <2>3. QED BY <2>1, <2>2
<1>7. ASSUME NEW p \in Poll, NEW d \in Deployment, Update(p, d) PROVE PollInv'
  <2>1. /\ seen[p][d] \in RESOURCE_STATUS
        /\ stamp[p][d] \in 0..MaxClock
    BY <1>7 DEF Update, TypeOK, KnownInv
  <2>2. /\ status' \in [Deployment -> RESOURCE_STATUS \cup {"absent"}]
        /\ updatedAt' \in [Deployment -> 0..MaxClock]
    BY <1>7, <2>1 DEF Update, table, TypeOK
  <2>3. /\ stage' \in [Poll -> [Deployment -> Stages]]
        /\ seen' \in [Poll -> [Deployment -> RESOURCE_STATUS \cup {"undefined"}]]
    BY <1>7 DEF Update, TypeOK, Stages
  <2>4. /\ stamp' \in [Poll -> [Deployment -> 0..MaxClock]]
        /\ since' \in [Poll -> [Deployment -> 0..MaxClock]]
    BY <1>7 DEF Update, TypeOK
  <2>5. overtaken' \in [Poll -> SUBSET Deployment]
    BY ZenonT(60), <1>7 DEF Update, Overtake, TypeOK
  <2>6. UNCHANGED <<release, clock, hour, up>>
    BY <1>7 DEF Update
  <2>7. TypeOK'
    BY <2>2, <2>3, <2>4, <2>5, <2>6 DEF TypeOK
  <2>8. ASSUME NEW q \in Poll, NEW e \in Deployment, stage'[q][e] = "update"
        PROVE  /\ stage[q][e] = "update"
               /\ seen'[q][e] = seen[q][e] /\ stamp'[q][e] = stamp[q][e]
               /\ q # p \/ e # d
    BY <1>7, <2>8 DEF Update, TypeOK
  <2>9. ASSUME NEW q \in Poll, NEW e \in Deployment, stage'[q][e] = "update", e \notin overtaken'[q]
        PROVE  e # d /\ e \notin overtaken[q]
    BY <1>7, <2>8, <2>9 DEF Update, Overtake, TypeOK
  <2>10. \A e \in Deployment : e # d => status'[e] = status[e] /\ updatedAt'[e] = updatedAt[e]
    BY <1>7 DEF Update, table, TypeOK
  <2>11. SelectedInv' /\ KnownInv'
    BY <2>6, <2>8, <2>9, <2>10 DEF SelectedInv, KnownInv
  <2>12. HourInv'
    BY <1>7, <2>6 DEF Update, TypeOK, HourInv
  <2>13. QED BY <2>7, <2>11, <2>12
<1>8. QED
  BY <1>1, <1>2, <1>3, <1>4, <1>5, <1>6, <1>7 DEF Job

-----------------------------------------------------------------------------
\* What others write to a row.
LEMMA StampedKeeps ==
    ASSUME PollInv, NEW d \in Deployment, NEW s \in RESOURCE_STATUS, Stamped(d, s)
    PROVE  PollInv'
<1> USE PollAssumption DEF PollInv
<1>1. /\ status' \in [Deployment -> RESOURCE_STATUS \cup {"absent"}]
      /\ updatedAt' \in [Deployment -> 0..MaxClock]
      /\ clock' \in 0..MaxClock
  BY DEF Stamped, TypeOK
<1>2. overtaken' \in [Poll -> SUBSET Deployment]
  BY DEF Stamped, TypeOK
<1>3. TypeOK'
  BY <1>1, <1>2 DEF Stamped, TypeOK
<1>4. ASSUME NEW q \in Poll, NEW e \in Deployment, stage[q][e] = "update", e \notin overtaken'[q]
      PROVE  e # d /\ e \notin overtaken[q]
  BY <1>4 DEF Stamped, TypeOK
<1>5. \A e \in Deployment : e # d => status'[e] = status[e] /\ updatedAt'[e] = updatedAt[e]
  BY DEF Stamped, TypeOK
<1>6. SelectedInv' /\ KnownInv'
  BY <1>4, <1>5 DEF Stamped, SelectedInv, KnownInv
<1>7. QED
  BY <1>3, <1>6 DEF Stamped, HourInv, TypeOK

\* What happens around the job.
LEMMA AroundKeeps == ASSUME PollInv, Around PROVE PollInv'
<1> USE PollAssumption
<1>1. CASE HourTurns
  BY <1>1 DEF HourTurns, table, poll, PollInv, TypeOK, HourInv, SelectedInv, KnownInv
<1>2. ASSUME NEW d \in Deployment, CreateDeployment(d) \/ TaskEnds(d) PROVE PollInv'
  <2>1. PICK s \in RESOURCE_STATUS : Stamped(d, s)
    BY <1>2 DEF CreateDeployment, TaskEnds, RESOURCE_STATUS
  <2>2. QED BY <2>1, StampedKeeps
<1>3. ASSUME NEW d \in Deployment, DeletePermanently(d) PROVE PollInv'
  BY <1>3 DEF DeletePermanently, poll, PollInv, TypeOK, HourInv, SelectedInv, KnownInv
<1>4. ASSUME NEW d \in Deployment, HelmChanges(d) PROVE PollInv'
  BY <1>4 DEF HelmChanges, table, poll, PollInv, TypeOK, HourInv, SelectedInv, KnownInv
<1>5. QED
  BY <1>1, <1>2, <1>3, <1>4 DEF Around

LEMMA PollHolds == Spec => []PollInv
<1>1. Init => PollInv
  BY InitPoll
<1>2. PollInv /\ UNCHANGED vars => PollInv'
  BY DEF vars, table, poll, PollInv, TypeOK, HourInv, SelectedInv, KnownInv
<1>3. PollInv /\ [Next]_vars => PollInv'
  BY <1>2, JobKeeps, AroundKeeps DEF Next
<1>4. QED
  BY <1>1, <1>3, PTL DEF Spec

-----------------------------------------------------------------------------
\* Rows, timestamps and polls have the values that the code gives them; above
\* all, no poll ever writes a status that deployments do not have.
THEOREM TypeCorrect == Spec => []TypeOK
<1>1. PollInv => TypeOK
  BY DEF PollInv
<1>2. QED
  BY <1>1, PollHolds, PTL

\* A poll that nobody overtakes between its select and its update leaves the
\* status of the deployment as it is.
THEOREM PollsLeaveStatusAlone == Spec => OnlyOvertakenPollsChangeStatus
<1>1. ASSUME PollInv, NEW p \in Poll, NEW d \in Deployment,
             Update(p, d), status'[d] # status[d]
      PROVE  d \in overtaken[p]
  <2>1. status[d] # "absent" /\ status'[d] = seen[p][d]
    BY <1>1 DEF Update, table, PollInv, TypeOK
  <2>2. QED BY <1>1, <2>1 DEF Update, PollInv, SelectedInv
<1>2. PollInv => \A p \in Poll, d \in Deployment :
                    Update(p, d) /\ status'[d] # status[d] => d \in overtaken[p]
  BY <1>1
<1>3. QED
  BY <1>2, PollHolds, PTL DEF OnlyOvertakenPollsChangeStatus

\* A poll that nobody overtakes between its select and its update never sets
\* updated_at back, however old helm's answer was and whenever the hour turns.
THEOREM PollsTurnBackOnlyWhenOvertaken == Spec => OnlyOvertakenPollsTurnBack
<1>1. ASSUME PollInv, NEW p \in Poll, NEW d \in Deployment,
             Update(p, d), updatedAt'[d] < updatedAt[d]
      PROVE  d \in overtaken[p]
  <2>1. updatedAt[d] \in Nat /\ stamp[p][d] \in Nat
    BY <1>1 DEF PollInv, TypeOK
  <2>2. updatedAt'[d] = stamp[p][d]
    BY <1>1, <2>1 DEF Update, table, PollInv, TypeOK
  <2>3. QED BY <1>1, <2>1, <2>2 DEF Update, PollInv, SelectedInv
<1>2. PollInv => \A p \in Poll, d \in Deployment :
                    Update(p, d) /\ updatedAt'[d] < updatedAt[d] => d \in overtaken[p]
  BY <1>1
<1>3. QED
  BY <1>2, PollHolds, PTL DEF OnlyOvertakenPollsTurnBack

=============================================================================

------------------------ MODULE DeploymentStatusPoll ------------------------
(***************************************************************************)
(* The job that asks helm, at boot and then every five minutes, for the    *)
(* release of every deployment (undeployed ones too) and compares it with  *)
(* deployment.status.  The deployments of one poll are looked at side by   *)
(* side, each in steps with an await between them: helm reads the          *)
(* releases, its answer is stamped and the row selected, the row is        *)
(* updated.  The task processor writes the same row meanwhile, and the     *)
(* scheduler does not wait for a slow poll.                                *)
(***************************************************************************)
EXTENDS Enumerations, Naturals

CONSTANTS
    Deployment,   \* the ids the deployment table may come to hold
    Poll,         \* polls that may be in progress at once
    HelmStatus,   \* the statuses of a release that helm may report
    MaxClock      \* bound on the clock, which counts the timestamps taken

ASSUME PollAssumption == MaxClock \in Nat

VARIABLES
    status,     \* deployment.status, or "absent" when there is no row
    updatedAt,  \* deployment.updated_at
    release,    \* what helm says of the release of the deployment
    clock,      \* the latest timestamp taken
    hour,       \* the first timestamp of the current hour
    up,         \* the process is running
    stage,      \* poll -> deployment -> how far it is
    seen,       \* poll -> deployment -> the translated helm status
    stamp,      \* poll -> deployment -> when the answer was taken up
    since,      \* poll -> deployment -> the first timestamp of that hour
    overtaken   \* poll -> deployments written by others since it selected them

table == <<status, updatedAt>>
poll == <<stage, seen, stamp, since, overtaken>>
vars == <<table, release, clock, hour, up, poll>>

\* translateStatus: helm's status as a deployment status; no such release
\* means deleted, and what it does not know matches nothing.
Translate(helm) ==
    CASE helm \in {"none", "uninstalled", "uninstalling"} -> "deleted"
      [] helm \in {"deployed", "superseded"} -> "provisioned"
      [] helm \in {"pending-install", "pending-upgrade", "pending-rollback"} -> "provisioned"
      [] helm \in {"failed", "error"} -> "error"
      [] OTHER -> "undefined"

Stages == {"done", "list", "answered", "select", "update"}

TypeOK ==
    /\ status \in [Deployment -> RESOURCE_STATUS \cup {"absent"}]
    /\ updatedAt \in [Deployment -> 0..MaxClock]
    /\ release \in [Deployment -> HelmStatus]
    /\ clock \in 0..MaxClock
    /\ hour \in 0..MaxClock + 1
    /\ up \in BOOLEAN
    /\ stage \in [Poll -> [Deployment -> Stages]]
    /\ seen \in [Poll -> [Deployment -> RESOURCE_STATUS \cup {"undefined"}]]
    /\ stamp \in [Poll -> [Deployment -> 0..MaxClock]]
    /\ since \in [Poll -> [Deployment -> 0..MaxClock]]
    /\ overtaken \in [Poll -> SUBSET Deployment]

NoPolls ==
    /\ stage = [p \in Poll |-> [d \in Deployment |-> "done"]]
    /\ seen = [p \in Poll |-> [d \in Deployment |-> "undefined"]]
    /\ stamp = [p \in Poll |-> [d \in Deployment |-> 0]]
    /\ since = [p \in Poll |-> [d \in Deployment |-> 0]]
    /\ overtaken = [p \in Poll |-> {}]

Init ==
    /\ status = [d \in Deployment |-> "absent"]
    /\ updatedAt = [d \in Deployment |-> 0]
    /\ release \in [Deployment -> HelmStatus]
    /\ clock = 0
    /\ hour = 0
    /\ up = TRUE
    /\ NoPolls

-----------------------------------------------------------------------------
(* The job. *)

\* getAllDeployments, of all clusters and with the deleted ones.
StartPoll(p) ==
    /\ up
    /\ \A d \in Deployment : stage[p][d] = "done"
    /\ stage' = [stage EXCEPT ![p] =
                    [d \in Deployment |-> IF status[d] = "absent" THEN "done" ELSE "list"]]
    /\ UNCHANGED <<table, release, clock, hour, up, seen, stamp, since, overtaken>>

\* runHelmList: what helm reads is on its way until the job takes it up.
HelmList(p, d) ==
    /\ stage[p][d] = "list"
    /\ stage' = [stage EXCEPT ![p][d] = "answered"]
    /\ seen' = [seen EXCEPT ![p][d] = Translate(release[d])]
    /\ UNCHANGED <<table, release, clock, hour, up, stamp, since, overtaken>>

\* processHelmResponse and updateStatus, up to the query: the stamp and the
\* current hour are taken with no await between them.
ProcessHelmResponse(p, d) ==
    /\ stage[p][d] = "answered"
    /\ clock < MaxClock
    /\ clock' = clock + 1
    /\ stage' = [stage EXCEPT ![p][d] = "select"]
    /\ stamp' = [stamp EXCEPT ![p][d] = clock + 1]
    /\ since' = [since EXCEPT ![p][d] = hour]
    /\ UNCHANGED <<table, release, hour, up, seen, overtaken>>

\* helm or the credentials of the cluster are not to be had.  This is outside
\* the try: the poll rejects, nobody handles that, and the process exits.
HelmListFails(p, d) ==
    /\ stage[p][d] = "list"
    /\ up' = FALSE
    /\ stage' = [q \in Poll |-> [e \in Deployment |-> "done"]]
    /\ seen' = [q \in Poll |-> [e \in Deployment |-> "undefined"]]
    /\ stamp' = [q \in Poll |-> [e \in Deployment |-> 0]]
    /\ since' = [q \in Poll |-> [e \in Deployment |-> 0]]
    /\ overtaken' = [q \in Poll |-> {}]
    /\ UNCHANGED <<table, release, clock, hour>>

Done(p, d) ==
    /\ stage' = [stage EXCEPT ![p][d] = "done"]
    /\ seen' = [seen EXCEPT ![p][d] = "undefined"]
    /\ stamp' = [stamp EXCEPT ![p][d] = 0]
    /\ since' = [since EXCEPT ![p][d] = 0]
    /\ overtaken' = [overtaken EXCEPT ![p] = @ \ {d}]

\* Mutant of IsMoreRecent: the hour is asked for when the rows are there.
IsMoreRecentByNow(p, d) == updatedAt[d] < stamp[p][d] \/ updatedAt[d] < hour

\* The row is older than the stamp, or than the hour that the stamp is from.
IsMoreRecent(p, d) == updatedAt[d] < stamp[p][d] \/ updatedAt[d] < since[p][d]

\* Mutant of Selected: a row with another status is selected.
SelectedIfDifferent(p, d) == status[d] \notin {seen[p][d], "absent"} /\ IsMoreRecent(p, d)

\* The two filters of store.deployment.updateStatus.
Selected(p, d) == status[d] = seen[p][d] /\ IsMoreRecent(p, d)

Select(p, d) ==
    /\ stage[p][d] = "select"
    /\ IF Selected(p, d)
       THEN /\ stage' = [stage EXCEPT ![p][d] = "update"]
            /\ UNCHANGED <<seen, stamp, since, overtaken>>
       ELSE Done(p, d)
    /\ UNCHANGED <<table, release, clock, hour, up>>

\* The polls, other than p, that have d selected.
Overtake(p, d) ==
    [q \in Poll |-> IF q # p /\ stage[q][d] = "update" THEN overtaken[q] \cup {d}
                    ELSE overtaken[q]]

\* Mutant of Update: what helm reported is written untranslated.
UpdateUntranslated(p, d) ==
    /\ stage[p][d] = "update"
    /\ status' = [status EXCEPT ![d] = release[d]]
    /\ stage' = [stage EXCEPT ![p][d] = "done"]
    /\ UNCHANGED <<updatedAt, release, clock, hour, up, seen, stamp, since, overtaken>>

\* The update is by id alone.  Its result is a list of rows that is read as a
\* row: the history record is refused for want of a name, and the error is
\* caught in getHelmStatuses, after the fact.
Update(p, d) ==
    /\ stage[p][d] = "update"
    /\ IF status[d] = "absent" THEN UNCHANGED table
       ELSE /\ status' = [status EXCEPT ![d] = seen[p][d]]
            /\ updatedAt' = [updatedAt EXCEPT ![d] = stamp[p][d]]
    /\ stage' = [stage EXCEPT ![p][d] = "done"]
    /\ seen' = [seen EXCEPT ![p][d] = "undefined"]
    /\ stamp' = [stamp EXCEPT ![p][d] = 0]
    /\ since' = [since EXCEPT ![p][d] = 0]
    /\ overtaken' = [Overtake(p, d) EXCEPT ![p] = @ \ {d}]
    /\ UNCHANGED <<release, clock, hour, up>>

Boot ==
    /\ ~up
    /\ up' = TRUE
    /\ UNCHANGED <<table, release, clock, hour, poll>>

-----------------------------------------------------------------------------
(* What happens around it. *)

\* A row is inserted, a task ends on it, or it is deleted permanently; what
\* the processor writes comes with a timestamp of its own.
Stamped(d, s) ==
    /\ clock < MaxClock
    /\ clock' = clock + 1
    /\ status' = [status EXCEPT ![d] = s]
    /\ updatedAt' = [updatedAt EXCEPT ![d] = clock + 1]
    /\ overtaken' = [p \in Poll |-> IF stage[p][d] = "update" THEN overtaken[p] \cup {d}
                                    ELSE overtaken[p]]
    /\ UNCHANGED <<release, hour, up, stage, seen, stamp, since>>

CreateDeployment(d) == status[d] = "absent" /\ updatedAt[d] = 0 /\ Stamped(d, "created")

TaskEnds(d) ==
    /\ status[d] # "absent"
    /\ \E s \in {"provisioned", "error", "deleted"} : Stamped(d, s)

DeletePermanently(d) ==
    /\ status[d] = "deleted"
    /\ status' = [status EXCEPT ![d] = "absent"]
    /\ UNCHANGED <<updatedAt, release, clock, hour, up, poll>>

HelmChanges(d) ==
    /\ \E h \in HelmStatus : release' = [release EXCEPT ![d] = h]
    /\ UNCHANGED <<table, clock, hour, up, poll>>

\* Timestamps taken from now on belong to a new hour.
HourTurns ==
    /\ hour # clock + 1
    /\ hour' = clock + 1
    /\ UNCHANGED <<table, release, clock, up, poll>>

Around ==
    \/ HourTurns
    \/ \E d \in Deployment :
          CreateDeployment(d) \/ TaskEnds(d) \/ DeletePermanently(d) \/ HelmChanges(d)

Job ==
    \/ Boot
    \/ \E p \in Poll :
          \/ StartPoll(p)
          \/ \E d \in Deployment :
                HelmList(p, d) \/ HelmListFails(p, d) \/ ProcessHelmResponse(p, d)
                \/ Select(p, d) \/ Update(p, d)

Next == Job \/ Around

Spec == Init /\ [][Next]_vars

-----------------------------------------------------------------------------
\* A poll changes the status of a deployment only when somebody else wrote the
\* row between the poll's select and its update: the one way for this job to
\* undo what a task has just recorded.
OnlyOvertakenPollsChangeStatus ==
    [][\A p \in Poll, d \in Deployment :
          Update(p, d) /\ status'[d] # status[d] => d \in overtaken[p]]_vars

\* Likewise, a poll sets updated_at back in time only then: a row that somebody
\* wrote after the answer was stamped is not selected, although the answer is
\* older still and the hour may turn at any time.
OnlyOvertakenPollsTurnBack ==
    [][\A p \in Poll, d \in Deployment :
          Update(p, d) /\ updatedAt'[d] < updatedAt[d] => d \in overtaken[p]]_vars

\* "check to see if the deployment status needs to be updated, if it does -
\* update it in the DB", and that is "if the status is more recent AND new".
NewStatusIsWritten ==
    [][\A p \in Poll, d \in Deployment :
          /\ Select(p, d)
          /\ seen[p][d] # "undefined"
          /\ status[d] \notin {seen[p][d], "absent"}
          /\ updatedAt[d] < stamp[p][d]
          => stage'[p][d] = "update"]_vars

=============================================================================

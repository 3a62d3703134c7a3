------------------------- MODULE ClusterStatusTracker -------------------------
(***************************************************************************)
(* The job that asks every cluster for its namespaces, at boot and then    *)
(* every ten minutes, and moves cluster.status between "provisioned" and   *)
(* "error" accordingly.  A run works through the list it loaded when it    *)
(* began; the scheduler does not wait for it, so runs may overlap, and the *)
(* task processor and the controllers write the same column meanwhile.     *)
(*                                                                         *)
(* No caller waits for a run: when it rejects, the process exits (an       *)
(* unhandled rejection) and the platform starts it again.  A run rejects   *)
(* over a cluster that was erased since it was listed, and over one that   *)
(* has no credentials: the form of a local cluster does not require them.  *)
(***************************************************************************)
EXTENDS Enumerations, Naturals

CONSTANTS
    Cluster,     \* the ids the cluster table may come to hold
    Run,         \* runs of the job that may be in progress at once
    NoCluster,   \* "not pinging"
    MaxChanges   \* bound on what happens around the job

ASSUME ClusterAssumption ==
    /\ NoCluster \notin Cluster
    /\ MaxChanges \in Nat

VARIABLES
    status,     \* cluster.status, or "absent" when there is no row
    keyed,      \* clusters with credentials: a row of its own name, or pointers
                \* to a token and a ca in desired_state
    applied,    \* clusters whose applied_state has such pointers
    reachable,  \* the clusters whose API server answers
    up,         \* the process is running
    todo,       \* run -> the listed clusters it has not pinged, with their status
    pointed,    \* run -> those of them that were listed with credentials
    pinging,    \* run -> the cluster it is pinging
    was,        \* run -> the status that cluster had when it was listed
    verdict,    \* run -> "ask", then the status to write
    changes,    \* how much has happened around the job
    erased,     \* clusters deleted permanently
    lacked,     \* clusters that at some time had no credentials
    unlisted    \* run -> clusters that were deleted when it began

run == <<todo, pointed, pinging, was, verdict>>
secrets == <<keyed, applied, lacked>>
vars == <<status, secrets, reachable, up, run, changes, erased, unlisted>>

Listed == [Cluster -> RESOURCE_STATUS \cup {"absent"}]
Nothing == [c \in Cluster |-> "absent"]
Idle(r) == todo[r] = Nothing /\ pinging[r] = NoCluster

TypeOK ==
    /\ status \in Listed
    /\ keyed \subseteq Cluster /\ applied \subseteq Cluster /\ lacked \subseteq Cluster
    /\ reachable \subseteq Cluster
    /\ up \in BOOLEAN
    /\ todo \in [Run -> Listed]
    /\ pointed \in [Run -> SUBSET Cluster]
    /\ pinging \in [Run -> Cluster \cup {NoCluster}]
    /\ was \in [Run -> RESOURCE_STATUS \cup {"absent"}]
    /\ verdict \in [Run -> {"ask", "provisioned", "error"}]
    /\ changes \in 0..MaxChanges
    /\ erased \subseteq Cluster
    /\ unlisted \in [Run -> SUBSET Cluster]

NoRuns ==
    /\ todo = [r \in Run |-> Nothing]
    /\ pointed = [r \in Run |-> {}]
    /\ pinging = [r \in Run |-> NoCluster]
    /\ was = [r \in Run |-> "absent"]
    /\ verdict = [r \in Run |-> "ask"]

Init ==
    /\ status = Nothing
    /\ keyed = {} /\ applied = {} /\ lacked = {}
    /\ reachable \in SUBSET Cluster
    /\ up = TRUE
    /\ NoRuns
    /\ changes = 0
    /\ erased = {}
    /\ unlisted = [r \in Run |-> {}]

-----------------------------------------------------------------------------
(* The job. *)

\* Mutant of Snapshot: deleted clusters are listed too.
SnapshotAll == status

\* getAllClusters: store.cluster.list({ deleted: false })
Snapshot == [c \in Cluster |-> IF status[c] = "deleted" THEN "absent" ELSE status[c]]

StartRun(r) ==
    /\ up
    /\ Idle(r)
    /\ todo' = [todo EXCEPT ![r] = Snapshot]
    /\ pointed' = [pointed EXCEPT ![r] = {c \in keyed : Snapshot[c] # "absent"}]
    /\ unlisted' = [unlisted EXCEPT ![r] = {c \in Cluster : status[c] = "deleted"}]
    /\ UNCHANGED <<status, secrets, reachable, up, pinging, was, verdict, changes, erased>>

Exit ==
    /\ up' = FALSE
    /\ todo' = [r \in Run |-> Nothing]
    /\ pointed' = [r \in Run |-> {}]
    /\ pinging' = [r \in Run |-> NoCluster]
    /\ was' = [r \in Run |-> "absent"]
    /\ verdict' = [r \in Run |-> "ask"]

\* What getKubectlForCluster returns a client for.  It goes by the pointers in
\* the list; the rows that they point at are erased with the cluster only.
HasCredentials(r, c) == c \in pointed[r] /\ status[c] # "absent"

\* ping(c), up to the request to the cluster.
Ping(r, c) ==
    /\ up
    /\ pinging[r] = NoCluster
    /\ todo[r][c] # "absent"
    /\ HasCredentials(r, c)
    /\ todo' = [todo EXCEPT ![r][c] = "absent"]
    /\ pointed' = [pointed EXCEPT ![r] = @ \ {c}]
    /\ pinging' = [pinging EXCEPT ![r] = c]
    /\ was' = [was EXCEPT ![r] = todo[r][c]]
    /\ UNCHANGED <<status, secrets, reachable, up, verdict, changes, erased, unlisted>>

\* Without an id clustersecret.get throws, without a row getKubectlForCluster
\* does ("Missing token or ca secret"): before the try in both cases.
PingFails(r, c) ==
    /\ up
    /\ pinging[r] = NoCluster
    /\ todo[r][c] # "absent"
    /\ ~HasCredentials(r, c)
    /\ Exit
    /\ UNCHANGED <<status, secrets, reachable, changes, erased, unlisted>>

EndPing(r) ==
    /\ pinging' = [pinging EXCEPT ![r] = NoCluster]
    /\ was' = [was EXCEPT ![r] = "absent"]
    /\ verdict' = [verdict EXCEPT ![r] = "ask"]

\* Mutant of Answer: a cluster in error is not set right again.
AnswerOnce(r) ==
    LET c == pinging[r] IN
    /\ c # NoCluster
    /\ verdict[r] = "ask"
    /\ IF c \notin reachable /\ was[r] # "error"
       THEN /\ verdict' = [verdict EXCEPT ![r] = "error"]
            /\ UNCHANGED <<pinging, was>>
       ELSE EndPing(r)
    /\ UNCHANGED <<status, secrets, reachable, up, todo, pointed, changes, erased, unlisted>>

\* Mutant of Answer: a cluster that does not answer is written back as listed.
AnswerWithListed(r) ==
    /\ pinging[r] # NoCluster
    /\ verdict[r] = "ask"
    /\ verdict' = [verdict EXCEPT ![r] = was[r]]
    /\ UNCHANGED <<status, secrets, reachable, up, todo, pointed, pinging, was, changes,
                   erased, unlisted>>

\* getNamespaces resolves or rejects; what to write depends on the status in
\* the list, not on the one the cluster has by now.
Answer(r) ==
    LET c == pinging[r] IN
    /\ c # NoCluster
    /\ verdict[r] = "ask"
    /\ IF c \in reachable /\ was[r] = "error"
       THEN /\ verdict' = [verdict EXCEPT ![r] = "provisioned"]
            /\ UNCHANGED <<pinging, was>>
       ELSE IF c \notin reachable /\ was[r] # "error"
       THEN /\ verdict' = [verdict EXCEPT ![r] = "error"]
            /\ UNCHANGED <<pinging, was>>
       ELSE EndPing(r)
    /\ UNCHANGED <<status, secrets, reachable, up, todo, pointed, changes, erased, unlisted>>

\* updateClusterStatus
Write(r) ==
    LET c == pinging[r] IN
    /\ c # NoCluster
    /\ verdict[r] # "ask"
    /\ status[c] # "absent"
    /\ status' = [status EXCEPT ![c] = verdict[r]]
    /\ EndPing(r)
    /\ UNCHANGED <<secrets, reachable, up, todo, pointed, changes, erased, unlisted>>

\* Mutant of WriteNothing: "provisioned" too is written outside the try.
WriteNothingAndExit(r) ==
    /\ pinging[r] # NoCluster
    /\ verdict[r] # "ask"
    /\ status[pinging[r]] = "absent"
    /\ Exit
    /\ UNCHANGED <<status, secrets, reachable, changes, erased, unlisted>>

\* The row is gone, and reading the name of the updated cluster throws.  The
\* write of "provisioned" is in the try, where the catch finds the status
\* "error" in the list and does nothing; the write of "error" is in the catch.
WriteNothing(r) ==
    /\ pinging[r] # NoCluster
    /\ verdict[r] # "ask"
    /\ status[pinging[r]] = "absent"
    /\ \/ verdict[r] = "provisioned" /\ EndPing(r) /\ UNCHANGED <<up, todo, pointed>>
       \/ verdict[r] = "error" /\ Exit
    /\ UNCHANGED <<status, secrets, reachable, changes, erased, unlisted>>

Boot ==
    /\ ~up
    /\ up' = TRUE
    /\ UNCHANGED <<status, secrets, reachable, run, changes, erased, unlisted>>

-----------------------------------------------------------------------------
(* What happens around it. *)

Change == changes < MaxChanges /\ changes' = changes + 1

\* c is left with or without credentials.
Holding(c, credentials) ==
    /\ keyed' = IF credentials THEN keyed \cup {c} ELSE keyed \ {c}
    /\ lacked' = IF credentials THEN lacked ELSE lacked \cup {c}

\* controller.cluster.create, with or without credentials in the form.
CreateCluster(c) ==
    /\ Change
    /\ status[c] = "absent" /\ c \notin erased
    /\ status' = [status EXCEPT ![c] = "created"]
    /\ \E given \in BOOLEAN : Holding(c, given)
    /\ UNCHANGED <<applied, reachable, up, run, erased, unlisted>>

\* controller.cluster.update of desired_state: what the form leaves out is what
\* applied_state points at, which may be nothing.
EditCluster(c) ==
    /\ Change
    /\ status[c] # "absent"
    /\ \E given \in BOOLEAN : Holding(c, given \/ c \in applied)
    /\ UNCHANGED <<status, applied, reachable, up, run, erased, unlisted>>

\* A cluster task fails, or ends: one that provisions has the pointers applied.
TaskEnds(c) ==
    /\ Change
    /\ status[c] # "absent"
    /\ \/ \E s \in {"error", "deleted"} : status' = [status EXCEPT ![c] = s] /\ UNCHANGED applied
       \/ /\ status' = [status EXCEPT ![c] = "provisioned"]
          /\ applied' = IF c \in keyed THEN applied \cup {c} ELSE applied \ {c}
    /\ UNCHANGED <<keyed, lacked, reachable, up, run, erased, unlisted>>

\* controller.cluster.deletePermanently
DeletePermanently(c) ==
    /\ Change
    /\ status[c] = "deleted"
    /\ status' = [status EXCEPT ![c] = "absent"]
    /\ erased' = erased \cup {c}
    /\ keyed' = keyed \ {c} /\ applied' = applied \ {c}
    /\ UNCHANGED <<lacked, reachable, up, run, unlisted>>

\* The API server goes away or comes back.
Flip(c) ==
    /\ Change
    /\ reachable' = IF c \in reachable THEN reachable \ {c} ELSE reachable \cup {c}
    /\ UNCHANGED <<status, secrets, up, run, erased, unlisted>>

\* The process dies for a reason of its own.
Crash ==
    /\ Change
    /\ up
    /\ Exit
    /\ UNCHANGED <<status, secrets, reachable, erased, unlisted>>

Around ==
    \/ \E c \in Cluster : CreateCluster(c) \/ EditCluster(c) \/ TaskEnds(c)
                            \/ DeletePermanently(c) \/ Flip(c)
    \/ Crash

Advance(r) ==
    \/ \E c \in Cluster : Ping(r, c) \/ PingFails(r, c)
    \/ Answer(r) \/ Write(r) \/ WriteNothing(r)

Job == Boot \/ \E r \in Run : StartRun(r) \/ Advance(r)

Next == Job \/ Around

Spec == Init /\ [][Next]_vars

\* The scheduler starts runs for as long as the process lives, every run makes
\* progress, and the platform restarts the process.
FairSpec ==
    /\ Spec
    /\ WF_vars(Boot)
    /\ \A r \in Run : WF_vars(StartRun(r)) /\ WF_vars(Advance(r))

-----------------------------------------------------------------------------
\* A run never writes to a cluster that was deleted when the run began, even
\* if the list is stale by the time it is used.
DeletedIsLeftAlone ==
    [][\A r \in Run, c \in Cluster :
          Write(r) /\ pinging[r] = c => c \notin unlisted[r]]_vars

\* The job takes the process down only over a cluster in its list that has been
\* deleted permanently, or has been without credentials at some time; a cluster
\* that does not answer is not enough, and neither is losing the race with a
\* permanent delete after having found the cluster back again.
ExitOnlyOverMissingRows ==
    [][up /\ ~up' /\ ~Crash =>
          \E r \in Run :
             \/ \E c \in erased \cup lacked : todo[r][c] # "absent"
             \/ pinging[r] \in erased /\ was[r] # "error"]_vars

\* The job lists c, and finds no credentials for it: no run gets past it.
EndsEveryRun(c) == status[c] \notin {"absent", "deleted"} /\ c \notin keyed

\* Once the clusters stop changing and none is left without credentials, the
\* status of those that are neither new nor deleted comes to tell whether they
\* answer, and goes on doing so, whatever took the process down before.
StatusSettles ==
    <>[](\A c \in Cluster : ~EndsEveryRun(c)) =>
        \A c \in Cluster :
            <>[](status[c] \in {"provisioned", "error"} =>
                    (status[c] = "provisioned" <=> c \in reachable))

=============================================================================

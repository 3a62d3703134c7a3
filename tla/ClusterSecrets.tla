--------------------------- MODULE ClusterSecrets ---------------------------
(***************************************************************************)
(* Where the credentials of a cluster are kept.  A cluster of type remote  *)
(* or local points at the rows of its token and its ca by ids in its       *)
(* desired_state; a cluster of type user has one row that is found by its  *)
(* name.  Edits ask whether the cluster is busy, read it, and write later, *)
(* without a lock; the task that an edit inserts connects to the cluster   *)
(* and then copies desired_state to applied_state.                         *)
(***************************************************************************)
EXTENDS ClusterForms, Naturals, Sequences

CONSTANTS
    Cluster, NoCluster,
    Editor,                  \* edits that may be in progress at once
    AddForm, EditForm,       \* the forms that are sent
    MaxSecrets,
    MaxCalls                 \* edits, and requests of other modules, in all

ASSUME SecretsAssumption ==
    /\ NoCluster \notin Cluster
    /\ AddForm \subseteq Form /\ EditForm \subseteq Form
    /\ \A f \in AddForm \cup EditForm : WellFormed(f)
    /\ MaxSecrets \in Nat /\ MaxCalls \in Nat

VARIABLES
    cluster,     \* provision_type, desired_state, applied_state
    secret,      \* the rows of clustersecret; the id of a row is its index
    tasks,       \* active tasks of a cluster: its create and update tasks
    worker,      \* what the task processor has in hand
    edit,        \* editor -> the edit and how far it is
    calls,       \* how many calls there have been: an edit carries its number
    asked,       \* the credentials as the edits that succeeded asked for them
    excused,     \* an edit wrote over another one, or failed after it had
                 \* changed the credentials
    failed       \* cluster, secret: a task failed that would have applied it, and
                 \* no later edit gives it

clusterVars == <<cluster, secret, tasks, worker, edit, calls, asked, excused, failed>>

\* No id is 0.
DesiredState == [apiServer : BOOLEAN, token_id : 0..MaxSecrets, ca_id : 0..MaxSecrets]
NoState == [apiServer |-> FALSE, token_id |-> 0, ca_id |-> 0]

\* The two halves of a kubernetes configuration: the numbers of the edits they
\* are from.
Credentials == [cluster : 0..MaxCalls, user : 0..MaxCalls]
NoCredentials == [cluster |-> 0, user |-> 0]

Row == [cluster : Cluster, name : {"token", "ca", "credentials"}, data : Credentials]

NoForm == [provision_type |-> "none", gives |-> {}]
NoEdit == [at |-> "none", cluster |-> NoCluster, form |-> NoForm, number |-> 0,
           applied |-> NoState, credentials |-> NoCredentials, overtaken |-> FALSE]
Edit == [at : {"none", "checked", "written"},
         cluster : Cluster \cup {NoCluster},
         form : EditForm \cup {NoForm},
         number : 0..MaxCalls,
         applied : DesiredState,           \* cluster.applied_state, as read
         credentials : Credentials,        \* as read
         overtaken : BOOLEAN]              \* another edit has written since

IdleWorker == [at |-> "idle", cluster |-> NoCluster, desired |-> NoState]

SecretsTypeOK ==
    /\ cluster \in [Cluster -> [type : {"none", "remote", "local", "user"},
                                desired : DesiredState, applied : DesiredState]]
    /\ secret \in Seq(Row) /\ Len(secret) <= MaxSecrets
    /\ tasks \in [Cluster -> 0..MaxCalls + 1]
    /\ worker \in [at : {"idle", "taken", "connected"}, cluster : Cluster \cup {NoCluster},
                   desired : DesiredState]
    /\ edit \in [Editor -> Edit]
    /\ calls \in 0..MaxCalls
    /\ asked \in [Cluster -> Credentials]
    /\ excused \in BOOLEAN
    /\ failed \subseteq Cluster \X {"token", "ca"}

SecretsInit ==
    /\ cluster = [c \in Cluster |-> [type |-> "none", desired |-> NoState, applied |-> NoState]]
    /\ secret = <<>>
    /\ tasks = [c \in Cluster |-> 0]
    /\ worker = IdleWorker
    /\ edit = [e \in Editor |-> NoEdit]
    /\ calls = 0
    /\ asked = [c \in Cluster |-> NoCredentials]
    /\ excused = FALSE
    /\ failed = {}

-----------------------------------------------------------------------------
(* store/clusterfile.ts *)

NewRow(c, name, data) == [cluster |-> c, name |-> name, data |-> data]

\* get by id: the row has to be one of the cluster.
HasSecret(c, id) == id \in DOMAIN secret /\ secret[id].cluster = c

RowsOf(c, name) == {i \in DOMAIN secret : secret[i].cluster = c /\ secret[i].name = name}

\* get by name: first, of at most one row.
CredentialsRows(c) == RowsOf(c, "credentials")
CredentialsOf(c) ==
    IF CredentialsRows(c) = {} THEN NoCredentials
    ELSE secret[CHOOSE i \in CredentialsRows(c) : TRUE].data

-----------------------------------------------------------------------------
(* controller/cluster.ts *)

\* The secrets of the form, token first: desired_state never holds them.
ExtractClusterSecrets(c, form) ==
    LET Given(name) == IF name \in form.gives THEN <<NewRow(c, name, NoCredentials)>> ELSE <<>> IN
    Given("token") \o Given("ca")

\* Mutant of Pointer: the first row inserted counts as the token, the last as
\* the ca.
PointerInOrder(form, name, rows, before, applied) ==
    IF form.gives \cap {"token", "ca"} = {} THEN applied
    ELSE before + IF name = "token" THEN 1 ELSE Len(rows)

\* The id of the row just inserted, else the one that the cluster works with.
Pointer(form, name, rows, before, applied) ==
    IF name \in form.gives
    THEN before + (CHOOSE i \in DOMAIN rows : rows[i].name = name)
    ELSE applied

CreateClusterSecrets(form, rows, applied) ==
    [apiServer |-> "apiServer" \in form.gives,
     token_id |-> Pointer(form, "token", rows, Len(secret), applied.token_id),
     ca_id |-> Pointer(form, "ca", rows, Len(secret), applied.ca_id)]

\* One transaction: the cluster, its secrets and the task.
Create(c, form) ==
    /\ cluster[c].type = "none"
    /\ Reaches(form, "add") = "service"
    /\ Valid(form, form.provision_type, "add")
    /\ LET rows == ExtractClusterSecrets(c, form) IN
        /\ Len(secret) + Len(rows) <= MaxSecrets
        /\ secret' = secret \o rows
        /\ cluster' = [cluster EXCEPT ![c].type = form.provision_type,
                                      ![c].desired = CreateClusterSecrets(form, rows, NoState)]
    /\ tasks' = [tasks EXCEPT ![c] = @ + 1]
    /\ UNCHANGED <<worker, edit, calls, asked, excused, failed>>

CreateUserPT(c, form) ==
    /\ cluster[c].type = "none"
    /\ Reaches(form, "add") = "user"
    /\ Len(secret) < MaxSecrets
    /\ secret' = Append(secret, NewRow(c, "credentials", NoCredentials))
    /\ cluster' = [cluster EXCEPT ![c].type = "user"]
    /\ tasks' = [tasks EXCEPT ![c] = @ + 1]
    /\ UNCHANGED <<worker, edit, calls, asked, excused, failed>>

\* The reads of update and of updateUserPT.  A form for another kind of cluster
\* gets this far; update then finds no server form for a cluster of type user.
CheckEdit(e, c, form) ==
    /\ edit[e] = NoEdit
    /\ calls < MaxCalls
    /\ cluster[c].type # "none"
    /\ tasks[c] = 0
    /\ Reaches(form, "edit") # "refused"
    /\ Reaches(form, "edit") = "service" => Valid(form, cluster[c].type, "edit")
    /\ calls' = calls + 1
    /\ edit' = [edit EXCEPT ![e] =
                   [at |-> "checked", cluster |-> c, form |-> form, number |-> calls + 1,
                    applied |-> cluster[c].applied, credentials |-> CredentialsOf(c),
                    overtaken |-> FALSE]]
    /\ UNCHANGED <<cluster, secret, tasks, worker, asked, excused, failed>>

\* Once e has written, another edit of the cluster goes by what it read before.
Overtaking(e, after) ==
    [f \in Editor |->
        IF f = e THEN after
        ELSE IF edit[f].cluster = edit[e].cluster THEN [edit[f] EXCEPT !.overtaken = TRUE]
        ELSE edit[f]]

\* The secrets, the cluster and the task, in one transaction.
Update(e) ==
    LET me == edit[e]
        rows == ExtractClusterSecrets(me.cluster, me.form)
    IN
    /\ me.at = "checked"
    /\ Reaches(me.form, "edit") = "service"
    /\ Len(secret) + Len(rows) <= MaxSecrets
    /\ secret' = secret \o rows
    /\ cluster' = IF "desired_state" \in me.form.gives
                  THEN [cluster EXCEPT ![me.cluster].desired =
                            CreateClusterSecrets(me.form, rows, me.applied)]
                  ELSE cluster
    /\ tasks' = [tasks EXCEPT ![me.cluster] = @ + 1]
    /\ edit' = Overtaking(e, NoEdit)
    /\ excused' = (excused \/ me.overtaken)
    /\ failed' = failed \ {<<me.cluster, name>> : name \in me.form.gives}
    /\ UNCHANGED <<worker, calls, asked>>

NewCreds(form, number, partial) ==
    [cluster |-> IF "cluster" \in form.gives THEN number ELSE partial.cluster,
     user |-> IF "user" \in form.gives THEN number ELSE partial.user]

\* clustersecret.update is not given the transaction.
WriteCredentials(e) ==
    LET me == edit[e]
        rows == CredentialsRows(me.cluster)
    IN
    /\ me.at = "checked"
    /\ Reaches(me.form, "edit") = "user"
    /\ secret' = [i \in DOMAIN secret |->
                     IF i \in rows
                     THEN [secret[i] EXCEPT !.data = NewCreds(me.form, me.number, me.credentials)]
                     ELSE secret[i]]
    /\ edit' = IF rows = {} THEN [edit EXCEPT ![e].at = "written"]
               ELSE Overtaking(e, [me EXCEPT !.at = "written"])
    /\ excused' = (excused \/ (rows # {} /\ me.overtaken))
    /\ UNCHANGED <<cluster, tasks, worker, calls, asked, failed>>

\* The name and the task; a form without the cluster's half has no name to read.
UpdateUserPT(e) ==
    LET me == edit[e] IN
    /\ me.at = "written"
    /\ "cluster" \in me.form.gives
    /\ tasks' = [tasks EXCEPT ![me.cluster] = @ + 1]
    /\ asked' = IF cluster[me.cluster].type = "user"
                THEN [asked EXCEPT ![me.cluster] =
                         [cluster |-> me.number,
                          user |-> IF "user" \in me.form.gives THEN me.number ELSE @.user]]
                ELSE asked
    /\ edit' = Overtaking(e, NoEdit)
    /\ excused' = (excused \/ me.overtaken)
    /\ UNCHANGED <<cluster, secret, worker, calls, failed>>

\* An error rolls the transaction back, and not the credentials.
EditFails(e) ==
    /\ edit[e] # NoEdit
    /\ excused' = (excused \/ (edit[e].at = "written" /\ CredentialsRows(edit[e].cluster) # {}))
    /\ edit' = [edit EXCEPT ![e] = NoEdit]
    /\ UNCHANGED <<cluster, secret, tasks, worker, calls, asked, failed>>

-----------------------------------------------------------------------------
(* utils/kubectl.ts, tasks/cluster *)

\* The row of the credentials first, then the pointers of the cluster as it was
\* read.
GetKubectlForCluster(c, desired) ==
    \/ CredentialsRows(c) # {}
    \/ HasSecret(c, desired.token_id) /\ HasSecret(c, desired.ca_id)

\* A request to the cluster may go out; whether it is answered is the cluster's.
Reachable(c, desired) ==
    /\ GetKubectlForCluster(c, desired)
    /\ CredentialsRows(c) = {} => desired.apiServer

TakeTask(c) ==
    /\ worker = IdleWorker
    /\ tasks[c] > 0
    /\ worker' = [at |-> "taken", cluster |-> c, desired |-> cluster[c].desired]
    /\ UNCHANGED <<cluster, secret, tasks, edit, calls, asked, excused, failed>>

\* getNamespaces: the cluster answers.
Connect ==
    /\ worker.at = "taken"
    /\ Reachable(worker.cluster, worker.desired)
    /\ worker' = [worker EXCEPT !.at = "connected"]
    /\ UNCHANGED <<cluster, secret, tasks, edit, calls, asked, excused, failed>>

\* Mutant of Released: a task that failed is in hand still.
StillInHand == worker

Released == IdleWorker

PointerTo(state, name) == IF name = "token" THEN state.token_id ELSE state.ca_id

\* The secrets of c that are not applied.
Unapplied(c) ==
    {name \in {"token", "ca"} :
        PointerTo(cluster[c].desired, name) # PointerTo(cluster[c].applied, name)}

TaskFails ==
    /\ worker.at = "taken"
    /\ tasks' = [tasks EXCEPT ![worker.cluster] = @ - 1]
    /\ worker' = Released
    /\ failed' = failed \cup ({worker.cluster} \X Unapplied(worker.cluster))
    /\ UNCHANGED <<cluster, secret, edit, calls, asked, excused>>

\* desired_state is read again.
SaveAppliedState ==
    /\ worker.at = "connected"
    /\ cluster' = [cluster EXCEPT ![worker.cluster].applied = cluster[worker.cluster].desired]
    /\ tasks' = [tasks EXCEPT ![worker.cluster] = @ - 1]
    /\ worker' = IdleWorker
    /\ UNCHANGED <<secret, edit, calls, asked, excused, failed>>

SecretsNext ==
    \/ \E c \in Cluster, form \in AddForm : Create(c, form) \/ CreateUserPT(c, form)
    \/ \E e \in Editor, c \in Cluster, form \in EditForm : CheckEdit(e, c, form)
    \/ \E e \in Editor : Update(e) \/ WriteCredentials(e) \/ UpdateUserPT(e) \/ EditFails(e)
    \/ \E c \in Cluster : TakeTask(c)
    \/ Connect \/ TaskFails \/ SaveAppliedState

-----------------------------------------------------------------------------
(***************************************************************************)
(* An edit changes what it gives and keeps the rest.  The token and the ca *)
(* that a cluster points at are the newest rows of that name that it has,  *)
(* so those of the last edit that gave one, whatever later forms left out. *)
(* The exception is a secret whose task failed: createClusterSecrets falls *)
(* back to the applied state, so that the next edit without it returns to  *)
(* the one in use and drops the newer one.  The credentials of a cluster   *)
(* of type user are, half by half, from the last edit that gave that half. *)
(* Excepted for good are edits of the same cluster at the same time, and   *)
(* those that fail after clustersecret.update: nothing in                  *)
(* controller/cluster.ts orders the ones or undoes the others.             *)
(***************************************************************************)
IsNewest(c, name, id) ==
    /\ id = 0 \/ id \in RowsOf(c, name)
    /\ \A i \in RowsOf(c, name) : i <= id

EditsKeepTheRest ==
    ~excused =>
        \A c \in Cluster :
            /\ \A name \in {"token", "ca"} :
                  LET desired == PointerTo(cluster[c].desired, name)
                      applied == PointerTo(cluster[c].applied, name)
                  IN
                  /\ applied = 0 \/ applied \in RowsOf(c, name)
                  /\ \/ IsNewest(c, name, desired)
                     \/ <<c, name>> \in failed /\ desired = applied
            /\ cluster[c].applied.token_id # 0 => cluster[c].desired.ca_id # 0
            /\ (\A e \in Editor : edit[e].at # "written") => CredentialsOf(c) = asked[c]

=============================================================================

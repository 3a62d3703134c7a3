--------------------------- MODULE ConnectionsProofs ---------------------------
(***************************************************************************)
(* Proofs about the credentials of clusters, for every set of clusters,    *)
(* editors, forms and requests, and any number of calls and restarts.      *)
(***************************************************************************)
EXTENDS Connections, FiniteSetTheorems, TLAPS

\* Types without the bounds of the instances.
Numbers == [cluster : Nat, user : Nat]
Pointers == [apiServer : BOOLEAN, token_id : Nat, ca_id : Nat]
Stored == [cluster : Cluster, name : {"token", "ca", "credentials"}, data : Numbers]
Record == [type : {"none", "remote", "local", "user"}, desired : Pointers, applied : Pointers]
InHand == [at : {"idle", "taken", "connected"}, cluster : Cluster \cup {NoCluster},
           desired : Pointers]
Editing == [at : {"none", "checked", "written"}, cluster : Cluster \cup {NoCluster},
            form : Form \cup {NoForm}, number : Nat, applied : Pointers,
            credentials : Numbers, overtaken : BOOLEAN]

KindInv ==
    /\ cluster \in [Cluster -> Record]
    /\ secret \in Seq(Stored)
    /\ tasks \in [Cluster -> Nat]
    /\ worker \in InHand
    /\ edit \in [Editor -> Editing]
    /\ calls \in Nat
    /\ asked \in [Cluster -> Numbers]
    /\ excused \in BOOLEAN

\* Edits and tasks are of clusters that are there, and credentials by name are
\* of clusters of type user, one row for each.
Placed(e) ==
    IF edit[e].at = "none" THEN edit[e].cluster = NoCluster
    ELSE /\ edit[e].cluster \in Cluster
         /\ cluster[edit[e].cluster].type # "none"
         /\ Reaches(edit[e].form, "edit") = "service" => cluster[edit[e].cluster].type # "user"

OwnersInv ==
    /\ \A e \in Editor : Placed(e)
    /\ worker.at # "idle" => worker.cluster \in Cluster /\ tasks[worker.cluster] > 0
    /\ \A c \in Cluster :
          /\ cluster[c].type = "none" => tasks[c] = 0
          /\ cluster[c].type \in {"none", "user"} =>
                cluster[c].desired = NoState /\ cluster[c].applied = NoState
          /\ cluster[c].type # "user" => asked[c] = NoCredentials
          /\ CredentialsRows(c) # {} <=> cluster[c].type = "user"
          /\ \A i, j \in CredentialsRows(c) : i = j

HasBoth(c, state) == HasSecret(c, state.token_id) /\ HasSecret(c, state.ca_id)

\* The pointers: an edit that nobody overtakes still knows what was applied,
\* and no task of its cluster is about; a task has the desired state in hand.
PointersInv ==
    /\ \A c \in Cluster : cluster[c].applied.token_id # 0 =>
          HasBoth(c, cluster[c].applied) /\ HasBoth(c, cluster[c].desired)
    /\ \A e \in Editor : edit[e].at = "checked" /\ ~edit[e].overtaken =>
          /\ tasks[edit[e].cluster] = 0
          /\ edit[e].applied = cluster[edit[e].cluster].applied
    /\ worker.at # "idle" => worker.desired = cluster[worker.cluster].desired
    /\ worker.at = "connected" /\ worker.desired.token_id # 0 =>
          HasBoth(worker.cluster, worker.desired)

Writes(e, c) == edit[e].cluster = c /\ edit[e].at = "written"

\* The credentials: an edit that nobody overtakes merges into what was asked.
MergeInv ==
    \A c \in Cluster : cluster[c].type = "user" =>
        /\ (\A e \in Editor : ~Writes(e, c)) => CredentialsOf(c) = asked[c]
        /\ \A e \in Editor :
              edit[e].cluster = c /\ edit[e].at = "checked" /\ ~edit[e].overtaken =>
                  edit[e].credentials = CredentialsOf(c)
        /\ \A e \in Editor :
              Writes(e, c) /\ ~edit[e].overtaken =>
                  /\ CredentialsOf(c) = NewCreds(edit[e].form, edit[e].number, edit[e].credentials)
                  /\ (\A f \in Editor : Writes(f, c) => f = e) => edit[e].credentials = asked[c]

SecretsInv == KindInv /\ OwnersInv /\ (~excused => PointersInv /\ MergeInv)

-----------------------------------------------------------------------------
\* Rows that are added leave the rows that there are, and the credentials when
\* they are none themselves.
LEMMA AddedRows ==
    ASSUME KindInv, NEW rows \in Seq(Stored), secret' = secret \o rows
    PROVE  /\ secret' \in Seq(Stored)
           /\ DOMAIN secret' = 1..Len(secret) + Len(rows)
           /\ DOMAIN secret = 1..Len(secret)
           /\ \A i \in DOMAIN secret : secret'[i] = secret[i]
           /\ \A i \in DOMAIN rows : secret'[Len(secret) + i] = rows[i]
           /\ \A c \in Cluster : \A id : HasSecret(c, id) => HasSecret(c, id)'
<1>1. secret \in Seq(Stored)
  BY DEF KindInv
<1>2. /\ secret' \in Seq(Stored)
      /\ DOMAIN secret' = 1..Len(secret) + Len(rows)
      /\ DOMAIN secret = 1..Len(secret)
      /\ \A i \in DOMAIN secret : secret'[i] = secret[i]
      /\ \A i \in DOMAIN rows : secret'[Len(secret) + i] = rows[i]
  BY <1>1
<1>3. \A c \in Cluster : \A id : HasSecret(c, id) => HasSecret(c, id)'
  <2> SUFFICES ASSUME NEW c \in Cluster, NEW id, HasSecret(c, id) PROVE HasSecret(c, id)'
    OBVIOUS
  <2>1. id \in DOMAIN secret /\ secret[id].cluster = c
    BY DEF HasSecret
  <2>2. Len(secret) \in Nat /\ Len(rows) \in Nat
    BY <1>1
  <2>3. id \in DOMAIN secret' /\ secret'[id].cluster = c
    BY <1>2, <2>1, <2>2
  <2>4. QED BY <2>3 DEF HasSecret
<1>4. QED
  BY <1>2, <1>3

LEMMA OtherRowsKeepCredentials ==
    ASSUME KindInv, NEW rows \in Seq(Stored), secret' = secret \o rows, NEW c \in Cluster,
           \A i \in DOMAIN rows : rows[i].cluster # c \/ rows[i].name # "credentials"
    PROVE  CredentialsRows(c)' = CredentialsRows(c) /\ CredentialsOf(c)' = CredentialsOf(c)
<1>1. Len(secret) \in Nat /\ Len(rows) \in Nat /\ DOMAIN rows = 1..Len(rows)
  BY DEF KindInv
<1>2. \A i \in DOMAIN secret' \ DOMAIN secret : \E j \in DOMAIN rows : secret'[i] = rows[j]
  <2> SUFFICES ASSUME NEW i \in DOMAIN secret' \ DOMAIN secret
               PROVE  \E j \in DOMAIN rows : secret'[i] = rows[j]
    OBVIOUS
  <2>1. i \in Len(secret) + 1..Len(secret) + Len(rows)
    BY <1>1, AddedRows
  <2>2. i - Len(secret) \in DOMAIN rows /\ i = Len(secret) + (i - Len(secret))
    BY <1>1, <2>1
  <2>3. QED BY <2>2, AddedRows
<1>3. \A i \in DOMAIN secret : i \in DOMAIN secret' /\ secret'[i] = secret[i]
  BY <1>1, AddedRows
<1>4. CredentialsRows(c)' = CredentialsRows(c)
  BY <1>2, <1>3 DEF CredentialsRows, RowsOf
<1>5. \A i \in CredentialsRows(c) : secret'[i] = secret[i]
  BY <1>3 DEF CredentialsRows, RowsOf
<1>6. CASE CredentialsRows(c) = {}
  BY <1>4, <1>6 DEF CredentialsOf
<1>7. CASE CredentialsRows(c) # {}
  <2>1. (CHOOSE i \in CredentialsRows(c) : TRUE) \in CredentialsRows(c)
    BY <1>7
  <2>2. CredentialsOf(c) = secret[CHOOSE i \in CredentialsRows(c) : TRUE].data
    BY <1>7 DEF CredentialsOf
  <2>3. CredentialsOf(c)' = secret'[CHOOSE i \in CredentialsRows(c) : TRUE].data
    BY <1>4, <1>7, Zenon DEF CredentialsOf
  <2>4. QED BY <1>4, <1>5, <2>1, <2>2, <2>3
<1>8. QED
  BY <1>4, <1>6, <1>7

\* The credentials of a cluster are those of its only row.
LEMMA OnlyRow ==
    ASSUME NEW c, NEW i \in CredentialsRows(c), \A j, k \in CredentialsRows(c) : j = k
    PROVE  CredentialsOf(c) = secret[i].data
<1>1. (CHOOSE j \in CredentialsRows(c) : TRUE) = i
  OBVIOUS
<1>2. QED
  BY <1>1 DEF CredentialsOf

LEMMA CredentialsType ==
    ASSUME KindInv, NEW c PROVE CredentialsOf(c) \in Numbers
<1>1. CASE CredentialsRows(c) = {}
  BY <1>1 DEF CredentialsOf, NoCredentials, Numbers
<1>2. CASE CredentialsRows(c) # {}
  <2>1. PICK i : i \in CredentialsRows(c) /\ i = (CHOOSE j \in CredentialsRows(c) : TRUE)
    BY <1>2
  <2>2. secret[i] \in Stored
    BY <2>1 DEF CredentialsRows, RowsOf, KindInv
  <2>3. QED BY <1>2, <2>1, <2>2 DEF CredentialsOf, Stored
<1>3. QED
  BY <1>1, <1>2

\* The rows of a form: its token and its ca, and nothing else.
LEMMA ExtractedRows ==
    ASSUME NEW c \in Cluster, NEW form, NEW rows, rows = ExtractClusterSecrets(c, form)
    PROVE  /\ rows \in Seq(Stored)
           /\ \A i \in DOMAIN rows : rows[i].cluster = c /\ rows[i].name # "credentials"
           /\ \A name \in form.gives \cap {"token", "ca"} :
                 \E i \in DOMAIN rows : rows[i].name = name
           /\ \A i \in DOMAIN rows : rows[i].name \in form.gives
           /\ \A i, j \in DOMAIN rows : rows[i].name = rows[j].name => i = j
<1>1. /\ NewRow(c, "token", NoCredentials) \in Stored
      /\ NewRow(c, "ca", NoCredentials) \in Stored
  BY DEF NewRow, NoCredentials, Stored, Numbers
<1>2. CASE "token" \in form.gives /\ "ca" \in form.gives
  <2>1. ExtractClusterSecrets(c, form) =
           <<NewRow(c, "token", NoCredentials)>> \o <<NewRow(c, "ca", NoCredentials)>>
    BY <1>2 DEF ExtractClusterSecrets
  <2>2. ASSUME NEW x \in Stored, NEW y \in Stored
        PROVE  /\ <<x>> \o <<y>> \in Seq(Stored)
               /\ DOMAIN (<<x>> \o <<y>>) = 1..2
               /\ (<<x>> \o <<y>>)[1] = x /\ (<<x>> \o <<y>>)[2] = y
    <3>1. <<x>> \in Seq(Stored) /\ <<y>> \in Seq(Stored) /\ Len(<<x>>) = 1 /\ Len(<<y>>) = 1
      OBVIOUS
    <3>2. <<x>> \o <<y>> \in Seq(Stored) /\ Len(<<x>> \o <<y>>) = 2
      BY <3>1
    <3>3. QED BY <3>1, <3>2
  <2> DEFINE token == NewRow(c, "token", NoCredentials)
             ca == NewRow(c, "ca", NoCredentials)
  <2>3. rows \in Seq(Stored) /\ DOMAIN rows = 1..2 /\ rows[1] = token /\ rows[2] = ca
    <3>1. rows = <<token>> \o <<ca>>
      BY <2>1
    <3>2. token \in Stored /\ ca \in Stored
      BY <1>1
    <3> HIDE DEF token, ca
    <3>3. QED BY <2>2, <3>1, <3>2
  <2>4. /\ token.cluster = c /\ token.name = "token"
        /\ ca.cluster = c /\ ca.name = "ca"
    BY DEF NewRow
  <2> HIDE DEF token, ca
  <2>5. /\ \A i \in DOMAIN rows : rows[i].cluster = c /\ rows[i].name # "credentials"
        /\ \A name \in form.gives \cap {"token", "ca"} :
              \E i \in DOMAIN rows : rows[i].name = name
        /\ \A i \in DOMAIN rows : rows[i].name \in form.gives
        /\ \A i, j \in DOMAIN rows : rows[i].name = rows[j].name => i = j
    BY <1>2, <2>3, <2>4
  <2>6. QED BY <2>3, <2>5
<1>3. CASE "token" \in form.gives /\ "ca" \notin form.gives
  <2>1. ExtractClusterSecrets(c, form) = <<NewRow(c, "token", NoCredentials)>>
    BY <1>3 DEF ExtractClusterSecrets
  <2>2. QED BY <1>1, <1>3, <2>1 DEF NewRow
<1>4. CASE "token" \notin form.gives /\ "ca" \in form.gives
  <2>1. ExtractClusterSecrets(c, form) = <<NewRow(c, "ca", NoCredentials)>>
    BY <1>4 DEF ExtractClusterSecrets
  <2>2. QED BY <1>1, <1>4, <2>1 DEF NewRow
<1>5. CASE "token" \notin form.gives /\ "ca" \notin form.gives
  <2>1. ExtractClusterSecrets(c, form) = <<>>
    BY <1>5 DEF ExtractClusterSecrets
  <2>2. QED BY <1>5, <2>1
<1>6. QED
  BY <1>2, <1>3, <1>4, <1>5

\* The row is there, and the cluster's, after a step.
HasNext(c, id) == id \in DOMAIN secret' /\ secret'[id].cluster = c

LEMMA PointerType ==
    ASSUME KindInv, NEW c \in Cluster, NEW form, NEW name \in {"token", "ca"}, NEW applied \in Nat,
           secret' = secret \o ExtractClusterSecrets(c, form)
    PROVE  LET p == Pointer(form, name, ExtractClusterSecrets(c, form), Len(secret), applied) IN
           p \in Nat /\ (p = applied \/ HasNext(c, p))
<1> DEFINE rows == ExtractClusterSecrets(c, form)
           p == Pointer(form, name, rows, Len(secret), applied)
           i == CHOOSE j \in DOMAIN rows : rows[j].name = name
<1>1. CASE name \notin form.gives
  BY <1>1 DEF Pointer
<1>2. CASE name \in form.gives
  <2>1. rows \in Seq(Stored) /\ i \in DOMAIN rows /\ rows[i].cluster = c
    <3>1. \E j \in DOMAIN rows : rows[j].name = name
      <4>1. name \in form.gives \cap {"token", "ca"}
        BY <1>2
      <4>2. /\ rows \in Seq(Stored)
            /\ \A j \in DOMAIN rows : rows[j].cluster = c /\ rows[j].name # "credentials"
            /\ \A n \in form.gives \cap {"token", "ca"} : \E j \in DOMAIN rows : rows[j].name = n
        BY ExtractedRows
      <4> HIDE DEF rows
      <4>3. QED BY <4>1, <4>2
    <3>2. rows \in Seq(Stored) /\ \A j \in DOMAIN rows : rows[j].cluster = c
      BY ExtractedRows
    <3> HIDE DEF rows
    <3>3. QED BY <3>1, <3>2
  <2>2. p = Len(secret) + i
    BY <1>2 DEF Pointer
  <2> HIDE DEF rows, i, p
  <2>3. Len(secret) \in Nat /\ i \in 1..Len(rows) /\ Len(rows) \in Nat
    BY <2>1 DEF KindInv
  <2>4. secret' = secret \o rows
    BY DEF rows
  <2>5. p \in DOMAIN secret' /\ secret'[p] = rows[i]
    BY <2>1, <2>2, <2>3, <2>4, AddedRows
  <2>6. HasNext(c, p)
    BY <2>1, <2>5 DEF HasNext
  <2>7. QED BY <2>2, <2>3, <2>6 DEF p, rows
<1>3. QED
  BY <1>1, <1>2

\* The desired state that a form makes points at new rows of the cluster, or at
\* what is applied.
LEMMA NewState ==
    ASSUME KindInv, NEW c \in Cluster, NEW form, NEW applied \in Pointers,
           secret' = secret \o ExtractClusterSecrets(c, form)
    PROVE  LET state == CreateClusterSecrets(form, ExtractClusterSecrets(c, form), applied) IN
           /\ state \in Pointers
           /\ state.token_id = applied.token_id \/ HasNext(c, state.token_id)
           /\ state.ca_id = applied.ca_id \/ HasNext(c, state.ca_id)
<1> DEFINE rows == ExtractClusterSecrets(c, form)
           token == Pointer(form, "token", rows, Len(secret), applied.token_id)
           ca == Pointer(form, "ca", rows, Len(secret), applied.ca_id)
<1>1. applied.token_id \in Nat /\ applied.ca_id \in Nat
  BY DEF Pointers
<1>2. token \in Nat /\ (token = applied.token_id \/ HasNext(c, token))
  BY <1>1, PointerType
<1>3. ca \in Nat /\ (ca = applied.ca_id \/ HasNext(c, ca))
  BY <1>1, PointerType
<1>4. CreateClusterSecrets(form, rows, applied) =
         [apiServer |-> "apiServer" \in form.gives, token_id |-> token, ca_id |-> ca]
  BY DEF CreateClusterSecrets
<1> HIDE DEF rows, token, ca
<1>5. QED
  BY <1>2, <1>3, <1>4 DEF Pointers, rows

-----------------------------------------------------------------------------
LEMMA InitSecrets == ASSUME SecretsInit PROVE SecretsInv
<1>1. KindInv
  <2>1. NoState \in Pointers /\ NoCredentials \in Numbers
    BY DEF NoState, Pointers, NoCredentials, Numbers
  <2>2. NoEdit \in Editing /\ IdleWorker \in InHand
    BY <2>1 DEF NoEdit, Editing, IdleWorker, InHand
  <2>3. \A c \in Cluster : cluster[c] \in Record
    BY <2>1 DEF SecretsInit, Record
  <2>4. cluster \in [Cluster -> Record]
    BY <2>3 DEF SecretsInit
  <2>5. edit \in [Editor -> Editing] /\ asked \in [Cluster -> Numbers] /\ tasks \in [Cluster -> Nat]
    BY <2>1, <2>2 DEF SecretsInit
  <2>6. secret \in Seq(Stored) /\ worker \in InHand /\ calls \in Nat /\ excused \in BOOLEAN
    <3>1. secret = <<>> /\ worker = IdleWorker /\ calls = 0 /\ excused = FALSE
      BY DEF SecretsInit
    <3>2. <<>> \in Seq(Stored) /\ 0 \in Nat /\ FALSE \in BOOLEAN
      OBVIOUS
    <3>3. QED BY <2>2, <3>1, <3>2, Zenon
  <2>7. QED BY <2>4, <2>5, <2>6 DEF KindInv
<1>2. \A c \in Cluster : CredentialsRows(c) = {} /\ CredentialsOf(c) = NoCredentials
  BY DEF SecretsInit, CredentialsRows, RowsOf, CredentialsOf
<1>3. OwnersInv
  BY <1>2 DEF SecretsInit, OwnersInv, Placed, NoEdit, IdleWorker
<1>4. PointersInv
  BY DEF SecretsInit, PointersInv, NoEdit, IdleWorker, NoState
<1>5. MergeInv
  BY DEF SecretsInit, MergeInv
<1>6. QED
  BY <1>1, <1>3, <1>4, <1>5 DEF SecretsInv

\* The edits and what was asked are as they were, and so are the credentials.
LEMMA MergeKeeps ==
    ASSUME MergeInv, edit' = edit, asked' = asked,
           \A c \in Cluster : cluster'[c].type = "user" =>
               cluster[c].type = "user" /\ CredentialsOf(c)' = CredentialsOf(c)
    PROVE  MergeInv'
  BY DEF MergeInv, Writes

LEMMA CreateKeeps ==
    ASSUME SecretsInv, NEW c \in Cluster, NEW form \in AddForm, Create(c, form)
    PROVE  SecretsInv'
<1> DEFINE rows == ExtractClusterSecrets(c, form)
           state == CreateClusterSecrets(form, rows, NoState)
<1>0. KindInv /\ OwnersInv
  BY DEF SecretsInv
<1>1. /\ rows \in Seq(Stored) /\ secret' = secret \o rows
      /\ \A i \in DOMAIN rows : rows[i].cluster = c /\ rows[i].name # "credentials"
  BY ExtractedRows DEF Create
<1>2. state \in Pointers
  <2>1. NoState \in Pointers
    BY DEF NoState, Pointers
  <2>2. QED BY <1>0, <1>1, <2>1, NewState
<1>3. /\ cluster[c].type = "none"
      /\ cluster' = [cluster EXCEPT ![c].type = form.provision_type, ![c].desired = state]
      /\ tasks' = [tasks EXCEPT ![c] = @ + 1]
      /\ UNCHANGED <<worker, edit, calls, asked, excused>>
  BY DEF Create
<1>4. form.provision_type \in {"remote", "local"}
  BY DEF Create, Valid, ServerForms
<1> HIDE DEF rows, state
<1>5. /\ cluster' \in [Cluster -> Record]
      /\ cluster'[c].type = form.provision_type /\ cluster'[c].desired = state
      /\ cluster'[c].applied = cluster[c].applied
      /\ \A b \in Cluster : b # c => cluster'[b] = cluster[b]
  BY <1>0, <1>2, <1>3, <1>4 DEF KindInv, Record
<1>6. \A b \in Cluster : CredentialsRows(b)' = CredentialsRows(b) /\ CredentialsOf(b)' = CredentialsOf(b)
  BY <1>0, <1>1, OtherRowsKeepCredentials
<1>7. KindInv'
  BY <1>0, <1>1, <1>3, <1>5, AddedRows DEF KindInv
<1>8. OwnersInv'
  BY <1>0, <1>3, <1>4, <1>5, <1>6 DEF OwnersInv, Placed, KindInv
<1>9. ASSUME ~excused' PROVE PointersInv' /\ MergeInv'
  <2>1. PointersInv /\ MergeInv
    BY <1>3, <1>9 DEF SecretsInv
  <2>2. cluster[c].applied.token_id = 0 /\ tasks[c] = 0
    BY <1>0, <1>3 DEF OwnersInv, NoState
  <2>3. \A b \in Cluster : \A id : HasSecret(b, id) => HasSecret(b, id)'
    BY <1>0, <1>1, AddedRows
  <2>4. worker.at # "idle" => worker.cluster \in Cluster /\ worker.cluster # c
    BY <1>0, <2>2 DEF OwnersInv
  <2>5. \A e \in Editor : edit[e].at # "none" => edit[e].cluster \in Cluster /\ edit[e].cluster # c
    BY <1>0, <1>3 DEF OwnersInv, Placed
  <2>6. \A b \in Cluster : b # c => tasks'[b] = tasks[b]
    BY <1>0, <1>3 DEF KindInv
  <2>7. PointersInv'
    <3>1. \A b \in Cluster : cluster'[b].applied.token_id # 0 =>
             HasBoth(b, cluster[b].applied)' /\ HasBoth(b, cluster[b].desired)'
      BY <1>5, <2>1, <2>2, <2>3 DEF PointersInv, HasBoth
    <3>2. \A e \in Editor : edit'[e].at = "checked" /\ ~edit'[e].overtaken =>
             /\ tasks'[edit'[e].cluster] = 0
             /\ edit'[e].applied = cluster'[edit'[e].cluster].applied
      BY <1>3, <1>5, <2>1, <2>5, <2>6 DEF PointersInv
    <3>3. worker'.at # "idle" => worker'.desired = cluster'[worker'.cluster].desired
      BY <1>3, <1>5, <2>1, <2>4 DEF PointersInv
    <3>4. worker'.at = "connected" /\ worker'.desired.token_id # 0 =>
             HasBoth(worker.cluster, worker.desired)'
      BY <1>3, <2>1, <2>3, <2>4 DEF PointersInv, HasBoth
    <3>5. QED BY <3>1, <3>2, <3>3, <3>4 DEF PointersInv
  <2>8. MergeInv'
    BY <1>3, <1>4, <1>5, <1>6, <2>1, MergeKeeps
  <2>9. QED BY <2>7, <2>8
<1>10. QED
  BY <1>7, <1>8, <1>9 DEF SecretsInv

LEMMA CreateUserKeeps ==
    ASSUME SecretsInv, NEW c \in Cluster, NEW form \in AddForm, CreateUserPT(c, form)
    PROVE  SecretsInv'
<1> DEFINE row == NewRow(c, "credentials", NoCredentials)
<1>0. KindInv /\ OwnersInv
  BY DEF SecretsInv
<1>1. row \in Stored /\ row.cluster = c /\ row.name = "credentials" /\ row.data = NoCredentials
  BY DEF NewRow, NoCredentials, Stored, Numbers
<1>2. /\ secret' = Append(secret, row)
      /\ cluster[c].type = "none"
      /\ cluster' = [cluster EXCEPT ![c].type = "user"]
      /\ tasks' = [tasks EXCEPT ![c] = @ + 1]
      /\ UNCHANGED <<worker, edit, calls, asked, excused>>
  BY DEF CreateUserPT
<1> HIDE DEF row
<1>3. /\ secret' \in Seq(Stored)
      /\ secret' = secret \o <<row>>
      /\ <<row>> \in Seq(Stored) /\ DOMAIN <<row>> = {1} /\ <<row>>[1] = row
      /\ Len(secret) \in Nat
      /\ DOMAIN secret' = DOMAIN secret \cup {Len(secret) + 1}
      /\ DOMAIN secret = 1..Len(secret)
      /\ secret'[Len(secret) + 1] = row
      /\ \A i \in DOMAIN secret : secret'[i] = secret[i]
  BY <1>0, <1>1, <1>2 DEF KindInv
<1>4. /\ cluster' \in [Cluster -> Record]
      /\ cluster'[c].type = "user"
      /\ cluster'[c].desired = cluster[c].desired /\ cluster'[c].applied = cluster[c].applied
      /\ \A b \in Cluster : b # c => cluster'[b] = cluster[b]
  BY <1>0, <1>2 DEF KindInv, Record
<1>5. \A b \in Cluster : b # c =>
         CredentialsRows(b)' = CredentialsRows(b) /\ CredentialsOf(b)' = CredentialsOf(b)
  <2> SUFFICES ASSUME NEW b \in Cluster, b # c
               PROVE  CredentialsRows(b)' = CredentialsRows(b) /\ CredentialsOf(b)' = CredentialsOf(b)
    OBVIOUS
  <2>1. \A i \in DOMAIN <<row>> : <<row>>[i].cluster # b
    BY <1>1, <1>3
  <2> DEFINE rows == <<row>>
  <2>2. rows \in Seq(Stored) /\ secret' = secret \o rows /\ \A i \in DOMAIN rows : rows[i].cluster # b
    BY <1>3, <2>1
  <2> HIDE DEF rows
  <2>3. QED BY <1>0, <2>2, OtherRowsKeepCredentials
<1>6. CredentialsRows(c) = {}
  BY <1>0, <1>2 DEF OwnersInv
<1>7. CredentialsRows(c)' = {Len(secret) + 1}
  <2>1. \A i \in DOMAIN secret : ~(secret[i].cluster = c /\ secret[i].name = "credentials")
    BY <1>6 DEF CredentialsRows, RowsOf
  <2>2. QED BY <1>1, <1>3, <2>1 DEF CredentialsRows, RowsOf
<1>8. CredentialsOf(c)' = NoCredentials
  <2>1. CredentialsOf(c)' = secret'[CHOOSE i \in {Len(secret) + 1} : TRUE].data
    BY <1>7, Zenon DEF CredentialsOf
  <2>2. (CHOOSE i \in {Len(secret) + 1} : TRUE) = Len(secret) + 1
    OBVIOUS
  <2>3. QED BY <1>1, <1>3, <2>1, <2>2
<1>9. KindInv'
  BY <1>0, <1>2, <1>3, <1>4 DEF KindInv
<1>10. OwnersInv'
  <2>1. \A e \in Editor : Placed(e)'
    BY <1>0, <1>2, <1>4 DEF OwnersInv, Placed
  <2>2. \A b \in Cluster : tasks'[b] \in Nat /\ tasks'[b] >= tasks[b] /\ (b # c => tasks'[b] = tasks[b])
    BY <1>0, <1>2 DEF KindInv
  <2>3. worker'.at # "idle" => worker'.cluster \in Cluster /\ tasks'[worker'.cluster] > 0
    BY <1>0, <1>2, <2>2 DEF OwnersInv, KindInv
  <2>4. \A b \in Cluster \ {c} :
          /\ cluster'[b].type = "none" => tasks'[b] = 0
          /\ cluster'[b].type \in {"none", "user"} =>
                cluster'[b].desired = NoState /\ cluster'[b].applied = NoState
          /\ cluster'[b].type # "user" => asked'[b] = NoCredentials
          /\ CredentialsRows(b)' # {} <=> cluster'[b].type = "user"
          /\ \A i, j \in CredentialsRows(b)' : i = j
    BY <1>0, <1>2, <1>4, <1>5, <2>2 DEF OwnersInv
  <2>5. /\ cluster'[c].type = "user"
        /\ cluster'[c].desired = NoState /\ cluster'[c].applied = NoState
        /\ CredentialsRows(c)' # {}
        /\ \A i, j \in CredentialsRows(c)' : i = j
    BY <1>0, <1>2, <1>4, <1>7 DEF OwnersInv
  <2>6. QED BY <2>1, <2>3, <2>4, <2>5 DEF OwnersInv
<1>11. ASSUME ~excused' PROVE PointersInv' /\ MergeInv'
  <2>1. PointersInv /\ MergeInv
    BY <1>2, <1>11 DEF SecretsInv
  <2>2. /\ tasks[c] = 0 /\ cluster[c].applied.token_id = 0 /\ asked[c] = NoCredentials
    BY <1>0, <1>2 DEF OwnersInv, NoState
  <2>3. \A b \in Cluster : \A id : HasSecret(b, id) => HasSecret(b, id)'
    BY <1>3 DEF HasSecret
  <2>4. worker.at # "idle" => worker.cluster \in Cluster /\ worker.cluster # c
    BY <1>0, <2>2 DEF OwnersInv
  <2>5. \A e \in Editor : /\ edit[e].at # "none" => edit[e].cluster \in Cluster /\ edit[e].cluster # c
                          /\ edit[e].cluster = c => edit[e].at = "none"
    BY <1>0, <1>2 DEF OwnersInv, Placed
  <2>6. \A b \in Cluster : b # c => tasks'[b] = tasks[b]
    BY <1>0, <1>2 DEF KindInv
  <2>7. PointersInv'
    <3>1. \A b \in Cluster : cluster'[b].applied.token_id # 0 =>
             HasBoth(b, cluster[b].applied)' /\ HasBoth(b, cluster[b].desired)'
      BY <1>4, <2>1, <2>2, <2>3 DEF PointersInv, HasBoth
    <3>2. \A e \in Editor : edit'[e].at = "checked" /\ ~edit'[e].overtaken =>
             /\ tasks'[edit'[e].cluster] = 0
             /\ edit'[e].applied = cluster'[edit'[e].cluster].applied
      BY <1>2, <1>4, <2>1, <2>5, <2>6 DEF PointersInv
    <3>3. worker'.at # "idle" => worker'.desired = cluster'[worker'.cluster].desired
      BY <1>2, <1>4, <2>1, <2>4 DEF PointersInv
    <3>4. worker'.at = "connected" /\ worker'.desired.token_id # 0 =>
             HasBoth(worker.cluster, worker.desired)'
      BY <1>2, <2>1, <2>3, <2>4 DEF PointersInv, HasBoth
    <3>5. QED BY <3>1, <3>2, <3>3, <3>4 DEF PointersInv
  <2>8. MergeInv'
    <3> SUFFICES ASSUME NEW b \in Cluster, cluster'[b].type = "user"
                 PROVE  /\ (\A e \in Editor : ~Writes(e, b)') => CredentialsOf(b)' = asked'[b]
                        /\ \A e \in Editor :
                              edit'[e].cluster = b /\ edit'[e].at = "checked" /\ ~edit'[e].overtaken =>
                                  edit'[e].credentials = CredentialsOf(b)'
                        /\ \A e \in Editor :
                              Writes(e, b)' /\ ~edit'[e].overtaken =>
                                  /\ CredentialsOf(b)' = NewCreds(edit'[e].form, edit'[e].number, edit'[e].credentials)
                                  /\ (\A f \in Editor : Writes(f, b)' => f = e) => edit'[e].credentials = asked'[b]
      BY DEF MergeInv
    <3>1. CASE b = c
      BY <1>2, <1>8, <2>2, <2>5, <3>1 DEF Writes
    <3>2. CASE b # c
      BY <1>2, <1>4, <1>5, <2>1, <3>2 DEF MergeInv, Writes
    <3>3. QED BY <3>1, <3>2
  <2>9. QED BY <2>7, <2>8
<1>12. QED
  BY <1>9, <1>10, <1>11 DEF SecretsInv

LEMMA CheckEditKeeps ==
    ASSUME SecretsInv, NEW e \in Editor, NEW c \in Cluster, NEW form \in EditForm,
           CheckEdit(e, c, form)
    PROVE  SecretsInv'
<1> DEFINE after == [at |-> "checked", cluster |-> c, form |-> form, number |-> calls + 1,
                     applied |-> cluster[c].applied, credentials |-> CredentialsOf(c),
                     overtaken |-> FALSE]
<1>0. KindInv /\ OwnersInv
  BY DEF SecretsInv
<1>1. /\ calls' = calls + 1
      /\ edit' = [edit EXCEPT ![e] = after]
      /\ edit[e] = NoEdit /\ tasks[c] = 0 /\ cluster[c].type # "none"
      /\ UNCHANGED <<cluster, secret, tasks, worker, asked, excused>>
  BY DEF CheckEdit
<1>2. after \in Editing
  <2>1. form \in Form
    BY SecretsAssumption
  <2>2. CredentialsOf(c) \in Numbers
    BY <1>0, CredentialsType
  <2>3. cluster[c].applied \in Pointers /\ calls + 1 \in Nat
    BY <1>0 DEF KindInv, Record
  <2>4. QED BY <2>1, <2>2, <2>3 DEF Editing
<1>3. /\ after.at = "checked" /\ after.cluster = c /\ ~after.overtaken
      /\ after.applied = cluster[c].applied /\ after.credentials = CredentialsOf(c)
  OBVIOUS
<1> HIDE DEF after
<1>4. edit'[e] = after /\ \A f \in Editor : f # e => edit'[f] = edit[f]
  BY <1>0, <1>1 DEF KindInv
<1>5. KindInv'
  BY <1>0, <1>1, <1>2 DEF KindInv
<1>6. \A b : CredentialsRows(b)' = CredentialsRows(b) /\ CredentialsOf(b)' = CredentialsOf(b)
  BY <1>1 DEF CredentialsRows, RowsOf, CredentialsOf
<1>7. OwnersInv'
  <2>1. Reaches(form, "edit") = "service" => cluster[c].type # "user"
    BY DEF CheckEdit, Valid, ServerForms
  <2>2. after.form = form
    BY DEF after
  <2>3. \A f \in Editor : Placed(f)'
    BY <1>0, <1>1, <1>3, <1>4, <2>1, <2>2 DEF OwnersInv, Placed
  <2>4. QED
    BY <1>0, <1>1, <1>6, <2>3 DEF OwnersInv
<1>8. ASSUME ~excused' PROVE PointersInv' /\ MergeInv'
  <2>1. PointersInv /\ MergeInv
    BY <1>1, <1>8 DEF SecretsInv
  <2>2. PointersInv'
    BY <1>1, <1>3, <1>4, <2>1 DEF PointersInv, HasBoth, HasSecret
  <2>3. \A f \in Editor : \A b : Writes(f, b)' <=> Writes(f, b)
    BY <1>1, <1>3, <1>4 DEF Writes, NoEdit
  <2>4. \A f \in Editor : \A b : Writes(f, b) => f # e
    BY <1>1 DEF Writes, NoEdit
  <2>5. MergeInv'
    BY <1>1, <1>3, <1>4, <1>6, <2>1, <2>3, <2>4 DEF MergeInv
  <2>6. QED BY <2>2, <2>5
<1>9. QED
  BY <1>5, <1>7, <1>8 DEF SecretsInv

\* What an edit that writes makes of the others.
LEMMA Overtaken ==
    ASSUME KindInv, NEW e \in Editor, NEW after \in Editing, edit' = Overtaking(e, after)
    PROVE  /\ edit' \in [Editor -> Editing]
           /\ edit'[e] = after
           /\ \A f \in Editor : f # e =>
                 /\ edit'[f].cluster = edit[f].cluster /\ edit'[f].at = edit[f].at
                 /\ edit'[f].form = edit[f].form
                 /\ ~edit'[f].overtaken =>
                       edit'[f] = edit[f] /\ edit[f].cluster # edit[e].cluster
<1>1. \A f \in Editor : edit[f] \in Editing
  BY DEF KindInv
<1>2. \A f \in Editor : [edit[f] EXCEPT !.overtaken = TRUE] \in Editing
  BY <1>1 DEF Editing
<1>3. \A f \in Editor : [edit[f] EXCEPT !.overtaken = TRUE].overtaken
  BY <1>1 DEF Editing
<1>4. \A f \in Editor : /\ [edit[f] EXCEPT !.overtaken = TRUE].cluster = edit[f].cluster
                        /\ [edit[f] EXCEPT !.overtaken = TRUE].at = edit[f].at
                        /\ [edit[f] EXCEPT !.overtaken = TRUE].form = edit[f].form
  BY <1>1 DEF Editing
<1>5. edit' \in [Editor -> Editing]
  BY <1>1, <1>2 DEF Overtaking
<1>6. edit'[e] = after
  BY DEF Overtaking
<1>7. \A f \in Editor : f # e =>
         edit'[f] = IF edit[f].cluster = edit[e].cluster THEN [edit[f] EXCEPT !.overtaken = TRUE]
                    ELSE edit[f]
  BY DEF Overtaking
<1>8. QED
  BY ZenonT(60), <1>3, <1>4, <1>5, <1>6, <1>7

LEMMA NoEditType == NoEdit \in Editing /\ NoEdit.at = "none" /\ NoEdit.cluster = NoCluster
  BY DEF NoEdit, Editing, NoState, Pointers, NoCredentials, Numbers

LEMMA UpdateKeeps ==
    ASSUME SecretsInv, NEW e \in Editor, Update(e)
    PROVE  SecretsInv'
<1> DEFINE c == edit[e].cluster
           form == edit[e].form
           rows == ExtractClusterSecrets(c, form)
           state == CreateClusterSecrets(form, rows, edit[e].applied)
<1>0. KindInv /\ OwnersInv
  BY DEF SecretsInv
<1>1. /\ edit[e].at = "checked"
      /\ secret' = secret \o rows
      /\ \/ cluster' = [cluster EXCEPT ![c].desired = state]
         \/ cluster' = cluster
      /\ tasks' = [tasks EXCEPT ![c] = @ + 1]
      /\ edit' = Overtaking(e, NoEdit)
      /\ excused' = (excused \/ edit[e].overtaken)
      /\ UNCHANGED <<worker, calls, asked>>
  BY DEF Update
<1>2. c \in Cluster /\ cluster[c].type # "none" /\ edit[e].applied \in Pointers
  BY <1>0, <1>1 DEF OwnersInv, Placed, KindInv, Editing
<1>3. /\ rows \in Seq(Stored)
      /\ \A i \in DOMAIN rows : rows[i].cluster = c /\ rows[i].name # "credentials"
  <2>1. \A b \in Cluster : \A f, r : r = ExtractClusterSecrets(b, f) =>
           r \in Seq(Stored) /\ \A i \in DOMAIN r : r[i].cluster = b /\ r[i].name # "credentials"
    BY ExtractedRows
  <2> HIDE DEF c, form
  <2>2. QED BY <1>2, <2>1
<1>4. /\ state \in Pointers
      /\ state.token_id = edit[e].applied.token_id \/ HasNext(c, state.token_id)
      /\ state.ca_id = edit[e].applied.ca_id \/ HasNext(c, state.ca_id)
  BY <1>0, <1>1, <1>2, NewState
<1>5. cluster[c].type # "user"
  BY <1>0, <1>1 DEF Update, OwnersInv, Placed
<1>6. /\ edit' \in [Editor -> Editing]
      /\ edit'[e] = NoEdit
      /\ \A f \in Editor : f # e =>
            /\ edit'[f].cluster = edit[f].cluster /\ edit'[f].at = edit[f].at
            /\ edit'[f].form = edit[f].form
            /\ ~edit'[f].overtaken => edit'[f] = edit[f] /\ edit[f].cluster # c
  BY <1>0, <1>1, NoEditType, Overtaken
<1> HIDE DEF c, rows, state, form
<1>7. /\ cluster' \in [Cluster -> Record]
      /\ cluster'[c].type = cluster[c].type
      /\ cluster'[c].desired \in {state, cluster[c].desired}
      /\ cluster'[c].applied = cluster[c].applied
      /\ \A b \in Cluster : b # c => cluster'[b] = cluster[b]
  BY SMTT(30), <1>0, <1>1, <1>2, <1>4 DEF KindInv, Record
<1>8. \A b \in Cluster : CredentialsRows(b)' = CredentialsRows(b) /\ CredentialsOf(b)' = CredentialsOf(b)
  BY <1>0, <1>1, <1>3, OtherRowsKeepCredentials
<1>9. KindInv'
  <2>1. secret' \in Seq(Stored)
    BY <1>0, <1>1, <1>3, AddedRows
  <2>2. excused' \in BOOLEAN
    BY <1>1
  <2>3. tasks' \in [Cluster -> Nat]
    BY <1>0, <1>1, <1>2 DEF KindInv
  <2>4. QED BY <1>0, <1>1, <1>6, <1>7, <2>1, <2>2, <2>3 DEF KindInv
<1>10. tasks'[c] > 0 /\ \A b \in Cluster : b # c => tasks'[b] = tasks[b]
  BY <1>0, <1>1, <1>2 DEF KindInv
<1>11. OwnersInv'
  <2>1. \A f \in Editor : Placed(f)'
    <3>1. \A f \in Editor : f # e => Placed(f)'
      BY <1>0, <1>6, <1>7 DEF OwnersInv, Placed
    <3>2. Placed(e)'
      BY <1>6, NoEditType DEF Placed
    <3>3. QED BY <3>1, <3>2
  <2>2. worker'.at # "idle" => worker'.cluster \in Cluster /\ tasks'[worker'.cluster] > 0
    BY <1>0, <1>1, <1>10 DEF OwnersInv
  <2>3. QED
    BY <1>0, <1>1, <1>2, <1>5, <1>7, <1>8, <1>10, <2>1, <2>2 DEF OwnersInv
<1>12. ASSUME ~excused' PROVE PointersInv' /\ MergeInv'
  <2>1. PointersInv /\ MergeInv /\ ~edit[e].overtaken
    BY <1>0, <1>1, <1>12 DEF SecretsInv, KindInv
  <2>2. tasks[c] = 0 /\ edit[e].applied = cluster[c].applied
    BY <1>1, <2>1 DEF PointersInv, c
  <2>3. \A b \in Cluster : \A id : HasSecret(b, id) => HasNext(b, id)
    BY <1>0, <1>1, <1>3, AddedRows DEF HasSecret, HasNext
  <2>4. \A b \in Cluster : cluster'[b].applied.token_id # 0 =>
           HasBoth(b, cluster[b].applied)' /\ HasBoth(b, cluster[b].desired)'
    <3> SUFFICES ASSUME NEW b \in Cluster, cluster'[b].applied.token_id # 0
                 PROVE  /\ HasNext(b, cluster'[b].applied.token_id) /\ HasNext(b, cluster'[b].applied.ca_id)
                        /\ HasNext(b, cluster'[b].desired.token_id) /\ HasNext(b, cluster'[b].desired.ca_id)
      BY DEF HasBoth, HasSecret, HasNext
    <3>1. /\ HasNext(b, cluster[b].applied.token_id) /\ HasNext(b, cluster[b].applied.ca_id)
          /\ HasNext(b, cluster[b].desired.token_id) /\ HasNext(b, cluster[b].desired.ca_id)
      BY <1>7, <2>1, <2>3 DEF PointersInv, HasBoth
    <3>2. CASE b # c
      BY <1>7, <3>1, <3>2
    <3>3. CASE b = c
      BY <1>4, <1>7, <2>2, <3>1, <3>3
    <3>4. QED BY <3>2, <3>3
  <2>5. \A f \in Editor : edit'[f].at = "checked" /\ ~edit'[f].overtaken =>
           /\ tasks'[edit'[f].cluster] = 0
           /\ edit'[f].applied = cluster'[edit'[f].cluster].applied
    <3> SUFFICES ASSUME NEW f \in Editor, edit'[f].at = "checked", ~edit'[f].overtaken
                 PROVE  /\ tasks'[edit'[f].cluster] = 0
                        /\ edit'[f].applied = cluster'[edit'[f].cluster].applied
      OBVIOUS
    <3>1. f # e
      BY <1>6, NoEditType
    <3>2. edit'[f] = edit[f] /\ edit[f].cluster # c /\ edit[f].cluster \in Cluster
      BY <1>0, <1>6, <3>1 DEF OwnersInv, Placed
    <3>3. QED BY <1>7, <1>10, <2>1, <3>2 DEF PointersInv
  <2>6. worker.at # "idle" => worker.cluster \in Cluster /\ worker.cluster # c
    BY <1>0, <2>2 DEF OwnersInv
  <2>7. worker'.at # "idle" => worker'.desired = cluster'[worker'.cluster].desired
    BY <1>1, <1>7, <2>1, <2>6 DEF PointersInv
  <2>8. worker'.at = "connected" /\ worker'.desired.token_id # 0 =>
           HasBoth(worker.cluster, worker.desired)'
    BY <1>1, <2>1, <2>3, <2>6 DEF PointersInv, HasBoth, HasSecret, HasNext
  <2>9. PointersInv'
    BY <2>4, <2>5, <2>7, <2>8 DEF PointersInv
  <2>10. MergeInv'
    <3>1. \A b \in Cluster : cluster'[b].type = "user" => b # c /\ cluster[b].type = "user"
      BY <1>5, <1>7
    <3>2. \A f \in Editor, b \in Cluster : b # c => (Writes(f, b)' <=> Writes(f, b))
      BY <1>6, NoEditType DEF Writes, c
    <3>3. \A f \in Editor : ~edit'[f].overtaken => f = e \/ edit'[f] = edit[f]
      BY <1>6
    <3>4. edit'[e].at = "none"
      BY <1>6, NoEditType
    <3>5. \A b : ~Writes(e, b)'
      BY <3>4 DEF Writes
    <3> SUFFICES ASSUME NEW b \in Cluster, cluster'[b].type = "user"
                 PROVE  /\ (\A f \in Editor : ~Writes(f, b)') => CredentialsOf(b)' = asked'[b]
                        /\ \A f \in Editor :
                              edit'[f].cluster = b /\ edit'[f].at = "checked" /\ ~edit'[f].overtaken =>
                                  edit'[f].credentials = CredentialsOf(b)'
                        /\ \A f \in Editor :
                              Writes(f, b)' /\ ~edit'[f].overtaken =>
                                  /\ CredentialsOf(b)' = NewCreds(edit'[f].form, edit'[f].number, edit'[f].credentials)
                                  /\ (\A g \in Editor : Writes(g, b)' => g = f) => edit'[f].credentials = asked'[b]
      BY DEF MergeInv
    <3>6. b # c /\ cluster[b].type = "user" /\ CredentialsOf(b)' = CredentialsOf(b) /\ asked' = asked
      BY <1>1, <1>8, <3>1
    <3>7. (\A f \in Editor : ~Writes(f, b)') => CredentialsOf(b) = asked[b]
      BY <2>1, <3>2, <3>6 DEF MergeInv
    <3>8. \A f \in Editor : edit'[f].cluster = b /\ edit'[f].at = "checked" /\ ~edit'[f].overtaken =>
             edit'[f].credentials = CredentialsOf(b)
      BY <2>1, <3>3, <3>4, <3>6 DEF MergeInv
    <3>9. \A f \in Editor : Writes(f, b)' /\ ~edit'[f].overtaken =>
             /\ CredentialsOf(b) = NewCreds(edit'[f].form, edit'[f].number, edit'[f].credentials)
             /\ (\A g \in Editor : Writes(g, b)' => g = f) => edit'[f].credentials = asked[b]
      BY <2>1, <3>2, <3>3, <3>5, <3>6 DEF MergeInv
    <3>10. QED BY <3>6, <3>7, <3>8, <3>9
  <2>11. QED BY <2>9, <2>10
<1>13. QED
  BY <1>9, <1>11, <1>12 DEF SecretsInv

\* What keeps the clusters, their rows but for the data, and the tasks, and
\* lets no new edit in, keeps the pointers.
LEMMA PointersKeep ==
    ASSUME PointersInv, UNCHANGED <<cluster, worker>>,
           \A c \in Cluster : \A id : HasSecret(c, id) => HasNext(c, id),
           worker.at # "idle" => worker.cluster \in Cluster,
           \A e \in Editor : edit'[e].at = "checked" /\ ~edit'[e].overtaken =>
               /\ edit'[e] = edit[e]
               /\ tasks'[edit[e].cluster] = tasks[edit[e].cluster]
    PROVE  PointersInv'
<1>1. \A c \in Cluster : cluster'[c].applied.token_id # 0 =>
         HasBoth(c, cluster[c].applied)' /\ HasBoth(c, cluster[c].desired)'
  BY DEF PointersInv, HasBoth, HasSecret, HasNext
<1>2. worker'.at = "connected" /\ worker'.desired.token_id # 0 =>
         HasBoth(worker.cluster, worker.desired)'
  BY DEF PointersInv, HasBoth, HasSecret, HasNext
<1>3. \A e \in Editor : edit'[e].at = "checked" /\ ~edit'[e].overtaken =>
         /\ tasks'[edit'[e].cluster] = 0
         /\ edit'[e].applied = cluster'[edit'[e].cluster].applied
  BY DEF PointersInv
<1>4. worker'.at # "idle" => worker'.desired = cluster'[worker'.cluster].desired
  BY DEF PointersInv
<1>5. QED
  BY <1>1, <1>2, <1>3, <1>4 DEF PointersInv

\* The credentials of one cluster, as MergeInv has them.
Merged(c) ==
    /\ (\A e \in Editor : ~Writes(e, c)) => CredentialsOf(c) = asked[c]
    /\ \A e \in Editor :
          edit[e].cluster = c /\ edit[e].at = "checked" /\ ~edit[e].overtaken =>
              edit[e].credentials = CredentialsOf(c)
    /\ \A e \in Editor :
          Writes(e, c) /\ ~edit[e].overtaken =>
              /\ CredentialsOf(c) = NewCreds(edit[e].form, edit[e].number, edit[e].credentials)
              /\ (\A f \in Editor : Writes(f, c) => f = e) => edit[e].credentials = asked[c]

\* A step of an edit of another cluster.
LEMMA OtherMerged ==
    ASSUME NEW c \in Cluster, NEW e \in Editor, Merged(c), edit[e].cluster # c, edit'[e].cluster # c,
           \A f \in Editor : f # e =>
               /\ edit'[f].cluster = edit[f].cluster /\ edit'[f].at = edit[f].at
               /\ ~edit'[f].overtaken => edit'[f] = edit[f],
           CredentialsOf(c)' = CredentialsOf(c), asked'[c] = asked[c]
    PROVE  Merged(c)'
<1>1. \A f \in Editor : Writes(f, c)' <=> Writes(f, c)
  BY DEF Writes
<1>2. \A f \in Editor : edit'[f].cluster = c /\ ~edit'[f].overtaken => edit'[f] = edit[f]
  OBVIOUS
<1>3. (\A f \in Editor : ~Writes(f, c)') => CredentialsOf(c)' = asked'[c]
  BY <1>1 DEF Merged
<1>4. \A f \in Editor : edit'[f].cluster = c /\ edit'[f].at = "checked" /\ ~edit'[f].overtaken =>
         edit'[f].credentials = CredentialsOf(c)'
  BY <1>2 DEF Merged
<1>5. ASSUME NEW f \in Editor, Writes(f, c)', ~edit'[f].overtaken
      PROVE  /\ CredentialsOf(c)' = NewCreds(edit'[f].form, edit'[f].number, edit'[f].credentials)
             /\ (\A g \in Editor : Writes(g, c)' => g = f) => edit'[f].credentials = asked'[c]
  <2>1. edit'[f] = edit[f] /\ Writes(f, c)
    BY <1>1, <1>2, <1>5 DEF Writes
  <2>2. QED BY <1>1, <1>5, <2>1 DEF Merged
<1>6. QED
  BY <1>3, <1>4, <1>5 DEF Merged

\* clustersecret.update changes the data of the one row that it finds.
LEMMA WrittenRows ==
    ASSUME KindInv, OwnersInv, NEW e \in Editor, WriteCredentials(e),
           NEW c \in Cluster, c = edit[e].cluster,
           NEW data, data = NewCreds(edit[e].form, edit[e].number, edit[e].credentials)
    PROVE  /\ secret' \in Seq(Stored)
           /\ \A b \in Cluster : CredentialsRows(b)' = CredentialsRows(b)
           /\ \A b \in Cluster, name \in {"token", "ca"} : RowsOf(b, name)' = RowsOf(b, name)
           /\ \A b \in Cluster : \A id : HasSecret(b, id) => HasNext(b, id)
           /\ \A b \in Cluster : b # c => CredentialsOf(b)' = CredentialsOf(b)
           /\ CredentialsRows(c) # {} => CredentialsOf(c)' = data
<1>1. secret' = [i \in DOMAIN secret |-> IF i \in CredentialsRows(c)
                                         THEN [secret[i] EXCEPT !.data = data] ELSE secret[i]]
  BY DEF WriteCredentials
<1>2. data \in Numbers
  <2>1. edit[e].number \in Nat /\ edit[e].credentials \in Numbers
    BY DEF KindInv, Editing
  <2>2. QED BY <2>1 DEF NewCreds, Numbers
<1>3. secret \in Seq(Stored) /\ DOMAIN secret = 1..Len(secret) /\ Len(secret) \in Nat
  BY DEF KindInv
<1>4. \A i \in DOMAIN secret : secret[i] \in Stored
  BY <1>3
<1>5. \A i \in DOMAIN secret :
         /\ [secret[i] EXCEPT !.data = data] \in Stored
         /\ [secret[i] EXCEPT !.data = data].cluster = secret[i].cluster
         /\ [secret[i] EXCEPT !.data = data].name = secret[i].name
         /\ [secret[i] EXCEPT !.data = data].data = data
  BY <1>2, <1>4 DEF Stored
<1>6. DOMAIN secret' = DOMAIN secret
  BY <1>1
<1>7. \A i \in DOMAIN secret : /\ secret'[i] \in Stored
                               /\ secret'[i].cluster = secret[i].cluster
                               /\ secret'[i].name = secret[i].name
                               /\ i \in CredentialsRows(c) => secret'[i].data = data
                               /\ i \notin CredentialsRows(c) => secret'[i] = secret[i]
  BY <1>1, <1>4, <1>5
<1>8. secret' \in Seq(Stored)
  <2>1. secret' = [i \in 1..Len(secret) |-> secret'[i]]
    BY <1>1, <1>3
  <2>2. QED BY <1>3, <1>7, <2>1
<1>9. \A b \in Cluster : CredentialsRows(b)' = CredentialsRows(b)
  BY <1>6, <1>7 DEF CredentialsRows, RowsOf
<1>10. \A b \in Cluster : \A id : HasSecret(b, id) => HasNext(b, id)
  BY <1>6, <1>7 DEF HasSecret, HasNext
<1>11. ASSUME NEW b \in Cluster, b # c PROVE CredentialsOf(b)' = CredentialsOf(b)
  <2>1. \A i \in CredentialsRows(b) : i \in DOMAIN secret /\ i \notin CredentialsRows(c)
    BY <1>11 DEF CredentialsRows, RowsOf
  <2>2. CASE CredentialsRows(b) = {}
    BY <1>9, <2>2 DEF CredentialsOf
  <2>3. CASE CredentialsRows(b) # {}
    <3>1. (CHOOSE i \in CredentialsRows(b) : TRUE) \in CredentialsRows(b)
      BY <2>3
    <3>2. CredentialsOf(b) = secret[CHOOSE i \in CredentialsRows(b) : TRUE].data
      BY <2>3 DEF CredentialsOf
    <3>3. CredentialsOf(b)' = secret'[CHOOSE i \in CredentialsRows(b) : TRUE].data
      <4>1. CredentialsRows(b)' = CredentialsRows(b)
        BY <1>9
      <4>2. QED BY <2>3, <4>1, Zenon DEF CredentialsOf
    <3>4. QED BY <1>7, <2>1, <3>1, <3>2, <3>3
  <2>4. QED BY <2>2, <2>3
<1>12. ASSUME CredentialsRows(c) # {} PROVE CredentialsOf(c)' = data
  <2>1. (CHOOSE i \in CredentialsRows(c) : TRUE) \in CredentialsRows(c)
    BY <1>12
  <2>2. CredentialsOf(c)' = secret'[CHOOSE i \in CredentialsRows(c) : TRUE].data
    <3>1. CredentialsRows(c)' = CredentialsRows(c)
      BY <1>9
    <3>2. QED BY <1>12, <3>1, Zenon DEF CredentialsOf
  <2>3. \A i \in CredentialsRows(c) : i \in DOMAIN secret
    BY DEF CredentialsRows, RowsOf
  <2>4. QED BY <1>7, <2>1, <2>2, <2>3
<1>13. \A b \in Cluster, name \in {"token", "ca"} : RowsOf(b, name)' = RowsOf(b, name)
  BY <1>6, <1>7 DEF RowsOf
<1>14. QED
  BY <1>8, <1>9, <1>10, <1>11, <1>12, <1>13

LEMMA WriteCredentialsKeeps ==
    ASSUME SecretsInv, NEW e \in Editor, WriteCredentials(e)
    PROVE  SecretsInv'
<1>0. KindInv /\ OwnersInv
  BY DEF SecretsInv
<1>1. edit[e].at = "checked" /\ edit[e].cluster \in Cluster /\ cluster[edit[e].cluster].type # "none"
  BY <1>0 DEF WriteCredentials, OwnersInv, Placed
<1> SUFFICES ASSUME NEW c \in Cluster, c = edit[e].cluster,
                    NEW data, data = NewCreds(edit[e].form, edit[e].number, edit[e].credentials)
             PROVE  SecretsInv'
  BY <1>1
<1> DEFINE after == [edit[e] EXCEPT !.at = "written"]
<1>2. /\ edit' = IF CredentialsRows(c) = {} THEN [edit EXCEPT ![e] = after] ELSE Overtaking(e, after)
      /\ excused' = (excused \/ (CredentialsRows(c) # {} /\ edit[e].overtaken))
      /\ Reaches(edit[e].form, "edit") = "user"
      /\ UNCHANGED <<cluster, tasks, worker, calls, asked>>
  BY <1>0 DEF WriteCredentials, KindInv
<1>3. /\ after \in Editing /\ after.at = "written" /\ after.cluster = c
      /\ after.form = edit[e].form /\ after.number = edit[e].number
      /\ after.credentials = edit[e].credentials /\ after.overtaken = edit[e].overtaken
  BY <1>0 DEF KindInv, Editing
<1> HIDE DEF after
<1>4. /\ edit' \in [Editor -> Editing]
      /\ edit'[e] = after
      /\ \A f \in Editor : f # e =>
            /\ edit'[f].cluster = edit[f].cluster /\ edit'[f].at = edit[f].at
            /\ edit'[f].form = edit[f].form
            /\ ~edit'[f].overtaken => edit'[f] = edit[f]
            /\ ~edit'[f].overtaken /\ CredentialsRows(c) # {} => edit[f].cluster # c
  <2>1. CASE CredentialsRows(c) = {}
    BY <1>0, <1>2, <1>3, <2>1 DEF KindInv
  <2>2. CASE CredentialsRows(c) # {}
    BY <1>0, <1>2, <1>3, <2>2, Overtaken
  <2>3. QED BY <2>1, <2>2
<1>5. /\ secret' \in Seq(Stored)
      /\ \A b \in Cluster : CredentialsRows(b)' = CredentialsRows(b)
      /\ \A b \in Cluster : \A id : HasSecret(b, id) => HasNext(b, id)
      /\ \A b \in Cluster : b # c => CredentialsOf(b)' = CredentialsOf(b)
      /\ CredentialsRows(c) # {} => CredentialsOf(c)' = data
  BY <1>0, WrittenRows
<1>6. KindInv'
  <2>1. excused' \in BOOLEAN
    BY <1>2
  <2>2. QED BY <1>0, <1>2, <1>4, <1>5, <2>1 DEF KindInv
<1>7. OwnersInv'
  <2>1. \A f \in Editor : f # e => Placed(f)'
    BY <1>0, <1>2, <1>4 DEF OwnersInv, Placed
  <2>2. Placed(e)'
    BY <1>1, <1>2, <1>3, <1>4 DEF Placed
  <2>3. QED BY <1>0, <1>2, <1>5, <2>1, <2>2 DEF OwnersInv
<1>8. ASSUME ~excused' PROVE PointersInv' /\ MergeInv'
  <2>1. PointersInv /\ MergeInv /\ (CredentialsRows(c) # {} => ~edit[e].overtaken)
    BY <1>0, <1>2, <1>8 DEF SecretsInv, KindInv
  <2>2. PointersInv'
    <3>1. \A f \in Editor : edit'[f].at = "checked" /\ ~edit'[f].overtaken =>
             edit'[f] = edit[f] /\ tasks'[edit[f].cluster] = tasks[edit[f].cluster]
      BY <1>2, <1>3, <1>4
    <3>2. worker.at # "idle" => worker.cluster \in Cluster
      BY <1>0 DEF OwnersInv
    <3>3. QED BY <1>2, <1>5, <2>1, <3>1, <3>2, PointersKeep
  <2>3. ASSUME NEW b \in Cluster, cluster'[b].type = "user" PROVE Merged(b)'
    <3>1. Merged(b)
      BY <1>2, <2>1, <2>3 DEF MergeInv, Merged
    <3>2. CASE b # c
      BY <1>2, <1>3, <1>4, <1>5, <3>1, <3>2, OtherMerged
    <3>3. CASE b = c
      <4>1. CredentialsRows(c) # {}
        BY <1>0, <1>2, <2>3, <3>3 DEF OwnersInv
      <4>2. CredentialsOf(c)' = data /\ ~edit[e].overtaken /\ asked' = asked
        BY <1>2, <1>5, <2>1, <4>1
      <4>3. \A f \in Editor : f # e => (Writes(f, c)' <=> Writes(f, c))
        BY <1>4 DEF Writes
      <4>4. ~Writes(e, c) /\ Writes(e, c)'
        BY <1>1, <1>3, <1>4 DEF Writes
      <4>5. \A f \in Editor : edit'[f].cluster = c /\ ~edit'[f].overtaken => f = e
        BY <1>4, <4>1
      <4>6. edit[e].credentials = CredentialsOf(c)
        BY <1>1, <3>1, <3>3, <4>2 DEF Merged
      <4>7. (\A f \in Editor : Writes(f, c)' => f = e) => edit[e].credentials = asked[c]
        BY <3>1, <3>3, <4>3, <4>4, <4>6 DEF Merged
      <4>8. (\A f \in Editor : ~Writes(f, c)') => CredentialsOf(c)' = asked'[c]
        BY <4>4
      <4>9. \A f \in Editor : edit'[f].cluster = c /\ edit'[f].at = "checked" /\ ~edit'[f].overtaken =>
               edit'[f].credentials = CredentialsOf(c)'
        BY <1>3, <1>4, <4>5
      <4>10. ASSUME NEW f \in Editor, Writes(f, c)', ~edit'[f].overtaken
             PROVE  /\ CredentialsOf(c)' = NewCreds(edit'[f].form, edit'[f].number, edit'[f].credentials)
                    /\ (\A g \in Editor : Writes(g, c)' => g = f) => edit'[f].credentials = asked'[c]
        <5>1. f = e
          BY <4>5, <4>10 DEF Writes
        <5>2. QED BY <1>3, <1>4, <4>2, <4>7, <5>1
      <4>11. QED BY <3>3, <4>8, <4>9, <4>10 DEF Merged
    <3>4. QED BY <3>2, <3>3
  <2>4. MergeInv'
    BY <2>3 DEF MergeInv, Merged
  <2>5. QED BY <2>2, <2>4
<1>9. QED
  BY <1>6, <1>7, <1>8 DEF SecretsInv

LEMMA UpdateUserKeeps ==
    ASSUME SecretsInv, NEW e \in Editor, UpdateUserPT(e)
    PROVE  SecretsInv'
<1>0. KindInv /\ OwnersInv
  BY DEF SecretsInv
<1>1. edit[e].at = "written" /\ edit[e].cluster \in Cluster /\ cluster[edit[e].cluster].type # "none"
  BY <1>0 DEF UpdateUserPT, OwnersInv, Placed
<1> SUFFICES ASSUME NEW c \in Cluster, c = edit[e].cluster PROVE SecretsInv'
  BY <1>1
<1> DEFINE now == [cluster |-> edit[e].number,
                   user |-> IF "user" \in edit[e].form.gives THEN edit[e].number ELSE asked[c].user]
<1>2. /\ "cluster" \in edit[e].form.gives
      /\ tasks' = [tasks EXCEPT ![c] = @ + 1]
      /\ edit' = Overtaking(e, NoEdit)
      /\ excused' = (excused \/ edit[e].overtaken)
      /\ UNCHANGED <<cluster, secret, worker, calls>>
      /\ cluster[c].type # "user" => asked' = asked
  BY DEF UpdateUserPT
<1>3. now \in Numbers
  BY <1>0 DEF KindInv, Editing, Numbers
<1>4. asked' \in [Cluster -> Numbers]
      /\ (cluster[c].type = "user" => asked'[c] = now)
      /\ \A b \in Cluster : b # c => asked'[b] = asked[b]
  <2>1. CASE cluster[c].type = "user"
    <3>1. asked' = [asked EXCEPT ![c] = now]
      BY <1>0, <2>1 DEF UpdateUserPT, KindInv
    <3> HIDE DEF now
    <3>2. QED BY <1>0, <1>3, <3>1 DEF KindInv
  <2>2. CASE cluster[c].type # "user"
    BY <1>0, <1>2, <2>2 DEF KindInv
  <2>3. QED BY <2>1, <2>2
<1>5. /\ edit' \in [Editor -> Editing]
      /\ edit'[e] = NoEdit
      /\ \A f \in Editor : f # e =>
            /\ edit'[f].cluster = edit[f].cluster /\ edit'[f].at = edit[f].at
            /\ edit'[f].form = edit[f].form
            /\ ~edit'[f].overtaken => edit'[f] = edit[f] /\ edit[f].cluster # c
  BY <1>0, <1>2, NoEditType, Overtaken
<1>6. \A b : CredentialsRows(b)' = CredentialsRows(b) /\ CredentialsOf(b)' = CredentialsOf(b)
  BY <1>2 DEF CredentialsRows, RowsOf, CredentialsOf
<1>7. /\ tasks' \in [Cluster -> Nat] /\ tasks'[c] > 0
      /\ \A b \in Cluster : b # c => tasks'[b] = tasks[b]
  BY <1>0, <1>2 DEF KindInv
<1>8. KindInv'
  <2>1. excused' \in BOOLEAN
    BY <1>2
  <2>2. QED BY <1>0, <1>2, <1>4, <1>5, <1>7, <2>1 DEF KindInv
<1>9. OwnersInv'
  <2>1. \A f \in Editor : f # e => Placed(f)'
    BY <1>0, <1>2, <1>5 DEF OwnersInv, Placed
  <2>2. Placed(e)'
    BY <1>5, NoEditType DEF Placed
  <2>3. worker'.at # "idle" => worker'.cluster \in Cluster /\ tasks'[worker'.cluster] > 0
    BY <1>0, <1>2, <1>7 DEF OwnersInv
  <2>4. \A b \in Cluster : cluster[b].type # "user" => asked'[b] = NoCredentials
    BY <1>0, <1>2, <1>4 DEF OwnersInv
  <2>5. QED BY <1>0, <1>1, <1>2, <1>6, <1>7, <2>1, <2>2, <2>3, <2>4 DEF OwnersInv
<1>10. ASSUME ~excused' PROVE PointersInv' /\ MergeInv'
  <2>1. PointersInv /\ MergeInv /\ ~edit[e].overtaken
    BY <1>0, <1>2, <1>10 DEF SecretsInv, KindInv
  <2>2. PointersInv'
    <3>1. ASSUME NEW f \in Editor, edit'[f].at = "checked", ~edit'[f].overtaken
          PROVE  edit'[f] = edit[f] /\ tasks'[edit[f].cluster] = tasks[edit[f].cluster]
      <4>1. f # e
        BY <1>5, <3>1, NoEditType
      <4>2. edit'[f] = edit[f] /\ edit[f].cluster # c /\ edit[f].cluster \in Cluster
        BY <1>0, <1>5, <3>1, <4>1 DEF OwnersInv, Placed
      <4>3. QED BY <1>7, <4>2
    <3>2. worker.at # "idle" => worker.cluster \in Cluster
      BY <1>0 DEF OwnersInv
    <3>3. \A b \in Cluster : \A id : HasSecret(b, id) => HasNext(b, id)
      BY <1>2 DEF HasSecret, HasNext
    <3>4. QED BY <1>2, <2>1, <3>1, <3>2, <3>3, PointersKeep
  <2>3. ASSUME NEW b \in Cluster, cluster'[b].type = "user" PROVE Merged(b)'
    <3>1. Merged(b)
      BY <1>2, <2>1, <2>3 DEF MergeInv, Merged
    <3>2. edit'[e].cluster # b /\ edit'[e].at = "none"
      BY <1>5, NoEditType, SecretsAssumption
    <3>3. CASE b # c
      BY <1>4, <1>5, <1>6, <3>1, <3>2, <3>3, OtherMerged
    <3>4. CASE b = c
      <4>1. \A f \in Editor : f # e => (Writes(f, c)' <=> Writes(f, c))
        BY <1>5 DEF Writes
      <4>2. \A f \in Editor : edit'[f].cluster = c => edit'[f].overtaken
        BY <1>5, <3>2, <3>4
      <4>3. Writes(e, c)
        BY <1>1 DEF Writes
      <4>4. CredentialsOf(c) = NewCreds(edit[e].form, edit[e].number, edit[e].credentials)
        BY <2>1, <3>1, <3>4, <4>3 DEF Merged
      <4>5. ASSUME \A f \in Editor : ~Writes(f, c)' PROVE CredentialsOf(c)' = asked'[c]
        <5>1. edit[e].credentials = asked[c]
          BY <2>1, <3>1, <3>4, <4>1, <4>3, <4>5 DEF Merged
        <5>2. asked'[c] = now
          BY <1>2, <1>4, <2>3, <3>4
        <5>3. QED BY <1>2, <1>6, <4>4, <5>1, <5>2 DEF NewCreds
      <4>6. QED BY <3>4, <4>2, <4>5 DEF Merged, Writes
    <3>5. QED BY <3>3, <3>4
  <2>4. MergeInv'
    BY <2>3 DEF MergeInv, Merged
  <2>5. QED BY <2>2, <2>4
<1>11. QED
  BY <1>8, <1>9, <1>10 DEF SecretsInv

\* Edits that are dropped: one that fails, or all of them, at a restart.  The
\* credentials that a dropped edit has written are excused.
LEMMA DroppedKeep ==
    ASSUME SecretsInv, UNCHANGED <<cluster, secret, tasks, asked>>, calls' \in Nat,
           worker' \in {worker, IdleWorker}, excused' \in BOOLEAN,
           edit' \in [Editor -> Editing],
           \A e \in Editor : edit'[e] \in {edit[e], NoEdit},
           ~excused' => /\ ~excused
                        /\ \A e \in Editor : edit'[e] # edit[e] /\ edit[e].at = "written" =>
                              CredentialsRows(edit[e].cluster) = {}
    PROVE  SecretsInv'
<1>0. KindInv /\ OwnersInv
  BY DEF SecretsInv
<1>1. \A b : CredentialsRows(b)' = CredentialsRows(b) /\ CredentialsOf(b)' = CredentialsOf(b)
  BY DEF CredentialsRows, RowsOf, CredentialsOf
<1>2. IdleWorker \in InHand /\ IdleWorker.at = "idle"
  BY DEF IdleWorker, InHand, NoState, Pointers
<1>3. KindInv'
  BY <1>0, <1>2 DEF KindInv
<1>4. OwnersInv'
  <2>1. \A f \in Editor : Placed(f)'
    BY <1>0, NoEditType DEF OwnersInv, Placed
  <2>2. worker'.at # "idle" => worker'.cluster \in Cluster /\ tasks'[worker'.cluster] > 0
    BY <1>0, <1>2 DEF OwnersInv
  <2>3. QED BY <1>0, <1>1, <2>1, <2>2 DEF OwnersInv
<1>5. ASSUME ~excused' PROVE PointersInv' /\ MergeInv'
  <2>1. PointersInv /\ MergeInv
    BY <1>5 DEF SecretsInv
  <2>2. PointersInv'
    BY <1>2, <2>1, NoEditType DEF PointersInv, HasBoth, HasSecret
  <2>3. ASSUME NEW b \in Cluster, cluster'[b].type = "user" PROVE Merged(b)'
    <3>1. Merged(b)
      BY <2>1, <2>3 DEF MergeInv, Merged
    <3>2. CredentialsRows(b) # {}
      BY <1>0, <2>3 DEF OwnersInv
    <3>3. b # NoCluster
      BY SecretsAssumption
    <3>4. \A f \in Editor : edit'[f].cluster = b => edit'[f] = edit[f]
      BY <3>3, NoEditType
    <3>5. \A f \in Editor : Writes(f, b)' <=> Writes(f, b)
      <4> SUFFICES ASSUME NEW f \in Editor PROVE Writes(f, b)' <=> Writes(f, b)
        OBVIOUS
      <4>1. CASE edit'[f] = edit[f]
        BY <4>1 DEF Writes
      <4>2. CASE edit'[f] # edit[f]
        BY <1>5, <3>2, <4>2, NoEditType DEF Writes
      <4>3. QED BY <4>1, <4>2
    <3>6. (\A f \in Editor : ~Writes(f, b)') => CredentialsOf(b)' = asked'[b]
      BY <1>1, <3>1, <3>5 DEF Merged
    <3>7. \A f \in Editor : edit'[f].cluster = b /\ edit'[f].at = "checked" /\ ~edit'[f].overtaken =>
             edit'[f].credentials = CredentialsOf(b)'
      BY <1>1, <3>1, <3>4 DEF Merged
    <3>8. ASSUME NEW f \in Editor, Writes(f, b)', ~edit'[f].overtaken
          PROVE  /\ CredentialsOf(b)' = NewCreds(edit'[f].form, edit'[f].number, edit'[f].credentials)
                 /\ (\A g \in Editor : Writes(g, b)' => g = f) => edit'[f].credentials = asked'[b]
      <4>1. edit'[f] = edit[f] /\ Writes(f, b)
        BY <3>4, <3>5, <3>8 DEF Writes
      <4>2. QED BY <1>1, <3>1, <3>5, <3>8, <4>1 DEF Merged
    <3>9. QED BY <3>6, <3>7, <3>8 DEF Merged
  <2>4. MergeInv'
    BY <2>3 DEF MergeInv, Merged
  <2>5. QED BY <2>2, <2>4
<1>6. QED
  BY <1>3, <1>4, <1>5 DEF SecretsInv

LEMMA EditFailsKeeps ==
    ASSUME SecretsInv, NEW e \in Editor, EditFails(e)
    PROVE  SecretsInv'
<1>0. KindInv
  BY DEF SecretsInv
<1>1. edit' \in [Editor -> Editing] /\ \A f \in Editor : edit'[f] \in {edit[f], NoEdit}
  BY <1>0, NoEditType DEF EditFails, KindInv
<1>2. ~excused' => ~excused /\ (edit[e].at = "written" => CredentialsRows(edit[e].cluster) = {})
  BY <1>0 DEF EditFails, KindInv
<1>3. \A f \in Editor : f # e => edit'[f] = edit[f]
  BY <1>0 DEF EditFails, KindInv
<1>4. /\ UNCHANGED <<cluster, secret, tasks, asked, worker>>
      /\ calls' \in Nat /\ excused' \in BOOLEAN
  BY <1>0 DEF EditFails, KindInv
<1>5. QED
  BY <1>1, <1>2, <1>3, <1>4, DroppedKeep

LEMMA RestartKeeps == ASSUME SecretsInv, Restart PROVE SecretsInv'
<1>0. KindInv
  BY DEF SecretsInv
<1>1. edit' \in [Editor -> Editing] /\ \A f \in Editor : edit'[f] \in {edit[f], NoEdit}
  BY NoEditType DEF Restart
<1>2. ~excused' => /\ ~excused
                   /\ \A f \in Editor : edit[f].at = "written" => CredentialsRows(edit[f].cluster) = {}
  BY <1>0 DEF Restart, KindInv
<1>3. /\ UNCHANGED <<cluster, secret, tasks, asked>>
      /\ calls' \in Nat /\ excused' \in BOOLEAN /\ worker' = IdleWorker
  BY <1>0 DEF Restart, KindInv
<1>4. QED
  BY <1>1, <1>2, <1>3, DroppedKeep

\* The task processor's steps.
LEMMA WorkerKeeps ==
    ASSUME SecretsInv,
           (\E c \in Cluster : TakeTask(c)) \/ Connect \/ TaskFails \/ SaveAppliedState
    PROVE  SecretsInv'
<1>0. KindInv /\ OwnersInv
  BY DEF SecretsInv
<1>1. UNCHANGED <<secret, edit, calls, asked, excused>>
  BY DEF TakeTask, Connect, TaskFails, SaveAppliedState
<1>2. \A b : CredentialsRows(b)' = CredentialsRows(b) /\ CredentialsOf(b)' = CredentialsOf(b)
  BY <1>1 DEF CredentialsRows, RowsOf, CredentialsOf
<1>3. IdleWorker \in InHand /\ IdleWorker.at = "idle"
  BY DEF IdleWorker, InHand, NoState, Pointers
<1>4. ASSUME MergeInv, \A b \in Cluster : cluster'[b].type = cluster[b].type PROVE MergeInv'
  BY <1>1, <1>2, <1>4, MergeKeeps
<1>5. ASSUME NEW c \in Cluster, TakeTask(c) PROVE SecretsInv'
  <2>1. /\ worker' = [at |-> "taken", cluster |-> c, desired |-> cluster[c].desired]
        /\ tasks[c] > 0 /\ UNCHANGED <<cluster, tasks>>
    BY <1>5 DEF TakeTask
  <2>2. worker' \in InHand
    BY <1>0, <2>1 DEF KindInv, Record, InHand
  <2>3. KindInv' /\ OwnersInv'
    BY <1>0, <1>1, <1>2, <2>1, <2>2 DEF KindInv, OwnersInv, Placed
  <2>4. PointersInv => PointersInv'
    BY <1>1, <2>1 DEF PointersInv, HasBoth, HasSecret
  <2>5. QED BY <1>1, <1>4, <2>1, <2>3, <2>4 DEF SecretsInv
<1>6. CASE Connect
  <2>1. /\ worker' = [worker EXCEPT !.at = "connected"]
        /\ worker.at = "taken" /\ UNCHANGED <<cluster, tasks>>
        /\ GetKubectlForCluster(worker.cluster, worker.desired)
    BY <1>6 DEF Connect, Reachable
  <2>2. /\ worker' \in InHand /\ worker'.at = "connected"
        /\ worker'.cluster = worker.cluster /\ worker'.desired = worker.desired
    BY <1>0, <2>1 DEF KindInv, InHand
  <2>3. KindInv' /\ OwnersInv'
    BY <1>0, <1>1, <1>2, <2>1, <2>2 DEF KindInv, OwnersInv, Placed
  <2>4. ASSUME PointersInv PROVE PointersInv'
    <3>1. worker.cluster \in Cluster /\ worker.desired = cluster[worker.cluster].desired
      BY <1>0, <2>1, <2>4 DEF OwnersInv, PointersInv
    <3>2. CredentialsRows(worker.cluster) # {} => worker.desired.token_id = 0
      BY <1>0, <3>1 DEF OwnersInv, NoState
    <3>3. worker.desired.token_id # 0 => HasBoth(worker.cluster, worker.desired)
      BY <2>1, <3>2 DEF GetKubectlForCluster, HasBoth
    <3>4. QED BY <1>1, <2>1, <2>2, <2>4, <3>1, <3>3 DEF PointersInv, HasBoth, HasSecret
  <2>5. QED BY <1>1, <1>4, <2>1, <2>3, <2>4 DEF SecretsInv
<1>7. ASSUME TaskFails \/ SaveAppliedState PROVE SecretsInv'
  <2>1. worker.cluster \in Cluster /\ tasks[worker.cluster] > 0 /\ tasks[worker.cluster] \in Nat
    BY <1>0, <1>7 DEF TaskFails, SaveAppliedState, OwnersInv, KindInv
  <2> SUFFICES ASSUME NEW c \in Cluster, c = worker.cluster PROVE SecretsInv'
    BY <2>1
  <2>2. worker' = IdleWorker /\ tasks' = [tasks EXCEPT ![c] = @ - 1]
    BY <1>7 DEF TaskFails, SaveAppliedState, Released
  <2>3. /\ tasks' \in [Cluster -> Nat]
        /\ \A b \in Cluster : tasks[b] = 0 => b # c /\ tasks'[b] = 0
    BY <1>0, <2>1, <2>2 DEF KindInv
  <2>4. \/ cluster' = cluster
        \/ /\ worker.at = "connected"
           /\ cluster' = [cluster EXCEPT ![c].applied = cluster[c].desired]
    BY <1>7 DEF TaskFails, SaveAppliedState
  <2>5. /\ cluster' \in [Cluster -> Record]
        /\ \A b \in Cluster : /\ cluster'[b].type = cluster[b].type
                              /\ cluster'[b].desired = cluster[b].desired
                              /\ b # c => cluster'[b] = cluster[b]
        /\ cluster'[c].applied = cluster[c].applied \/
              (worker.at = "connected" /\ cluster'[c].applied = cluster[c].desired)
    <3>1. cluster \in [Cluster -> Record] /\ cluster[c] \in Record /\ cluster[c].desired \in Pointers
      BY <1>0 DEF KindInv, Record
    <3>2. CASE cluster' = cluster
      BY <3>1, <3>2
    <3>3. CASE worker.at = "connected" /\ cluster' = [cluster EXCEPT ![c].applied = cluster[c].desired]
      <4> DEFINE saved == [cluster[c] EXCEPT !.applied = cluster[c].desired]
      <4>1. /\ saved \in Record /\ saved.type = cluster[c].type
            /\ saved.desired = cluster[c].desired /\ saved.applied = cluster[c].desired
        BY <3>1 DEF Record
      <4>2. cluster' = [cluster EXCEPT ![c] = saved]
        BY <3>3
      <4> HIDE DEF saved
      <4>3. QED BY <3>1, <3>3, <4>1, <4>2
    <3>4. QED BY <2>4, <3>2, <3>3
  <2>6. KindInv'
    BY <1>0, <1>1, <1>3, <2>2, <2>3, <2>5 DEF KindInv
  <2>7. OwnersInv'
    <3>1. \A f \in Editor : Placed(f)'
      BY <1>0, <1>1, <2>5 DEF OwnersInv, Placed
    <3>2. \A b \in Cluster : cluster'[b].type \in {"none", "user"} =>
             cluster'[b].desired = NoState /\ cluster'[b].applied = NoState
      BY <1>0, <2>5 DEF OwnersInv
    <3>3. QED BY <1>0, <1>1, <1>2, <1>3, <2>2, <2>3, <2>5, <3>1, <3>2 DEF OwnersInv
  <2>8. ASSUME PointersInv PROVE PointersInv'
    <3>1. \A b \in Cluster : cluster'[b].applied.token_id # 0 =>
             HasBoth(b, cluster[b].applied)' /\ HasBoth(b, cluster[b].desired)'
      <4> SUFFICES ASSUME NEW b \in Cluster, cluster'[b].applied.token_id # 0
                   PROVE  HasBoth(b, cluster'[b].applied) /\ HasBoth(b, cluster'[b].desired)
        BY <1>1 DEF HasBoth, HasSecret
      <4>1. CASE cluster'[b].applied = cluster[b].applied
        BY <2>5, <2>8, <4>1 DEF PointersInv
      <4>2. CASE cluster'[b].applied # cluster[b].applied
        <5>1. b = c /\ worker.at = "connected" /\ cluster'[c].applied = cluster[c].desired
          BY <2>5, <4>2
        <5>2. worker.desired = cluster[c].desired /\ worker.desired.token_id # 0
          BY <2>8, <5>1 DEF PointersInv
        <5>3. HasBoth(c, cluster[c].desired)
          BY <2>8, <5>1, <5>2 DEF PointersInv
        <5>4. QED BY <2>5, <5>1, <5>3
      <4>3. QED BY <4>1, <4>2
    <3>2. \A e \in Editor : edit'[e].at = "checked" /\ ~edit'[e].overtaken =>
             /\ tasks'[edit'[e].cluster] = 0
             /\ edit'[e].applied = cluster'[edit'[e].cluster].applied
      <4> SUFFICES ASSUME NEW e \in Editor, edit[e].at = "checked", ~edit[e].overtaken
                   PROVE  /\ tasks'[edit[e].cluster] = 0
                          /\ edit[e].applied = cluster'[edit[e].cluster].applied
        BY <1>1
      <4>1. edit[e].cluster \in Cluster /\ tasks[edit[e].cluster] = 0
        BY <1>0, <2>8 DEF OwnersInv, Placed, PointersInv
      <4>2. QED BY <2>3, <2>5, <2>8, <4>1 DEF PointersInv
    <3>3. QED BY <1>3, <2>2, <3>1, <3>2 DEF PointersInv
  <2>9. QED BY <1>1, <1>4, <2>5, <2>6, <2>7, <2>8 DEF SecretsInv
<1>8. QED
  BY <1>5, <1>6, <1>7

\* A step of another part leaves the clusters alone, or counts a call.
LEMMA OthersKeep ==
    ASSUME SecretsInv, UNCHANGED <<cluster, secret, tasks, worker, edit, asked, excused>>,
           calls' \in Nat
    PROVE  SecretsInv'
<1>1. KindInv'
  BY DEF SecretsInv, KindInv
<1>2. OwnersInv'
  BY DEF SecretsInv, OwnersInv, Placed, HasSecret, HasBoth, CredentialsRows, RowsOf
<1>3. ~excused' => PointersInv'
  BY DEF SecretsInv, PointersInv, Placed, HasSecret, HasBoth
<1>4. ~excused' => MergeInv'
  <2>1. \A c \in Cluster : CredentialsOf(c)' = CredentialsOf(c)
    BY DEF CredentialsOf, CredentialsRows, RowsOf
  <2>2. \A e \in Editor, c \in Cluster : Writes(e, c)' = Writes(e, c)
    BY DEF Writes
  <2>3. QED
    BY <2>1, <2>2 DEF SecretsInv, MergeInv
<1>5. QED
  BY <1>1, <1>2, <1>3, <1>4 DEF SecretsInv

LEMMA SecretsNextKeeps == ASSUME SecretsInv, SecretsNext PROVE SecretsInv'
  BY CreateKeeps, CreateUserKeeps, CheckEditKeeps, UpdateKeeps, WriteCredentialsKeeps,
     UpdateUserKeeps, EditFailsKeeps, WorkerKeeps DEF SecretsNext

LEMMA NextKeeps == ASSUME SecretsInv, [Next]_vars PROVE SecretsInv'
<1>0. calls \in Nat
  BY DEF SecretsInv, KindInv
<1>1. CASE UNCHANGED vars
  BY <1>0, <1>1, OthersKeep DEF vars, clusterVars
<1>2. ASSUME NEW q \in Request, NEW c \in Cluster, NEW label \in Label, NEW op \in Op,
             Begin(q, c, label, op)
      PROVE  SecretsInv'
  BY <1>0, <1>2, OthersKeep DEF Begin
<1>3. ASSUME NEW q \in Request, Step(q) PROVE SecretsInv'
  <2>1. UNCHANGED clusterVars
    BY <1>3 DEF Step, Lookup, GetItemConnection, Keep, Send, Authorise, GetPods, PortForward,
                Grpcurl, StopForward, Throw
  <2>2. QED BY <1>0, <2>1, OthersKeep DEF clusterVars
<1>4. ASSUME NEW k \in Key, Timeout(k) PROVE SecretsInv'
  BY <1>0, <1>4, OthersKeep DEF Timeout, clusterVars
<1>5. ASSUME NEW c \in Cluster, PodStarts(c) PROVE SecretsInv'
  BY <1>0, <1>5, OthersKeep DEF PodStarts, clusterVars
<1>6. QED
  BY <1>1, <1>2, <1>3, <1>4, <1>5, SecretsNextKeeps, RestartKeeps DEF Next

-----------------------------------------------------------------------------
(* The bounds of the variables. *)

Editors(c) == {e \in Editor : edit[e].at # "none" /\ edit[e].cluster = c}

\* Each task of a cluster is from its creation or from an edit, and each edit,
\* in progress or not, is a call.
RoomInv ==
    \A c \in Cluster :
        /\ IsFiniteSet(Editors(c))
        /\ tasks[c] + Cardinality(Editors(c)) <= calls + (IF cluster[c].type = "none" THEN 0 ELSE 1)

\* A pointer is to a row that there is or was copied from one, a number is one
\* of a call.
BoundsInv ==
    /\ calls <= MaxCalls /\ Len(secret) <= MaxSecrets
    /\ \A c \in Cluster : cluster[c].desired \in DesiredState /\ cluster[c].applied \in DesiredState
    /\ \A i \in DOMAIN secret : secret[i].data \in Credentials
    /\ worker.desired \in DesiredState
    /\ \A e \in Editor :
          /\ edit[e].form \in EditForm \cup {NoForm} /\ edit[e].number <= MaxCalls
          /\ edit[e].applied \in DesiredState /\ edit[e].credentials \in Credentials
    /\ \A c \in Cluster : asked[c] \in Credentials

\* A request that has something left to do is for a cluster, by a label.
PoolInv ==
    /\ cachedConnections \in [Key -> Connection]
    /\ timers \in [Key -> 0..MaxTimers]
    /\ pod \in [Cluster -> 0..MaxPods]
    /\ request \in [Request -> [cluster : Cluster \cup {NoCluster}, label : Label \cup {"none"},
                                todo : Todo, to : Connection]]
    /\ \A q \in Request : request[q].todo # <<>> =>
          request[q].cluster \in Cluster /\ request[q].label \in Label
    /\ forward \in [Request -> BOOLEAN]

-----------------------------------------------------------------------------
LEMMA RoomStays ==
    ASSUME RoomInv, KindInv, KindInv', calls' >= calls,
           \A c \in Cluster : /\ Editors(c)' = Editors(c) /\ tasks'[c] <= tasks[c]
                              /\ cluster'[c].type = "none" => cluster[c].type = "none"
    PROVE  RoomInv'
<1> SUFFICES ASSUME NEW c \in Cluster
             PROVE  /\ IsFiniteSet(Editors(c)')
                    /\ tasks'[c] + Cardinality(Editors(c)')
                          <= calls' + (IF cluster'[c].type = "none" THEN 0 ELSE 1)
  BY DEF RoomInv
<1>1. /\ IsFiniteSet(Editors(c)) /\ Cardinality(Editors(c)) \in Nat
      /\ tasks[c] + Cardinality(Editors(c)) <= calls + (IF cluster[c].type = "none" THEN 0 ELSE 1)
  BY FS_CardinalityType DEF RoomInv
<1>2. /\ tasks[c] \in Nat /\ tasks'[c] \in Nat /\ calls \in Nat /\ calls' \in Nat
      /\ Editors(c)' = Editors(c) /\ tasks'[c] <= tasks[c]
      /\ cluster'[c].type = "none" => cluster[c].type = "none"
  BY DEF KindInv
<1> DEFINE n == Cardinality(Editors(c))
<1>3. n \in Nat /\ n = Cardinality(Editors(c)')
  BY <1>1, <1>2
<1> HIDE DEF n
<1>4. tasks'[c] + n <= calls' + (IF cluster'[c].type = "none" THEN 0 ELSE 1)
  BY <1>1, <1>2, <1>3 DEF n
<1>5. QED
  BY <1>1, <1>2, <1>3, <1>4

\* An editor is through with an edit, which leaves a task at most.
LEMMA EditorLeaves ==
    ASSUME RoomInv, KindInv, KindInv', NEW e \in Editor, edit'[e].at = "none", edit[e].at # "none",
           \A f \in Editor : f # e => edit'[f].at = edit[f].at /\ edit'[f].cluster = edit[f].cluster,
           \A c \in Cluster : tasks'[c] <= tasks[c] + (IF c = edit[e].cluster THEN 1 ELSE 0),
           \A c \in Cluster : cluster'[c].type = "none" => cluster[c].type = "none",
           calls' = calls
    PROVE  RoomInv'
<1> SUFFICES ASSUME NEW c \in Cluster
             PROVE  /\ IsFiniteSet(Editors(c)')
                    /\ tasks'[c] + Cardinality(Editors(c)')
                          <= calls' + (IF cluster'[c].type = "none" THEN 0 ELSE 1)
  BY DEF RoomInv
<1>1. /\ IsFiniteSet(Editors(c)) /\ Cardinality(Editors(c)) \in Nat
      /\ tasks[c] + Cardinality(Editors(c)) <= calls + (IF cluster[c].type = "none" THEN 0 ELSE 1)
  BY FS_CardinalityType DEF RoomInv
<1>2. tasks[c] \in Nat /\ tasks'[c] \in Nat /\ calls \in Nat
  BY DEF KindInv
<1>3. Editors(c)' = Editors(c) \ {e}
  BY DEF Editors
<1>4. /\ IsFiniteSet(Editors(c) \ {e})
      /\ Cardinality(Editors(c) \ {e})
            = IF e \in Editors(c) THEN Cardinality(Editors(c)) - 1 ELSE Cardinality(Editors(c))
  BY <1>1, FS_RemoveElement
<1>5. c = edit[e].cluster <=> e \in Editors(c)
  BY DEF Editors
<1> DEFINE n == Cardinality(Editors(c))
           m == Cardinality(Editors(c)')
<1>6. m = IF e \in Editors(c) THEN n - 1 ELSE n
  BY <1>3, <1>4
<1>7. tasks'[c] + m <= calls' + (IF cluster'[c].type = "none" THEN 0 ELSE 1)
  <2>1. n \in Nat /\ tasks[c] + n <= calls + (IF cluster[c].type = "none" THEN 0 ELSE 1)
    BY <1>1
  <2> HIDE DEF n, m
  <2>2. QED
    BY <1>2, <1>5, <1>6, <2>1
<1>8. QED
  BY <1>3, <1>4, <1>7

LEMMA RoomStep ==
    ASSUME SecretsInv, SecretsInv', RoomInv, [Next]_vars
    PROVE  RoomInv'
<1>0. KindInv /\ KindInv' /\ OwnersInv /\ OwnersInv'
  BY DEF SecretsInv
<1>1. \A c \in Cluster : tasks[c] \in Nat /\ tasks'[c] \in Nat
  BY <1>0 DEF KindInv
<1>2. calls \in Nat /\ calls' \in Nat
  BY <1>0 DEF KindInv
<1>3. ASSUME edit' = edit, cluster' = cluster, calls' >= calls,
             \A c \in Cluster : tasks'[c] <= tasks[c]
      PROVE  RoomInv'
  BY <1>0, <1>3, RoomStays DEF Editors
<1>4. ASSUME NEW c \in Cluster, NEW form \in AddForm, Create(c, form) \/ CreateUserPT(c, form)
      PROVE  RoomInv'
  <2>1. /\ cluster[c].type = "none" /\ edit' = edit /\ calls' = calls
        /\ tasks' = [tasks EXCEPT ![c] = @ + 1]
        /\ \A b \in Cluster : b # c => cluster'[b] = cluster[b]
    BY <1>0, <1>4 DEF Create, CreateUserPT, KindInv
  <2>2. tasks[c] = 0 /\ tasks'[c] = 1 /\ \A b \in Cluster : b # c => tasks'[b] = tasks[b]
    BY <1>0, <2>1 DEF OwnersInv, KindInv
  <2>3. cluster'[c].type # "none"
    BY <1>0, <2>2 DEF OwnersInv
  <2> SUFFICES ASSUME NEW b \in Cluster
               PROVE  /\ IsFiniteSet(Editors(b)')
                      /\ tasks'[b] + Cardinality(Editors(b)')
                            <= calls' + (IF cluster'[b].type = "none" THEN 0 ELSE 1)
    BY DEF RoomInv
  <2> DEFINE n == Cardinality(Editors(b))
  <2>4. /\ IsFiniteSet(Editors(b)) /\ n \in Nat
        /\ tasks[b] + n <= calls + (IF cluster[b].type = "none" THEN 0 ELSE 1)
    BY FS_CardinalityType DEF RoomInv
  <2>5. Editors(b)' = Editors(b)
    BY <2>1 DEF Editors
  <2>6. Cardinality(Editors(b)') = n
    BY <2>5
  <2> HIDE DEF n
  <2>7. tasks'[b] + n <= calls' + (IF cluster'[b].type = "none" THEN 0 ELSE 1)
    BY <1>1, <1>2, <2>1, <2>2, <2>3, <2>4
  <2>8. QED
    BY <2>4, <2>5, <2>6, <2>7
<1>5. ASSUME NEW e \in Editor, NEW c \in Cluster, NEW form \in EditForm, CheckEdit(e, c, form)
      PROVE  RoomInv'
  <2>1. /\ edit[e].at = "none" /\ edit'[e].at = "checked" /\ edit'[e].cluster = c
        /\ \A f \in Editor : f # e => edit'[f] = edit[f]
        /\ calls' = calls + 1 /\ cluster' = cluster /\ tasks' = tasks
    BY <1>0, <1>5 DEF CheckEdit, KindInv, NoEdit
  <2> SUFFICES ASSUME NEW b \in Cluster
               PROVE  /\ IsFiniteSet(Editors(b)')
                      /\ tasks'[b] + Cardinality(Editors(b)')
                            <= calls' + (IF cluster'[b].type = "none" THEN 0 ELSE 1)
    BY DEF RoomInv
  <2> DEFINE n == Cardinality(Editors(b))
             m == Cardinality(Editors(b)')
  <2>2. /\ IsFiniteSet(Editors(b)) /\ n \in Nat
        /\ tasks[b] + n <= calls + (IF cluster[b].type = "none" THEN 0 ELSE 1)
    BY FS_CardinalityType DEF RoomInv
  <2>3. Editors(b)' = IF b = c THEN Editors(b) \cup {e} ELSE Editors(b)
    BY <2>1 DEF Editors
  <2>4. IsFiniteSet(Editors(b)') /\ (m = n \/ m = n + 1)
    <3>1. CASE b = c
      <4>1. Editors(b)' = Editors(b) \cup {e}
        BY <2>3, <3>1
      <4>2. /\ IsFiniteSet(Editors(b) \cup {e})
            /\ Cardinality(Editors(b) \cup {e}) = IF e \in Editors(b) THEN n ELSE n + 1
        BY <2>2, FS_AddElement
      <4>3. QED
        BY <4>1, <4>2
    <3>2. CASE b # c
      BY <2>2, <2>3, <3>2
    <3>3. QED
      BY <3>1, <3>2
  <2> HIDE DEF n, m
  <2>5. tasks'[b] + m <= calls' + (IF cluster'[b].type = "none" THEN 0 ELSE 1)
    BY <1>1, <1>2, <2>1, <2>2, <2>4
  <2>6. QED
    BY <2>4, <2>5 DEF m
<1>6. ASSUME NEW e \in Editor, Update(e) \/ UpdateUserPT(e)
      PROVE  RoomInv'
  <2>1. /\ edit[e].at # "none" /\ edit' = Overtaking(e, NoEdit) /\ calls' = calls
        /\ tasks' = [tasks EXCEPT ![edit[e].cluster] = @ + 1]
    BY <1>6 DEF Update, UpdateUserPT
  <2>2. \A c \in Cluster : cluster'[c].type = cluster[c].type
    <3>1. ASSUME NEW c, NEW state, cluster' = [cluster EXCEPT ![c].desired = state]
          PROVE  \A b \in Cluster : cluster'[b].type = cluster[b].type
      BY <1>0, <3>1 DEF KindInv, Record
    <3>2. \/ cluster' = cluster
          \/ \E c, state : cluster' = [cluster EXCEPT ![c].desired = state]
      BY <1>6 DEF Update, UpdateUserPT
    <3>3. QED
      BY <3>1, <3>2
  <2>3. \A c \in Cluster : tasks'[c] <= tasks[c] + (IF c = edit[e].cluster THEN 1 ELSE 0)
    BY <1>0, <1>1, <2>1 DEF KindInv
  <2>4. QED
    BY <1>0, <2>1, <2>2, <2>3, EditorLeaves, Overtaken, NoEditType
<1>7. ASSUME NEW e \in Editor, WriteCredentials(e) PROVE RoomInv'
  <2>1. /\ edit[e].at = "checked" /\ UNCHANGED <<cluster, tasks, calls>>
        /\ \/ edit' = [edit EXCEPT ![e].at = "written"]
           \/ edit' = Overtaking(e, [edit[e] EXCEPT !.at = "written"])
    BY <1>7 DEF WriteCredentials
  <2>2. [edit[e] EXCEPT !.at = "written"] \in Editing
    BY ZenonT(60), <1>0 DEF KindInv, Editing
  <2>3. /\ edit'[e].at = "written" /\ edit'[e].cluster = edit[e].cluster
        /\ \A f \in Editor : f # e => edit'[f].at = edit[f].at /\ edit'[f].cluster = edit[f].cluster
    <3>1. CASE edit' = [edit EXCEPT ![e].at = "written"]
      BY <1>0, <3>1 DEF KindInv, Editing
    <3>2. CASE edit' = Overtaking(e, [edit[e] EXCEPT !.at = "written"])
      <4>1. edit'[e] = [edit[e] EXCEPT !.at = "written"]
        BY <1>0, <2>2, <3>2, Overtaken
      <4>2. edit'[e].at = "written" /\ edit'[e].cluster = edit[e].cluster
        BY <1>0, <4>1 DEF KindInv, Editing
      <4>3. QED
        BY <1>0, <2>2, <3>2, <4>2, Overtaken
    <3>3. QED
      BY <2>1, <3>1, <3>2
  <2>4. \A c \in Cluster : Editors(c)' = Editors(c)
    BY <2>1, <2>3 DEF Editors
  <2>5. QED
    BY <1>0, <1>1, <1>2, <2>1, <2>4, RoomStays
<1>8. ASSUME NEW e \in Editor, EditFails(e) PROVE RoomInv'
  <2>1. /\ edit[e] # NoEdit /\ edit' = [edit EXCEPT ![e] = NoEdit]
        /\ UNCHANGED <<cluster, tasks, calls>>
    BY <1>8 DEF EditFails
  <2>2. /\ edit'[e].at = "none"
        /\ \A f \in Editor : f # e => edit'[f].at = edit[f].at /\ edit'[f].cluster = edit[f].cluster
    BY <1>0, <2>1, NoEditType DEF KindInv
  <2>3. CASE edit[e].at # "none"
    BY <1>0, <1>1, <2>1, <2>2, <2>3, EditorLeaves
  <2>4. CASE edit[e].at = "none"
    <3>1. \A c \in Cluster : Editors(c)' = Editors(c)
      BY <2>2, <2>4 DEF Editors
    <3>2. QED
      BY <1>0, <1>1, <1>2, <2>1, <3>1, RoomStays
  <2>5. QED
    BY <2>3, <2>4
<1>9. CASE (\E c \in Cluster : TakeTask(c)) \/ Connect
  <2>1. UNCHANGED <<edit, cluster, calls, tasks>>
    BY <1>9 DEF TakeTask, Connect
  <2>2. QED
    BY <1>1, <1>2, <1>3, <2>1
<1>10. CASE TaskFails \/ SaveAppliedState
  <2>1. /\ tasks' = [tasks EXCEPT ![worker.cluster] = @ - 1] /\ edit' = edit /\ calls' = calls
        /\ worker.at # "idle"
    BY <1>10 DEF TaskFails, SaveAppliedState
  <2>2. \A c \in Cluster : tasks'[c] <= tasks[c]
    BY <1>0, <1>1, <2>1 DEF OwnersInv, KindInv
  <2>3. \A c \in Cluster : cluster'[c].type = cluster[c].type
    <3>1. ASSUME NEW c, NEW state, cluster' = [cluster EXCEPT ![c].applied = state]
          PROVE  \A b \in Cluster : cluster'[b].type = cluster[b].type
      BY <1>0, <3>1 DEF KindInv, Record
    <3>2. \/ cluster' = cluster
          \/ \E c, state : cluster' = [cluster EXCEPT ![c].applied = state]
      BY <1>10 DEF TaskFails, SaveAppliedState
    <3>3. QED
      BY <3>1, <3>2
  <2>4. QED
    BY <1>0, <1>2, <2>1, <2>2, <2>3, RoomStays DEF Editors
<1>11. CASE Restart
  <2>1. /\ calls' = calls + 1 /\ UNCHANGED <<cluster, tasks>>
        /\ \A e \in Editor : edit'[e].at = "none"
    BY <1>11, NoEditType DEF Restart
  <2>2. ASSUME NEW c \in Cluster
        PROVE  /\ IsFiniteSet(Editors(c)')
               /\ tasks'[c] + Cardinality(Editors(c)')
                     <= calls' + (IF cluster'[c].type = "none" THEN 0 ELSE 1)
    <3>1. Editors(c)' = {}
      BY <2>1 DEF Editors
    <3>2. IsFiniteSet(Editors(c)') /\ Cardinality(Editors(c)') = 0
      BY <3>1, FS_EmptySet
    <3> DEFINE n == Cardinality(Editors(c))
    <3>3. n \in Nat /\ tasks[c] + n <= calls + (IF cluster[c].type = "none" THEN 0 ELSE 1)
      BY FS_CardinalityType DEF RoomInv
    <3> HIDE DEF n
    <3>4. QED
      BY <1>1, <1>2, <2>1, <3>2, <3>3
  <2>3. QED
    BY <2>2 DEF RoomInv
<1>12. CASE UNCHANGED vars
  BY <1>1, <1>2, <1>3, <1>12 DEF vars, clusterVars
<1>13. ASSUME NEW q \in Request, NEW c \in Cluster, NEW label \in Label, NEW op \in Op,
              Begin(q, c, label, op)
       PROVE  RoomInv'
  <2>1. UNCHANGED <<edit, cluster, tasks>> /\ calls' = calls + 1
    BY <1>13 DEF Begin
  <2>2. QED
    BY <1>1, <1>2, <1>3, <2>1
<1>14. ASSUME UNCHANGED clusterVars PROVE RoomInv'
  BY <1>1, <1>2, <1>3, <1>14 DEF clusterVars
<1>15. QED
  BY <1>4, <1>5, <1>6, <1>7, <1>8, <1>9, <1>10, <1>11, <1>12, <1>13, <1>14
     DEF Next, SecretsNext, Step, Timeout, PodStarts, Lookup, GetItemConnection, Keep, Send,
         Authorise, GetPods, PortForward, Grpcurl, StopForward, Throw

LEMMA BoundedTypes ==
    ASSUME KindInv, BoundsInv, RoomInv, failed \subseteq Cluster \X {"token", "ca"}
    PROVE  SecretsTypeOK
<1>1. tasks \in [Cluster -> 0..MaxCalls + 1]
  <2>1. ASSUME NEW c \in Cluster PROVE tasks[c] \in 0..MaxCalls + 1
    <3> DEFINE n == Cardinality(Editors(c))
    <3>1. n \in Nat /\ tasks[c] + n <= calls + (IF cluster[c].type = "none" THEN 0 ELSE 1)
      BY FS_CardinalityType DEF RoomInv
    <3>2. tasks[c] \in Nat /\ calls \in Nat /\ calls <= MaxCalls /\ MaxCalls \in Nat
      BY SecretsAssumption DEF KindInv, BoundsInv
    <3> HIDE DEF n
    <3>3. QED
      BY <3>1, <3>2
  <2>2. QED
    BY <2>1 DEF KindInv
<1>2. cluster \in [Cluster -> [type : {"none", "remote", "local", "user"},
                               desired : DesiredState, applied : DesiredState]]
  BY DEF KindInv, BoundsInv, Record
<1>3. secret \in Seq(Row) /\ Len(secret) <= MaxSecrets
  <2>1. secret \in Seq(Stored)
    BY DEF KindInv
  <2>2. \A i \in 1..Len(secret) : secret[i] \in Stored /\ secret[i].data \in Credentials
    BY <2>1 DEF BoundsInv
  <2>3. \A i \in 1..Len(secret) : secret[i] \in Row
    BY <2>2 DEF Stored, Row
  <2>4. QED
    BY <2>1, <2>3 DEF BoundsInv
<1>4. worker \in [at : {"idle", "taken", "connected"}, cluster : Cluster \cup {NoCluster},
                  desired : DesiredState]
  BY DEF KindInv, InHand, BoundsInv
<1>5. edit \in [Editor -> Edit]
  <2>1. ASSUME NEW e \in Editor PROVE edit[e] \in Edit
    <3>1. /\ edit[e] \in Editing /\ edit[e].form \in EditForm \cup {NoForm}
          /\ edit[e].number <= MaxCalls
          /\ edit[e].applied \in DesiredState /\ edit[e].credentials \in Credentials
      BY DEF KindInv, BoundsInv
    <3>2. edit[e].number \in 0..MaxCalls
      BY <3>1, SecretsAssumption DEF Editing
    <3>3. QED
      BY <3>1, <3>2 DEF Editing, Edit
  <2>2. QED
    BY <2>1 DEF KindInv
<1>6. calls \in 0..MaxCalls /\ excused \in BOOLEAN
  BY SecretsAssumption DEF KindInv, BoundsInv
<1>7. asked \in [Cluster -> Credentials]
  BY DEF KindInv, BoundsInv
<1>8. QED
  BY <1>1, <1>2, <1>3, <1>4, <1>5, <1>6, <1>7 DEF SecretsTypeOK

LEMMA NothingIsBounded ==
    /\ NoState \in DesiredState /\ NoCredentials \in Credentials
    /\ NoEdit.form = NoForm /\ NoEdit.number = 0
    /\ NoEdit.applied = NoState /\ NoEdit.credentials = NoCredentials
  BY SecretsAssumption DEF NoState, DesiredState, NoCredentials, Credentials, NoEdit

\* The rows of a form are empty at first, and its desired state points at them.
LEMMA GrownRows ==
    ASSUME KindInv, BoundsInv, NEW c \in Cluster, NEW form, NEW applied \in DesiredState,
           secret' = secret \o ExtractClusterSecrets(c, form),
           Len(secret) + Len(ExtractClusterSecrets(c, form)) <= MaxSecrets
    PROVE  /\ Len(secret') <= MaxSecrets
           /\ \A i \in DOMAIN secret' : secret'[i].data \in Credentials
           /\ CreateClusterSecrets(form, ExtractClusterSecrets(c, form), applied) \in DesiredState
<1> DEFINE rows == ExtractClusterSecrets(c, form)
           state == CreateClusterSecrets(form, rows, applied)
           token == NewRow(c, "token", NoCredentials)
           ca == NewRow(c, "ca", NoCredentials)
<1>1. token \in Row /\ ca \in Row
  BY NothingIsBounded DEF NewRow, Row
<1>2. rows \in Seq(Row)
  <2>1. rows = (IF "token" \in form.gives THEN <<token>> ELSE <<>>)
                  \o (IF "ca" \in form.gives THEN <<ca>> ELSE <<>>)
    BY DEF ExtractClusterSecrets
  <2> HIDE DEF rows, token, ca
  <2>2. /\ (IF "token" \in form.gives THEN <<token>> ELSE <<>>) \in Seq(Row)
        /\ (IF "ca" \in form.gives THEN <<ca>> ELSE <<>>) \in Seq(Row)
    BY <1>1
  <2>3. QED
    BY <2>1, <2>2
<1>3. secret \in Seq(Stored) /\ secret' = secret \o rows /\ Len(secret) + Len(rows) <= MaxSecrets
  BY DEF KindInv
<1>4. rows \in Seq(Stored)
  BY ExtractedRows
<1>5. applied \in Pointers /\ applied.token_id \in 0..MaxSecrets /\ applied.ca_id \in 0..MaxSecrets
  BY SecretsAssumption DEF DesiredState, Pointers
<1>6. /\ state \in Pointers
      /\ state.token_id = applied.token_id \/ HasNext(c, state.token_id)
      /\ state.ca_id = applied.ca_id \/ HasNext(c, state.ca_id)
  BY <1>5, NewState
<1> HIDE DEF rows, state
<1>7. /\ DOMAIN secret' = 1..Len(secret) + Len(rows) /\ DOMAIN secret = 1..Len(secret)
      /\ secret' \in Seq(Stored)
      /\ Len(secret) \in Nat /\ Len(rows) \in Nat
      /\ \A i \in 1..Len(secret) : secret'[i] = secret[i]
      /\ \A i \in 1..Len(rows) : secret'[Len(secret) + i] = rows[i]
  BY <1>3, <1>4, AddedRows
<1>8. Len(secret') = Len(secret) + Len(rows)
  BY <1>3, <1>4
<1>9. ASSUME NEW i \in DOMAIN secret' PROVE secret'[i].data \in Credentials
  <2>1. CASE i \in 1..Len(secret)
    BY <1>7, <2>1 DEF BoundsInv
  <2>2. CASE i \notin 1..Len(secret)
    <3>1. i - Len(secret) \in 1..Len(rows) /\ Len(secret) + (i - Len(secret)) = i
      BY <1>7, <1>9, <2>2
    <3>2. secret'[i] = rows[i - Len(secret)]
      BY <1>7, <3>1
    <3>3. rows[i - Len(secret)] \in Row
      BY <1>2, <3>1
    <3>4. QED
      BY <3>2, <3>3 DEF Row
  <2>3. QED
    BY <2>1, <2>2
<1>10. \A id : HasNext(c, id) => id \in 0..MaxSecrets
  BY <1>3, <1>7, SecretsAssumption DEF HasNext
<1>11. state.token_id \in 0..MaxSecrets /\ state.ca_id \in 0..MaxSecrets
  BY <1>5, <1>6, <1>10
<1>12. state \in DesiredState
  BY <1>6, <1>11 DEF Pointers, DesiredState
<1>13. QED
  BY <1>3, <1>8, <1>9, <1>12 DEF rows, state

LEMMA BoundedCredentials ==
    ASSUME BoundsInv, NEW c PROVE CredentialsOf(c) \in Credentials
<1>1. CASE CredentialsRows(c) = {}
  BY <1>1, NothingIsBounded DEF CredentialsOf
<1>2. CASE CredentialsRows(c) # {}
  <2>1. PICK i : i \in CredentialsRows(c) /\ i = (CHOOSE j \in CredentialsRows(c) : TRUE)
    BY <1>2
  <2>2. i \in DOMAIN secret
    BY <2>1 DEF CredentialsRows, RowsOf
  <2>3. QED
    BY <1>2, <2>1, <2>2 DEF CredentialsOf, BoundsInv
<1>3. QED
  BY <1>1, <1>2

\* An edit that overtakes others leaves what they have read.
LEMMA OvertakenBounds ==
    ASSUME KindInv, BoundsInv, NEW e \in Editor, NEW after \in {NoEdit, [edit[e] EXCEPT !.at = "written"]},
           edit' = Overtaking(e, after)
    PROVE  \A f \in Editor :
              /\ edit'[f].form \in EditForm \cup {NoForm} /\ edit'[f].number <= MaxCalls
              /\ edit'[f].applied \in DesiredState /\ edit'[f].credentials \in Credentials
<1> SUFFICES ASSUME NEW f \in Editor
             PROVE  /\ edit'[f].form \in EditForm \cup {NoForm} /\ edit'[f].number <= MaxCalls
                    /\ edit'[f].applied \in DesiredState /\ edit'[f].credentials \in Credentials
  OBVIOUS
<1>1. edit[f] \in Editing /\ edit[e] \in Editing
  BY DEF KindInv
<1>2. edit'[f] \in {NoEdit, edit[f], [edit[f] EXCEPT !.overtaken = TRUE],
                    [edit[f] EXCEPT !.at = "written"]}
  BY DEF Overtaking
<1>3. CASE edit'[f] = NoEdit
  BY <1>3, NothingIsBounded, SecretsAssumption
<1>4. CASE edit'[f] # NoEdit
  <2>1. /\ edit'[f].form = edit[f].form /\ edit'[f].number = edit[f].number
        /\ edit'[f].applied = edit[f].applied /\ edit'[f].credentials = edit[f].credentials
    BY <1>1, <1>2, <1>4 DEF Editing
  <2>2. QED
    BY <2>1 DEF BoundsInv
<1>5. QED
  BY <1>3, <1>4

LEMMA InitBounds == ASSUME SecretsInit PROVE BoundsInv
  BY NothingIsBounded, SecretsAssumption DEF SecretsInit, BoundsInv, IdleWorker

LEMMA BoundsStep ==
    ASSUME SecretsInv, BoundsInv, [Next]_vars
    PROVE  BoundsInv'
<1>0. KindInv /\ OwnersInv
  BY DEF SecretsInv
<1>1. ASSUME UNCHANGED <<cluster, secret, worker, edit, asked>>, calls' <= MaxCalls
      PROVE  BoundsInv'
  BY <1>1 DEF BoundsInv
<1>2. \A c \in Cluster : cluster[c] \in Record
  BY <1>0 DEF KindInv
<1>3. ASSUME NEW c \in Cluster, NEW state \in DesiredState, NEW type,
             \/ cluster' = [cluster EXCEPT ![c].type = type, ![c].desired = state]
             \/ cluster' = [cluster EXCEPT ![c].type = type]
             \/ cluster' = [cluster EXCEPT ![c].desired = state]
             \/ cluster' = [cluster EXCEPT ![c].applied = state]
             \/ cluster' = cluster
      PROVE  \A b \in Cluster : cluster'[b].desired \in DesiredState /\ cluster'[b].applied \in DesiredState
  <2> SUFFICES ASSUME NEW b \in Cluster
               PROVE  cluster'[b].desired \in DesiredState /\ cluster'[b].applied \in DesiredState
    OBVIOUS
  <2>1. CASE b # c
    BY <1>0, <1>3, <2>1 DEF KindInv, BoundsInv
  <2>2. CASE b = c
    <3>1. /\ cluster'[c].desired \in {cluster[c].desired, state}
          /\ cluster'[c].applied \in {cluster[c].applied, state}
      BY <1>0, <1>2, <1>3 DEF KindInv, Record
    <3>2. QED
      BY <1>3, <2>2, <3>1 DEF BoundsInv
  <2>3. QED
    BY <2>1, <2>2
<1>4. ASSUME NEW c \in Cluster, NEW form \in AddForm, Create(c, form) PROVE BoundsInv'
  <2> DEFINE rows == ExtractClusterSecrets(c, form)
             state == CreateClusterSecrets(form, rows, NoState)
  <2>1. /\ Len(secret) + Len(rows) <= MaxSecrets /\ secret' = secret \o rows
        /\ cluster' = [cluster EXCEPT ![c].type = form.provision_type, ![c].desired = state]
        /\ UNCHANGED <<worker, edit, calls, asked>>
    BY <1>4 DEF Create
  <2>2. /\ Len(secret') <= MaxSecrets /\ state \in DesiredState
        /\ \A i \in DOMAIN secret' : secret'[i].data \in Credentials
    BY <1>0, <2>1, GrownRows, NothingIsBounded
  <2> HIDE DEF rows, state
  <2>3. \A b \in Cluster : cluster'[b].desired \in DesiredState /\ cluster'[b].applied \in DesiredState
    BY <1>3, <2>1, <2>2
  <2>4. QED
    BY <2>1, <2>2, <2>3 DEF BoundsInv
<1>5. ASSUME NEW c \in Cluster, NEW form \in AddForm, CreateUserPT(c, form) PROVE BoundsInv'
  <2> DEFINE row == NewRow(c, "credentials", NoCredentials)
  <2>1. /\ Len(secret) < MaxSecrets /\ secret' = Append(secret, row)
        /\ cluster' = [cluster EXCEPT ![c].type = "user"]
        /\ UNCHANGED <<worker, edit, calls, asked>>
    BY <1>5 DEF CreateUserPT
  <2>2. row.data \in Credentials /\ row \in Stored
    BY NothingIsBounded DEF NewRow, NoCredentials, Numbers, Stored
  <2> HIDE DEF row
  <2>3. /\ Len(secret') = Len(secret) + 1 /\ Len(secret) \in Nat
        /\ DOMAIN secret' = 1..Len(secret) + 1 /\ DOMAIN secret = 1..Len(secret)
        /\ \A i \in 1..Len(secret) : secret'[i] = secret[i]
        /\ secret'[Len(secret) + 1] = row
    BY <1>0, <2>1, <2>2 DEF KindInv
  <2>4. \A i \in DOMAIN secret' : secret'[i].data \in Credentials
    BY <2>2, <2>3 DEF BoundsInv
  <2>5. \A b \in Cluster : cluster'[b].desired \in DesiredState /\ cluster'[b].applied \in DesiredState
    BY <1>3, <2>1, NothingIsBounded
  <2>6. Len(secret') <= MaxSecrets
    BY <2>1, <2>3, SecretsAssumption
  <2>7. QED
    BY <2>1, <2>4, <2>5, <2>6 DEF BoundsInv
<1>6. ASSUME NEW e \in Editor, NEW c \in Cluster, NEW form \in EditForm, CheckEdit(e, c, form)
      PROVE  BoundsInv'
  <2>1. /\ calls < MaxCalls /\ calls' = calls + 1
        /\ UNCHANGED <<cluster, secret, worker, asked>>
    BY <1>6 DEF CheckEdit
  <2>2. calls' <= MaxCalls
    BY <1>0, <2>1, SecretsAssumption DEF KindInv
  <2>3. /\ edit'[e].form = form /\ edit'[e].number = calls'
        /\ edit'[e].applied = cluster[c].applied /\ edit'[e].credentials = CredentialsOf(c)
        /\ \A f \in Editor : f # e => edit'[f] = edit[f]
    BY <1>0, <1>6 DEF CheckEdit, KindInv
  <2>4. CredentialsOf(c) \in Credentials
    BY BoundedCredentials
  <2>5. QED
    BY <2>1, <2>2, <2>3, <2>4 DEF BoundsInv
<1>7. ASSUME NEW e \in Editor, Update(e) PROVE BoundsInv'
  <2>1. PICK c \in Cluster : c = edit[e].cluster
    BY <1>0, <1>7 DEF Update, OwnersInv, Placed
  <2> DEFINE rows == ExtractClusterSecrets(c, edit[e].form)
             state == CreateClusterSecrets(edit[e].form, rows, edit[e].applied)
  <2>2. /\ Len(secret) + Len(rows) <= MaxSecrets /\ secret' = secret \o rows
        /\ cluster' = [cluster EXCEPT ![c].desired = state] \/ cluster' = cluster
        /\ edit' = Overtaking(e, NoEdit)
        /\ UNCHANGED <<worker, calls, asked>>
    BY <1>7, <2>1 DEF Update
  <2>3. edit[e].applied \in DesiredState
    BY DEF BoundsInv
  <2>4. /\ Len(secret') <= MaxSecrets /\ state \in DesiredState
        /\ \A i \in DOMAIN secret' : secret'[i].data \in Credentials
    BY <1>0, <2>2, <2>3, GrownRows
  <2> HIDE DEF rows, state
  <2>5. \A b \in Cluster : cluster'[b].desired \in DesiredState /\ cluster'[b].applied \in DesiredState
    BY <1>3, <2>2, <2>4
  <2>6. \A f \in Editor :
           /\ edit'[f].form \in EditForm \cup {NoForm} /\ edit'[f].number <= MaxCalls
           /\ edit'[f].applied \in DesiredState /\ edit'[f].credentials \in Credentials
    BY <1>0, <2>2, OvertakenBounds
  <2>7. QED
    BY <2>2, <2>4, <2>5, <2>6 DEF BoundsInv
<1>8. ASSUME NEW e \in Editor, WriteCredentials(e) PROVE BoundsInv'
  <2> DEFINE rows == CredentialsRows(edit[e].cluster)
             data == NewCreds(edit[e].form, edit[e].number, edit[e].credentials)
             after == [edit[e] EXCEPT !.at = "written"]
  <2>1. /\ secret' = [i \in DOMAIN secret |->
                         IF i \in rows THEN [secret[i] EXCEPT !.data = data] ELSE secret[i]]
        /\ edit' = (IF rows = {} THEN [edit EXCEPT ![e].at = "written"] ELSE Overtaking(e, after))
        /\ UNCHANGED <<cluster, worker, calls, asked>>
    BY <1>8 DEF WriteCredentials
  <2>2. data \in Credentials
    <3>1. edit[e].number \in 0..MaxCalls /\ edit[e].credentials \in Credentials
      BY <1>0, SecretsAssumption DEF KindInv, Editing, BoundsInv
    <3>2. 0 \in 0..MaxCalls
      BY SecretsAssumption
    <3>3. QED
      BY <3>1, <3>2 DEF NewCreds, Credentials
  <2> HIDE DEF rows, data, after
  <2>3. secret \in Seq(Stored) /\ DOMAIN secret = 1..Len(secret) /\ Len(secret) \in Nat
    BY <1>0 DEF KindInv
  <2>4. \A i \in DOMAIN secret' : secret'[i].data \in Credentials
    <3>1. \A i \in DOMAIN secret : [secret[i] EXCEPT !.data = data].data = data
      BY <2>3 DEF Stored
    <3>2. QED
      BY <2>1, <2>2, <3>1 DEF BoundsInv
  <2>5. Len(secret') = Len(secret)
    BY <2>1, <2>3
  <2>6. \A f \in Editor :
           /\ edit'[f].form \in EditForm \cup {NoForm} /\ edit'[f].number <= MaxCalls
           /\ edit'[f].applied \in DesiredState /\ edit'[f].credentials \in Credentials
    <3>1. CASE edit' = Overtaking(e, after)
      BY <1>0, <3>1, OvertakenBounds DEF after
    <3>2. CASE edit' = [edit EXCEPT ![e].at = "written"]
      BY <1>0, <3>2 DEF KindInv, Editing, BoundsInv
    <3>3. QED
      BY <2>1, <3>1, <3>2
  <2>7. QED
    BY <2>1, <2>4, <2>5, <2>6 DEF BoundsInv
<1>9. ASSUME NEW e \in Editor, UpdateUserPT(e) PROVE BoundsInv'
  <2>1. /\ edit' = Overtaking(e, NoEdit) /\ UNCHANGED <<cluster, secret, worker, calls>>
    BY <1>9 DEF UpdateUserPT
  <2>2. \A f \in Editor :
           /\ edit'[f].form \in EditForm \cup {NoForm} /\ edit'[f].number <= MaxCalls
           /\ edit'[f].applied \in DesiredState /\ edit'[f].credentials \in Credentials
    BY <1>0, <2>1, OvertakenBounds
  <2>3. \A c \in Cluster : asked'[c] \in Credentials
    <3>1. edit[e].number \in 0..MaxCalls
      BY <1>0, SecretsAssumption DEF KindInv, Editing, BoundsInv
    <3>2. PICK c \in Cluster : c = edit[e].cluster
      BY <1>0, <1>9 DEF UpdateUserPT, OwnersInv, Placed
    <3> DEFINE new == [cluster |-> edit[e].number,
                       user |-> IF "user" \in edit[e].form.gives THEN edit[e].number ELSE asked[c].user]
    <3>3. new \in Credentials
      BY <3>1 DEF BoundsInv, Credentials
    <3>4. asked' = [asked EXCEPT ![c] = new] \/ asked' = asked
      BY <1>9, <3>2 DEF UpdateUserPT
    <3> HIDE DEF new
    <3>5. QED
      BY <1>0, <3>3, <3>4 DEF KindInv, BoundsInv
  <2>4. QED
    BY <2>1, <2>2, <2>3 DEF BoundsInv
<1>10. ASSUME NEW e \in Editor, EditFails(e) PROVE BoundsInv'
  <2>1. /\ edit' = [edit EXCEPT ![e] = NoEdit] /\ UNCHANGED <<cluster, secret, worker, calls, asked>>
    BY <1>10 DEF EditFails
  <2>2. \A f \in Editor : edit'[f] \in {NoEdit, edit[f]}
    BY <1>0, <2>1 DEF KindInv
  <2>3. QED
    BY <2>1, <2>2, NothingIsBounded, SecretsAssumption DEF BoundsInv
<1>11. ASSUME NEW c \in Cluster, TakeTask(c) PROVE BoundsInv'
  <2>1. worker'.desired = cluster[c].desired /\ UNCHANGED <<cluster, secret, edit, calls, asked>>
    BY <1>11 DEF TakeTask
  <2>2. QED
    BY <2>1 DEF BoundsInv
<1>12. CASE Connect \/ TaskFails
  <2>1. worker'.desired \in {worker.desired, NoState} /\ UNCHANGED <<cluster, secret, edit, calls, asked>>
    BY <1>0, <1>12 DEF Connect, TaskFails, Released, IdleWorker, KindInv, InHand
  <2>2. QED
    BY <2>1, NothingIsBounded DEF BoundsInv
<1>13. CASE SaveAppliedState
  <2>1. PICK c \in Cluster : c = worker.cluster
    BY <1>0, <1>13 DEF SaveAppliedState, OwnersInv
  <2>2. /\ cluster' = [cluster EXCEPT ![c].applied = cluster[c].desired]
        /\ worker'.desired = NoState /\ UNCHANGED <<secret, edit, calls, asked>>
    BY <1>13, <2>1 DEF SaveAppliedState, IdleWorker
  <2>3. cluster[c].desired \in DesiredState
    BY DEF BoundsInv
  <2>4. \A b \in Cluster : cluster'[b].desired \in DesiredState /\ cluster'[b].applied \in DesiredState
    BY <1>3, <2>2, <2>3
  <2>5. QED
    BY <2>2, <2>4, NothingIsBounded DEF BoundsInv
<1>14. CASE Restart
  <2>1. /\ calls < MaxCalls /\ calls' = calls + 1 /\ worker'.desired = NoState
        /\ \A f \in Editor : edit'[f] = NoEdit
        /\ UNCHANGED <<cluster, secret, asked>>
    BY <1>14 DEF Restart, IdleWorker
  <2>2. calls' <= MaxCalls
    BY <1>0, <2>1, SecretsAssumption DEF KindInv
  <2>3. QED
    BY <2>1, <2>2, NothingIsBounded, SecretsAssumption DEF BoundsInv
<1>15. ASSUME NEW q \in Request, NEW c \in Cluster, NEW label \in Label, NEW op \in Op,
              Begin(q, c, label, op)
       PROVE  BoundsInv'
  <2>1. /\ calls < MaxCalls /\ calls' = calls + 1
        /\ UNCHANGED <<cluster, secret, worker, edit, asked>>
    BY <1>15 DEF Begin
  <2>2. calls' <= MaxCalls
    BY <1>0, <2>1, SecretsAssumption DEF KindInv
  <2>3. QED
    BY <1>1, <2>1, <2>2
<1>16. ASSUME UNCHANGED clusterVars PROVE BoundsInv'
  BY <1>1, <1>16 DEF clusterVars, BoundsInv
<1>17. QED
  BY <1>4, <1>5, <1>6, <1>7, <1>8, <1>9, <1>10, <1>11, <1>12, <1>13, <1>14, <1>15, <1>16
     DEF Next, vars, SecretsNext, Step, Timeout, PodStarts, Lookup, GetItemConnection, Keep, Send,
         Authorise, GetPods, PortForward, Grpcurl, StopForward, Throw

-----------------------------------------------------------------------------
(* The newest secrets. *)

\* What is applied of a secret is a row of the cluster; what is desired is the
\* newest one, or what is applied once a task failed; and unless a task failed,
\* a cluster without tasks has applied what is desired.
Kept(c, name) ==
    LET desired == PointerTo(cluster[c].desired, name)
        applied == PointerTo(cluster[c].applied, name)
    IN
    /\ applied = 0 \/ applied \in RowsOf(c, name)
    /\ IsNewest(c, name, desired) \/ (<<c, name>> \in failed /\ desired = applied)
    /\ tasks[c] = 0 => <<c, name>> \in failed \/ desired = applied

NewestInv ==
    /\ failed \subseteq Cluster \X {"token", "ca"}
    /\ ~excused => \A c \in Cluster, name \in {"token", "ca"} : Kept(c, name)

LEMMA InitNewest == ASSUME SecretsInit PROVE NewestInv
  BY DEF SecretsInit, NewestInv, Kept, IsNewest, PointerTo, NoState, RowsOf

LEMMA KeptStays ==
    ASSUME NEW c, NEW name, Kept(c, name), cluster'[c] = cluster[c],
           RowsOf(c, name)' = RowsOf(c, name), <<c, name>> \in failed => <<c, name>> \in failed',
           tasks'[c] = 0 => tasks[c] = 0
    PROVE  Kept(c, name)'
  BY DEF Kept, IsNewest

LEMMA OtherRowsKeepRows ==
    ASSUME KindInv, NEW rows \in Seq(Stored), secret' = secret \o rows, NEW c, NEW name,
           \A i \in DOMAIN rows : rows[i].cluster # c \/ rows[i].name # name
    PROVE  RowsOf(c, name)' = RowsOf(c, name)
<1>1. Len(secret) \in Nat /\ Len(rows) \in Nat /\ DOMAIN rows = 1..Len(rows)
  BY DEF KindInv
<1>2. ASSUME NEW i \in DOMAIN secret', i \notin DOMAIN secret
      PROVE  \E j \in DOMAIN rows : secret'[i] = rows[j]
  <2>1. i \in Len(secret) + 1..Len(secret) + Len(rows)
    BY <1>1, <1>2, AddedRows
  <2>2. i - Len(secret) \in DOMAIN rows /\ i = Len(secret) + (i - Len(secret))
    BY <1>1, <2>1
  <2>3. QED
    BY <2>2, AddedRows
<1>3. \A i \in DOMAIN secret : i \in DOMAIN secret' /\ secret'[i] = secret[i]
  BY <1>1, AddedRows
<1>4. QED
  BY <1>2, <1>3 DEF RowsOf

\* The pointer to a secret that the form gives is to the newest row; of one that
\* it does not give there is no new row.
LEMMA PointerNewest ==
    ASSUME KindInv, NEW c \in Cluster, NEW form, NEW name \in {"token", "ca"},
           secret' = secret \o ExtractClusterSecrets(c, form), name \in form.gives, NEW applied
    PROVE  LET p == Pointer(form, name, ExtractClusterSecrets(c, form), Len(secret), applied) IN
           /\ p \in RowsOf(c, name)'
           /\ \A i \in RowsOf(c, name)' : i <= p
<1> DEFINE rows == ExtractClusterSecrets(c, form)
<1>0. secret' = secret \o rows
  OBVIOUS
<1>1. /\ rows \in Seq(Stored) /\ \A i \in DOMAIN rows : rows[i].cluster = c
      /\ \E i \in DOMAIN rows : rows[i].name = name
      /\ \A i, j \in DOMAIN rows : rows[i].name = rows[j].name => i = j
  <2>1. name \in form.gives \cap {"token", "ca"}
    OBVIOUS
  <2>2. /\ rows \in Seq(Stored)
        /\ \A i \in DOMAIN rows : rows[i].cluster = c /\ rows[i].name # "credentials"
        /\ \A n \in form.gives \cap {"token", "ca"} : \E i \in DOMAIN rows : rows[i].name = n
        /\ \A i, j \in DOMAIN rows : rows[i].name = rows[j].name => i = j
    BY SMTT(60), ExtractedRows
  <2> HIDE DEF rows
  <2>3. QED
    BY <2>1, <2>2
<1> HIDE DEF rows
<1>2. PICK i \in DOMAIN rows : i = (CHOOSE j \in DOMAIN rows : rows[j].name = name) /\ rows[i].name = name
  BY <1>1
<1>3. Pointer(form, name, rows, Len(secret), applied) = Len(secret) + i
  BY <1>2 DEF Pointer
<1>4. Len(secret) \in Nat /\ Len(rows) \in Nat /\ DOMAIN rows = 1..Len(rows)
  BY <1>1 DEF KindInv
<1>5. /\ DOMAIN secret' = 1..Len(secret) + Len(rows)
      /\ \A j \in DOMAIN rows : secret'[Len(secret) + j] = rows[j]
  BY <1>0, <1>1, AddedRows
<1>6. Len(secret) + i \in RowsOf(c, name)'
  BY <1>1, <1>2, <1>4, <1>5 DEF RowsOf
<1>7. ASSUME NEW j \in RowsOf(c, name)' PROVE j <= Len(secret) + i
  <2>1. j \in 1..Len(secret) + Len(rows) /\ secret'[j].name = name
    BY <1>5 DEF RowsOf
  <2>2. CASE j <= Len(secret)
    BY <1>4, <2>1, <2>2
  <2>3. CASE j > Len(secret)
    <3>1. j - Len(secret) \in DOMAIN rows /\ j = Len(secret) + (j - Len(secret))
      BY <1>4, <2>1, <2>3
    <3>2. rows[j - Len(secret)].name = name
      BY <1>5, <2>1, <3>1
    <3>3. j - Len(secret) = i
      BY <1>1, <1>2, <3>1, <3>2
    <3>4. QED
      BY <1>4, <3>1, <3>3
  <2>4. QED
    BY <1>4, <2>1, <2>2, <2>3
<1>8. QED
  BY <1>3, <1>6, <1>7 DEF rows

\* The row is the newest of that name, after a step.
NewestNext(c, name, id) ==
    /\ id = 0 \/ id \in RowsOf(c, name)'
    /\ \A i \in RowsOf(c, name)' : i <= id

LEMMA StateNewest ==
    ASSUME KindInv, NEW c \in Cluster, NEW form, NEW name \in {"token", "ca"}, NEW applied,
           secret' = secret \o ExtractClusterSecrets(c, form)
    PROVE  LET state == CreateClusterSecrets(form, ExtractClusterSecrets(c, form), applied) IN
           /\ name \in form.gives => NewestNext(c, name, PointerTo(state, name))
           /\ name \notin form.gives =>
                 PointerTo(state, name) = PointerTo(applied, name) /\ RowsOf(c, name)' = RowsOf(c, name)
<1> DEFINE rows == ExtractClusterSecrets(c, form)
           state == CreateClusterSecrets(form, rows, applied)
<1>1. PointerTo(state, name) = Pointer(form, name, rows, Len(secret), PointerTo(applied, name))
  BY DEF CreateClusterSecrets, PointerTo
<1>2. ASSUME name \in form.gives PROVE NewestNext(c, name, PointerTo(state, name))
  <2> DEFINE p == Pointer(form, name, rows, Len(secret), PointerTo(applied, name))
  <2>1. p \in RowsOf(c, name)' /\ \A i \in RowsOf(c, name)' : i <= p
    BY <1>2, PointerNewest
  <2> HIDE DEF rows, state
  <2>2. QED
    BY <1>1, <2>1 DEF NewestNext
<1>3. rows \in Seq(Stored) /\ \A i \in DOMAIN rows : rows[i].name \in form.gives
  BY ExtractedRows
<1>4. secret' = secret \o rows
  OBVIOUS
<1> HIDE DEF rows
<1>5. ASSUME name \notin form.gives
      PROVE  PointerTo(state, name) = PointerTo(applied, name) /\ RowsOf(c, name)' = RowsOf(c, name)
  <2>1. \A i \in DOMAIN rows : rows[i].cluster # c \/ rows[i].name # name
    BY <1>3, <1>5
  <2>2. RowsOf(c, name)' = RowsOf(c, name)
    BY <1>3, <1>4, <2>1, OtherRowsKeepRows
  <2>3. QED
    BY <1>1, <1>5, <2>2 DEF Pointer
<1>6. QED
  BY <1>2, <1>5 DEF rows

LEMMA NewestStep ==
    ASSUME SecretsInv, SecretsInv', BoundsInv, NewestInv, [Next]_vars
    PROVE  NewestInv'
<1>0. KindInv /\ OwnersInv /\ KindInv'
  BY DEF SecretsInv
<1>1. excused \in BOOLEAN /\ \A c \in Cluster : tasks[c] \in Nat
  BY <1>0 DEF KindInv
<1>2. ASSUME UNCHANGED <<cluster, failed>>, ~excused' => ~excused,
             \A c \in Cluster : tasks'[c] = 0 => tasks[c] = 0,
             \A c \in Cluster, name \in {"token", "ca"} : RowsOf(c, name)' = RowsOf(c, name)
      PROVE  NewestInv'
  BY <1>2, KeptStays DEF NewestInv
<1>3. ASSUME UNCHANGED <<cluster, secret, tasks, failed>>, ~excused' => ~excused
      PROVE  NewestInv'
  BY <1>2, <1>3 DEF RowsOf
<1>4. ASSUME NEW c \in Cluster, NEW form \in AddForm, Create(c, form) PROVE NewestInv'
  <2> DEFINE rows == ExtractClusterSecrets(c, form)
             state == CreateClusterSecrets(form, rows, NoState)
  <2>1. /\ cluster[c].type = "none" /\ secret' = secret \o rows
        /\ cluster' = [cluster EXCEPT ![c].type = form.provision_type, ![c].desired = state]
        /\ tasks' = [tasks EXCEPT ![c] = @ + 1]
        /\ UNCHANGED <<excused, failed>>
    BY <1>4 DEF Create
  <2>2. rows \in Seq(Stored) /\ \A i \in DOMAIN rows : rows[i].cluster = c
    BY ExtractedRows
  <2>3. \A name \in {"token", "ca"} :
           /\ name \in form.gives => NewestNext(c, name, PointerTo(state, name))
           /\ name \notin form.gives =>
                 PointerTo(state, name) = PointerTo(NoState, name) /\ RowsOf(c, name)' = RowsOf(c, name)
    <3> SUFFICES ASSUME NEW name \in {"token", "ca"}
                 PROVE  /\ name \in form.gives => NewestNext(c, name, PointerTo(state, name))
                        /\ name \notin form.gives =>
                              /\ PointerTo(state, name) = PointerTo(NoState, name)
                              /\ RowsOf(c, name)' = RowsOf(c, name)
      OBVIOUS
    <3>1. QED
      BY SMTT(60), <1>0, <2>1, StateNewest
  <2> HIDE DEF rows, state
  <2>4. /\ cluster'[c].desired = state /\ cluster'[c].applied = NoState
        /\ cluster[c].desired = NoState /\ cluster[c].applied = NoState
        /\ \A b \in Cluster : b # c => cluster'[b] = cluster[b]
    BY <1>0, <2>1 DEF KindInv, Record, OwnersInv
  <2>5. tasks'[c] # 0 /\ \A b \in Cluster : b # c => tasks'[b] = tasks[b]
    BY <1>0, <2>1 DEF KindInv
  <2>6. ASSUME ~excused', NEW b \in Cluster, NEW name \in {"token", "ca"} PROVE Kept(b, name)'
    <3>1. Kept(b, name)
      BY <2>1, <2>6 DEF NewestInv
    <3>2. CASE b # c
      <4>1. RowsOf(b, name)' = RowsOf(b, name)
        BY <1>0, <2>1, <2>2, <3>2, OtherRowsKeepRows
      <4>2. QED
        BY <2>1, <2>4, <2>5, <3>1, <3>2, <4>1, KeptStays
    <3>3. CASE b = c
      <4>1. PointerTo(cluster'[c].applied, name) = 0
        BY <2>4 DEF PointerTo, NoState
      <4>2. CASE name \in form.gives
        BY <2>3, <2>4, <2>5, <3>3, <4>1, <4>2 DEF Kept, IsNewest, NewestNext
      <4>3. CASE name \notin form.gives
        BY <2>1, <2>3, <2>4, <2>5, <3>1, <3>3, <4>1, <4>3 DEF Kept, IsNewest
      <4>4. QED
        BY <4>2, <4>3
    <3>4. QED
      BY <3>2, <3>3
  <2>7. QED
    BY <2>1, <2>6 DEF NewestInv
<1>5. ASSUME NEW c \in Cluster, NEW form \in AddForm, CreateUserPT(c, form) PROVE NewestInv'
  <2> DEFINE row == NewRow(c, "credentials", NoCredentials)
             rows == <<row>>
  <2>1. /\ cluster[c].type = "none" /\ secret' = Append(secret, row)
        /\ cluster' = [cluster EXCEPT ![c].type = "user"]
        /\ tasks' = [tasks EXCEPT ![c] = @ + 1]
        /\ UNCHANGED <<excused, failed>>
    BY <1>5 DEF CreateUserPT
  <2>2. row \in Stored /\ row.name = "credentials"
    BY DEF NewRow, NoCredentials, Numbers, Stored
  <2> HIDE DEF row
  <2>3. rows \in Seq(Stored) /\ secret' = secret \o rows /\ \A i \in DOMAIN rows : rows[i].name = "credentials"
    BY <1>0, <2>1, <2>2 DEF KindInv
  <2> HIDE DEF rows
  <2>4. \A b \in Cluster, name \in {"token", "ca"} : RowsOf(b, name)' = RowsOf(b, name)
    BY <1>0, <2>3, OtherRowsKeepRows
  <2>5. \A b \in Cluster : /\ cluster'[b].desired = cluster[b].desired
                           /\ cluster'[b].applied = cluster[b].applied
                           /\ tasks'[b] = 0 => tasks[b] = 0
    BY <1>0, <2>1 DEF KindInv, Record
  <2>6. QED
    BY <2>1, <2>4, <2>5 DEF NewestInv, Kept, IsNewest
<1>6. ASSUME NEW e \in Editor, NEW c \in Cluster, NEW form \in EditForm, CheckEdit(e, c, form)
      PROVE  NewestInv'
  BY <1>3, <1>6 DEF CheckEdit
<1>7. ASSUME NEW e \in Editor, Update(e) PROVE NewestInv'
  <2>1. edit[e].cluster \in Cluster /\ edit[e].at = "checked"
    BY <1>0, <1>7 DEF Update, OwnersInv, Placed
  <2>2. PICK c \in Cluster : c = edit[e].cluster
    BY <2>1
  <2> DEFINE form == edit[e].form
             rows == ExtractClusterSecrets(c, form)
             state == CreateClusterSecrets(form, rows, edit[e].applied)
  <2>3. /\ secret' = secret \o rows
        /\ cluster' = IF "desired_state" \in form.gives
                      THEN [cluster EXCEPT ![c].desired = state] ELSE cluster
        /\ tasks' = [tasks EXCEPT ![c] = @ + 1]
        /\ excused' = (excused \/ edit[e].overtaken)
        /\ failed' = failed \ {<<c, name>> : name \in form.gives}
    BY <1>7, <2>2 DEF Update
  <2>4. rows \in Seq(Stored) /\ \A i \in DOMAIN rows : rows[i].cluster = c
    BY ExtractedRows
  <2>5. \A name \in {"token", "ca"} :
           /\ name \in form.gives => NewestNext(c, name, PointerTo(state, name))
           /\ name \notin form.gives =>
                 /\ PointerTo(state, name) = PointerTo(edit[e].applied, name)
                 /\ RowsOf(c, name)' = RowsOf(c, name)
    <3> SUFFICES ASSUME NEW name \in {"token", "ca"}
                 PROVE  /\ name \in form.gives => NewestNext(c, name, PointerTo(state, name))
                        /\ name \notin form.gives =>
                              /\ PointerTo(state, name) = PointerTo(edit[e].applied, name)
                              /\ RowsOf(c, name)' = RowsOf(c, name)
      OBVIOUS
    <3>1. ASSUME NEW f, NEW applied, secret' = secret \o ExtractClusterSecrets(c, f)
          PROVE  LET now == CreateClusterSecrets(f, ExtractClusterSecrets(c, f), applied) IN
                 /\ name \in f.gives => NewestNext(c, name, PointerTo(now, name))
                 /\ name \notin f.gives =>
                       PointerTo(now, name) = PointerTo(applied, name) /\ RowsOf(c, name)' = RowsOf(c, name)
      BY SMTT(60), <1>0, <3>1, StateNewest
    <3>2. secret' = secret \o ExtractClusterSecrets(c, form)
      BY <2>3
    <3> HIDE DEF form
    <3>3. QED
      BY <3>1, <3>2
  <2>6. \A name \in {"token", "ca"} : name \in form.gives => "desired_state" \in form.gives
    <3>1. WellFormed(form)
      BY SecretsAssumption DEF BoundsInv, WellFormed, NoForm
    <3>2. QED
      BY <3>1 DEF WellFormed
  <2> HIDE DEF rows, state
  <2>7. /\ cluster'[c].applied = cluster[c].applied
        /\ cluster'[c].desired = IF "desired_state" \in form.gives THEN state ELSE cluster[c].desired
        /\ \A b \in Cluster : b # c => cluster'[b] = cluster[b]
    BY <1>0, <2>3 DEF KindInv, Record
  <2>8. tasks'[c] # 0 /\ \A b \in Cluster : b # c => tasks'[b] = tasks[b]
    BY <1>0, <2>3 DEF KindInv
  <2> HIDE DEF form
  <2>9. /\ failed' \subseteq failed
        /\ \A b, name : <<b, name>> \in failed /\ (b # c \/ name \notin form.gives) => <<b, name>> \in failed'
    BY <2>3
  <2>10. ASSUME ~excused', NEW b \in Cluster, NEW name \in {"token", "ca"} PROVE Kept(b, name)'
    <3>1. Kept(b, name) /\ ~edit[e].overtaken /\ PointersInv
      BY <1>0, <2>3, <2>10 DEF NewestInv, SecretsInv, KindInv, Editing
    <3>2. CASE b # c
      <4>1. RowsOf(b, name)' = RowsOf(b, name)
        BY <1>0, <2>3, <2>4, <3>2, OtherRowsKeepRows
      <4>2. QED
        BY <2>7, <2>8, <2>9, <3>1, <3>2, <4>1, KeptStays
    <3>3. CASE b = c
      <4>1. tasks[c] = 0 /\ edit[e].applied = cluster[c].applied
        BY <2>1, <2>2, <3>1 DEF PointersInv
      <4>2. CASE name \in form.gives
        <5>1. cluster'[c].desired = state /\ NewestNext(c, name, PointerTo(state, name))
          BY <2>5, <2>6, <2>7, <4>2
        <5>2. RowsOf(c, name) \subseteq RowsOf(c, name)'
          <6>1. \A i \in DOMAIN secret : i \in DOMAIN secret' /\ secret'[i] = secret[i]
            <7>1. Len(secret) \in Nat /\ Len(rows) \in Nat
              BY <1>0, <2>4 DEF KindInv
            <7>2. QED
              BY <1>0, <2>3, <2>4, <7>1, AddedRows
          <6>2. QED
            BY <6>1 DEF RowsOf
        <5>3. QED
          BY <2>7, <2>8, <3>1, <3>3, <5>1, <5>2 DEF Kept, IsNewest, NewestNext
      <4>3. CASE name \notin form.gives
        <5>1. /\ PointerTo(state, name) = PointerTo(cluster[c].applied, name)
              /\ RowsOf(c, name)' = RowsOf(c, name)
          BY <2>5, <4>1, <4>3
        <5>2. <<c, name>> \in failed => <<c, name>> \in failed'
          BY <2>9, <4>3
        <5>3. cluster'[c].desired \in {state, cluster[c].desired}
          BY <2>7
        <5>4. <<c, name>> \in failed
                 \/ PointerTo(cluster[c].desired, name) = PointerTo(cluster[c].applied, name)
          BY <3>1, <3>3, <4>1 DEF Kept
        <5>5. QED
          BY <2>7, <2>8, <3>1, <3>3, <5>1, <5>2, <5>3, <5>4 DEF Kept, IsNewest
      <4>4. QED
        BY <4>2, <4>3
    <3>4. QED
      BY <3>2, <3>3
  <2>11. QED
    BY <2>9, <2>10 DEF NewestInv
<1>8. ASSUME NEW e \in Editor, WriteCredentials(e) PROVE NewestInv'
  <2>1. edit[e].cluster \in Cluster
    BY <1>0, <1>8 DEF WriteCredentials, OwnersInv, Placed
  <2>2. \A b \in Cluster, name \in {"token", "ca"} : RowsOf(b, name)' = RowsOf(b, name)
    BY <1>0, <1>8, <2>1, WrittenRows
  <2>3. UNCHANGED <<cluster, tasks, failed>> /\ (~excused' => ~excused)
    BY <1>1, <1>8 DEF WriteCredentials
  <2>4. QED
    BY <1>2, <2>2, <2>3
<1>9. ASSUME NEW e \in Editor, UpdateUserPT(e) PROVE NewestInv'
  <2>1. edit[e].cluster \in Cluster
    BY <1>0, <1>9 DEF UpdateUserPT, OwnersInv, Placed
  <2>2. UNCHANGED <<cluster, secret, failed>> /\ (~excused' => ~excused)
    BY <1>1, <1>9 DEF UpdateUserPT
  <2>3. \A c \in Cluster : tasks'[c] = 0 => tasks[c] = 0
    BY <1>0, <1>1, <1>9, <2>1 DEF UpdateUserPT, KindInv
  <2>4. QED
    BY <1>2, <2>2, <2>3 DEF RowsOf
<1>10. ASSUME NEW e \in Editor, EditFails(e) PROVE NewestInv'
  <2>1. UNCHANGED <<cluster, secret, tasks, failed>> /\ (~excused' => ~excused)
    BY <1>1, <1>10 DEF EditFails
  <2>2. QED
    BY <1>3, <2>1
<1>11. CASE (\E c \in Cluster : TakeTask(c)) \/ Connect
  BY <1>3, <1>11 DEF TakeTask, Connect
<1>12. CASE TaskFails
  <2>1. PICK c \in Cluster : c = worker.cluster
    BY <1>0, <1>12 DEF TaskFails, OwnersInv
  <2>2. /\ tasks' = [tasks EXCEPT ![c] = @ - 1] /\ failed' = failed \cup ({c} \X Unapplied(c))
        /\ UNCHANGED <<cluster, secret, excused>>
    BY <1>12, <2>1 DEF TaskFails
  <2>3. \A b, name : RowsOf(b, name)' = RowsOf(b, name)
    BY <2>2 DEF RowsOf
  <2>4. Unapplied(c) \subseteq {"token", "ca"}
    BY DEF Unapplied
  <2>5. failed \subseteq failed' /\ failed' \subseteq Cluster \X {"token", "ca"}
    BY <2>2, <2>4 DEF NewestInv
  <2>6. ASSUME ~excused', NEW b \in Cluster, NEW name \in {"token", "ca"} PROVE Kept(b, name)'
    <3>1. Kept(b, name)
      BY <2>2, <2>6 DEF NewestInv
    <3>2. CASE b # c
      <4>1. tasks'[b] = tasks[b]
        BY <1>0, <2>2, <3>2 DEF KindInv
      <4>2. QED
        BY <2>2, <2>3, <2>5, <3>1, <4>1, KeptStays
    <3>3. CASE b = c
      <4>1. <<c, name>> \in failed'
               \/ PointerTo(cluster[c].desired, name) = PointerTo(cluster[c].applied, name)
        BY <2>2 DEF Unapplied
      <4>2. QED
        BY <2>2, <2>3, <2>5, <3>1, <3>3, <4>1 DEF Kept, IsNewest
    <3>4. QED
      BY <3>2, <3>3
  <2>7. QED
    BY <2>5, <2>6 DEF NewestInv
<1>13. CASE SaveAppliedState
  <2>1. PICK c \in Cluster : c = worker.cluster
    BY <1>0, <1>13 DEF SaveAppliedState, OwnersInv
  <2>2. /\ cluster' = [cluster EXCEPT ![c].applied = cluster[c].desired]
        /\ tasks' = [tasks EXCEPT ![c] = @ - 1]
        /\ UNCHANGED <<secret, excused, failed>>
    BY <1>13, <2>1 DEF SaveAppliedState
  <2>3. \A b, name : RowsOf(b, name)' = RowsOf(b, name)
    BY <2>2 DEF RowsOf
  <2>4. /\ cluster'[c].desired = cluster[c].desired /\ cluster'[c].applied = cluster[c].desired
        /\ \A b \in Cluster : b # c => cluster'[b] = cluster[b] /\ tasks'[b] = tasks[b]
    BY <1>0, <2>2 DEF KindInv, Record
  <2>5. ASSUME ~excused', NEW b \in Cluster, NEW name \in {"token", "ca"} PROVE Kept(b, name)'
    <3>1. Kept(b, name)
      BY <2>2, <2>5 DEF NewestInv
    <3>2. CASE b # c
      BY <2>2, <2>3, <2>4, <3>1, <3>2, KeptStays
    <3>3. CASE b = c
      BY <2>2, <2>3, <2>4, <3>1, <3>3 DEF Kept, IsNewest
    <3>4. QED
      BY <3>2, <3>3
  <2>6. QED
    BY <2>2, <2>5 DEF NewestInv
<1>14. CASE Restart
  <2>1. UNCHANGED <<cluster, secret, tasks, failed>> /\ (~excused' => ~excused)
    BY <1>1, <1>14 DEF Restart
  <2>2. QED
    BY <1>3, <2>1
<1>15. ASSUME NEW q \in Request, NEW c \in Cluster, NEW label \in Label, NEW op \in Op,
              Begin(q, c, label, op)
       PROVE  NewestInv'
  BY <1>3, <1>15 DEF Begin
<1>16. ASSUME UNCHANGED clusterVars PROVE NewestInv'
  BY <1>3, <1>16 DEF clusterVars
<1>17. QED
  BY <1>4, <1>5, <1>6, <1>7, <1>8, <1>9, <1>10, <1>11, <1>12, <1>13, <1>14, <1>15, <1>16
     DEF Next, vars, SecretsNext, Step, Timeout, PodStarts, Lookup, GetItemConnection, Keep, Send,
         Authorise, GetPods, PortForward, Grpcurl, StopForward, Throw

-----------------------------------------------------------------------------
(* The requests. *)

StepName == {"lookup", "items", "keep", "send", "connect", "pods", "open", "token", "call", "stop"}

LEMMA ListsOfSteps ==
    ASSUME NEW S, NEW a \in S, NEW b \in S, NEW c \in S, NEW d \in S
    PROVE  /\ <<a>> \in Seq(S) /\ <<a, b>> \in Seq(S)
           /\ <<a, b, c>> \in Seq(S) /\ <<a, b, c, d>> \in Seq(S)
  OBVIOUS

\* Each request is a list of steps.
LEMMA ScriptType == \A op \in DOMAIN Script : Script[op] \in Seq(StepName)
<1>0. \A step \in {"lookup", "items", "keep", "send", "connect", "pods", "open", "token", "call",
                   "stop"} : step \in StepName
  BY DEF StepName
<1>1. TfsApiRequest \in Seq(StepName) /\ StlRequestProxy \in Seq(StepName)
  BY <1>0, ListsOfSteps DEF TfsApiRequest, StlRequestProxy
<1>2. CreateKey \in Seq(StepName) /\ OneTfsApiRequest \in Seq(StepName)
  BY <1>1 DEF CreateKey, OneTfsApiRequest
<1>3. \A handler \in Seq(StepName) : CallProxy(handler) \in Seq(StepName)
  <2>1. <<"connect", "pods", "open">> \in Seq(StepName) /\ <<"stop">> \in Seq(StepName)
    BY <1>0, ListsOfSteps
  <2>2. QED
    BY <2>1 DEF CallProxy
<1>4. <<"token", "call">> \in Seq(StepName) /\ <<"token", "call", "call">> \in Seq(StepName)
      /\ <<"token">> \in Seq(StepName)
  BY <1>0, ListsOfSteps
<1>5. /\ GetLedgerId \in Seq(StepName) /\ GetParticipantId \in Seq(StepName)
      /\ AddParty \in Seq(StepName) /\ GetArchives \in Seq(StepName)
      /\ UploadArchive \in Seq(StepName)
  BY <1>3, <1>4 DEF GetLedgerId, GetParticipantId, AddParty, GetArchives, UploadArchive
<1>6. GenerateAdminToken \in Seq(StepName) /\ GeneratePartyToken \in Seq(StepName)
  BY <1>4, <1>5 DEF GenerateAdminToken, GeneratePartyToken
<1>7. \A op \in DOMAIN TaekionController : TaekionController[op] \in Seq(StepName)
  BY <1>1, <1>2 DEF TaekionController
<1>8. \A op \in DOMAIN DamlController : DamlController[op] \in Seq(StepName)
  BY <1>5, <1>6 DEF DamlController
<1>9. QED
  BY <1>7, <1>8 DEF Script

LEMMA SuffixesType ==
    ASSUME NEW S, NEW s \in Seq(S), NEW t \in Suffixes(s)
    PROVE  t \in Seq(S)
<1>1. CASE t = <<>>
  BY <1>1
<1>2. CASE t # <<>>
  <2>1. PICK l \in 1..Len(s) : t = SubSeq(s, l, Len(s))
    BY <1>2 DEF Suffixes
  <2>2. QED
    BY <2>1
<1>3. QED
  BY <1>1, <1>2

\* What is left of a request after some steps is left of it after some steps
\* more.
LEMMA SuffixOfSuffix ==
    ASSUME NEW S, NEW s \in Seq(S), NEW t \in Suffixes(s), NEW n \in Nat
    PROVE  SubSeq(t, n + 1, Len(t)) \in Suffixes(s)
<1> DEFINE left == SubSeq(t, n + 1, Len(t))
<1>1. t \in Seq(S) /\ Len(t) \in Nat
  BY SuffixesType
<1>2. left \in Seq(S)
  BY <1>1
<1>3. CASE n >= Len(t)
  <2>1. Len(left) = 0
    BY <1>1, <1>3
  <2>2. left = <<>>
    BY <1>2, <2>1
  <2>3. QED
    BY <2>2 DEF Suffixes
<1>4. CASE n < Len(t)
  <2>1. PICK l \in 1..Len(s) : t = SubSeq(s, l, Len(s))
    BY <1>1, <1>4 DEF Suffixes
  <2>2. Len(t) = Len(s) - l + 1 /\ Len(s) \in Nat
    BY <2>1
  <2>3. l + n \in 1..Len(s)
    BY <1>4, <2>2
  <2> DEFINE u == SubSeq(s, l + n, Len(s))
  <2>4. u \in Seq(S) /\ Len(u) = Len(s) - (l + n) + 1
    BY <2>2, <2>3
  <2>5. Len(left) = Len(u)
    BY <1>1, <1>4, <2>2, <2>4
  <2>6. ASSUME NEW i \in 1..Len(u) PROVE left[i] = u[i]
    <3>1. left[i] = t[n + i]
      <4>1. n + 1 \in 1..Len(t) /\ i \in 1..Len(t) - n
        BY <1>1, <1>4, <2>2, <2>4
      <4>2. QED
        BY <1>1, <4>1
    <3>2. t[n + i] = s[l + n + i - 1]
      <4>1. \A j \in 1..Len(t) : t[j] = s[l + j - 1]
        BY <2>1, <2>2
      <4>2. n + i \in 1..Len(t) /\ l + (n + i) - 1 = l + n + i - 1
        BY <2>2, <2>4
      <4>3. QED
        BY <4>1, <4>2
    <3>3. u[i] = s[l + n + i - 1]
      BY <2>2, <2>3, <2>4
    <3>4. QED
      BY <3>1, <3>2, <3>3
  <2>7. left = u
    <3> HIDE DEF left, u
    <3>1. QED
      BY <1>2, <2>4, <2>5, <2>6
  <2>8. QED
    BY <2>3, <2>7 DEF Suffixes
<1>5. QED
  BY <1>1, <1>3, <1>4

LEMMA TodoGoesOn ==
    ASSUME NEW todo \in Todo, NEW n \in Nat
    PROVE  SubSeq(todo, n + 1, Len(todo)) \in Todo
<1>1. PICK op \in DOMAIN Script : todo \in Suffixes(Script[op])
  BY DEF Todo
<1>2. Script[op] \in Seq(StepName)
  BY ScriptType
<1>3. SubSeq(todo, n + 1, Len(todo)) \in Suffixes(Script[op])
  BY <1>1, <1>2, SuffixOfSuffix
<1>4. QED
  BY <1>3 DEF Todo

LEMMA TodoBegins ==
    /\ <<>> \in Todo
    /\ \A op \in Op : Script[op] \in Todo
<1>1. \A op \in DOMAIN Script : <<>> \in Suffixes(Script[op])
  BY DEF Suffixes
<1>2. "createKey" \in DOMAIN Script
  BY DEF Script, TaekionController
<1>3. ASSUME NEW S, NEW s \in Seq(S) PROVE s \in Suffixes(s)
  <2>1. CASE s = <<>>
    BY <2>1 DEF Suffixes
  <2>2. CASE s # <<>>
    <3>1. 1 \in 1..Len(s) /\ SubSeq(s, 1, Len(s)) = s
      BY <1>3, <2>2
    <3>2. QED
      BY <3>1 DEF Suffixes
  <2>3. QED
    BY <2>1, <2>2
<1>4. \A op \in Op : Script[op] \in Suffixes(Script[op])
  BY <1>3, ScriptType, OpsAssumption
<1>5. QED
  BY <1>1, <1>2, <1>4, OpsAssumption DEF Todo

Requested ==
    [cluster : Cluster \cup {NoCluster}, label : Label \cup {"none"}, todo : Todo, to : Connection]

RequestsInv ==
    /\ request \in [Request -> Requested]
    /\ \A q \in Request : request[q].todo # <<>> =>
          request[q].cluster \in Cluster /\ request[q].label \in Label

LEMMA NoRequestType == NoConnection \in Connection /\ NoRequest \in Requested /\ NoRequest.todo = <<>>
<1>1. NoConnection \in Connection
  BY SecretsAssumption, ConnectionsAssumption DEF NoConnection, Connection
<1>2. QED
  BY <1>1, TodoBegins DEF NoRequest, Requested

LEMMA OnwardKeeps ==
    ASSUME RequestsInv, NEW q \in Request, NEW n \in Nat, NEW to \in Connection,
           request[q].todo # <<>>, Onward(q, n, to)
    PROVE  RequestsInv'
<1> DEFINE left == SubSeq(request[q].todo, n + 1, Len(request[q].todo))
           new == [request[q] EXCEPT !.todo = left, !.to = to]
<1>1. request[q] \in Requested
  BY DEF RequestsInv
<1>2. left \in Todo
  BY <1>1, TodoGoesOn DEF Requested
<1>3. request' = [request EXCEPT ![q] = IF left = <<>> THEN NoRequest ELSE new]
  BY DEF Onward
<1> HIDE DEF left
<1>4. /\ new \in Requested
      /\ new.cluster \in Cluster /\ new.label \in Label
  BY <1>1, <1>2 DEF Requested, RequestsInv
<1> HIDE DEF new
<1>5. QED
  BY <1>3, <1>4, NoRequestType DEF RequestsInv

LEMMA PoolStep ==
    ASSUME SecretsTypeOK, PoolInv, [Next]_vars
    PROVE  PoolInv'
<1>0. RequestsInv
  BY DEF PoolInv, RequestsInv, Requested
<1>1. ASSUME RequestsInv', cachedConnections' \in [Key -> Connection],
             timers' \in [Key -> 0..MaxTimers], pod' \in [Cluster -> 0..MaxPods],
             forward' \in [Request -> BOOLEAN]
      PROVE  PoolInv'
  BY <1>1 DEF PoolInv, RequestsInv, Requested
<1>2. /\ cachedConnections \in [Key -> Connection] /\ timers \in [Key -> 0..MaxTimers]
      /\ pod \in [Cluster -> 0..MaxPods] /\ forward \in [Request -> BOOLEAN]
  BY DEF PoolInv
<1>3. CASE UNCHANGED poolVars
  BY <1>3 DEF PoolInv, poolVars
<1>4. ASSUME NEW q \in Request, request[q].todo # <<>>
      PROVE  /\ request[q].cluster \in Cluster /\ request[q].label \in Label /\ KeyOf(q) \in Key
             /\ request[q].to \in Connection
             /\ pod[request[q].cluster] \in 0..MaxPods
             /\ cachedConnections[KeyOf(q)] \in Connection /\ timers[KeyOf(q)] \in 0..MaxTimers
  BY <1>0, <1>2, <1>4 DEF RequestsInv, Requested, Key, KeyOf
<1>5. ASSUME NEW q \in Request, NEW c \in Cluster, NEW label \in Label, NEW op \in Op,
             Begin(q, c, label, op)
      PROVE  PoolInv'
  <2> DEFINE new == [NoRequest EXCEPT !.cluster = c, !.label = label, !.todo = Script[op]]
  <2>1. request' = [request EXCEPT ![q] = new]
        /\ UNCHANGED <<cachedConnections, timers, pod, forward>>
    BY <1>5 DEF Begin
  <2>2. new \in Requested /\ new.cluster = c /\ new.label = label
    <3>1. Script[op] \in Todo
      BY TodoBegins
    <3> HIDE DEF Script
    <3>2. QED
      BY <3>1, NoRequestType DEF NoRequest, Requested
  <2> HIDE DEF new
  <2>3. RequestsInv'
    BY <1>0, <2>1, <2>2 DEF RequestsInv
  <2>4. QED
    BY <1>1, <1>2, <2>1, <2>3
<1>6. ASSUME NEW q \in Request, Step(q) PROVE PoolInv'
  <2>1. request[q].todo # <<>>
    BY <1>6 DEF Step, Lookup, GetItemConnection, Keep, Send, Authorise, GetPods, PortForward,
                Grpcurl, StopForward, Throw, At
  <2>2. ASSUME NEW n \in Nat, NEW to \in Connection, Onward(q, n, to) PROVE RequestsInv'
    BY <1>0, <2>1, <2>2, OnwardKeeps
  <2>3. CASE Lookup(q)
    <3>1. UNCHANGED <<cachedConnections, timers, pod, forward>>
      BY <2>3 DEF Lookup
    <3>2. PICK c \in Cluster : c = request[q].cluster
      BY <1>4, <2>1
    <3>3. cluster[c].desired \in DesiredState
      BY DEF SecretsTypeOK
    <3> DEFINE read == [token_id |-> cluster[c].desired.token_id,
                        ca_id |-> cluster[c].desired.ca_id, pod |-> 0]
    <3>4. read \in Connection
      BY <3>3, ConnectionsAssumption DEF DesiredState, Connection
    <3>5. Onward(q, 3, cachedConnections[KeyOf(q)]) \/ Onward(q, 1, read)
      BY <2>3, <3>2 DEF Lookup
    <3> HIDE DEF read
    <3>6. RequestsInv'
      BY <1>4, <2>1, <2>2, <3>4, <3>5
    <3>7. QED
      BY <1>1, <1>2, <3>1, <3>6
  <2>4. CASE GetItemConnection(q)
    <3> DEFINE to == [request[q].to EXCEPT !.pod = pod[request[q].cluster]]
    <3>1. Onward(q, 1, to) /\ UNCHANGED <<cachedConnections, timers, pod, forward>>
      BY <2>4 DEF GetItemConnection
    <3>2. to \in Connection
      BY <1>4, <2>1 DEF Connection
    <3> HIDE DEF to
    <3>3. QED
      BY <1>1, <1>2, <2>2, <3>1, <3>2
  <2>5. CASE Keep(q)
    <3>1. /\ timers[KeyOf(q)] < MaxTimers /\ Onward(q, 1, request[q].to)
          /\ cachedConnections' = [cachedConnections EXCEPT ![KeyOf(q)] = request[q].to]
          /\ timers' = [timers EXCEPT ![KeyOf(q)] = @ + 1]
          /\ UNCHANGED <<pod, forward>>
      BY <2>5 DEF Keep, SetTimeout
    <3>2. KeyOf(q) \in Key /\ timers[KeyOf(q)] + 1 \in 0..MaxTimers /\ request[q].to \in Connection
      BY <1>4, <2>1, <3>1, ConnectionsAssumption
    <3>3. /\ cachedConnections' \in [Key -> Connection]
          /\ timers' \in [Key -> 0..MaxTimers]
      BY <1>2, <3>1, <3>2
    <3>4. QED
      BY <1>1, <1>2, <2>2, <3>1, <3>2, <3>3
  <2>6. CASE GetPods(q)
    <3> DEFINE to == [NoConnection EXCEPT !.pod = pod[request[q].cluster]]
    <3>1. Onward(q, 1, to) /\ UNCHANGED <<cachedConnections, timers, pod, forward>>
      BY <2>6 DEF GetPods
    <3>2. to \in Connection
      BY <1>4, <2>1, NoRequestType DEF NoConnection, Connection
    <3> HIDE DEF to
    <3>3. QED
      BY <1>1, <1>2, <2>2, <3>1, <3>2
  <2>7. CASE Send(q) \/ Authorise(q) \/ Grpcurl(q) \/ PortForward(q) \/ StopForward(q)
    <3>1. /\ Onward(q, 1, NoConnection) \/ Onward(q, 1, request[q].to)
          /\ UNCHANGED <<cachedConnections, timers, pod>>
          /\ forward' = forward \/ \E b \in BOOLEAN : forward' = [forward EXCEPT ![q] = b]
      BY <2>7 DEF Send, Authorise, Grpcurl, PortForward, StopForward
    <3>2. RequestsInv'
      BY <1>4, <2>1, <2>2, <3>1, NoRequestType
    <3>3. forward' \in [Request -> BOOLEAN]
      BY <1>2, <3>1
    <3>4. QED
      BY <1>1, <1>2, <3>1, <3>2, <3>3
  <2>8. CASE Throw(q)
    <3>1. /\ request' = [request EXCEPT ![q] = NoRequest]
          /\ forward' = [forward EXCEPT ![q] = FALSE]
          /\ UNCHANGED <<cachedConnections, timers, pod>>
      BY <2>8 DEF Throw, OnError
    <3>2. RequestsInv'
      BY <1>0, <3>1, NoRequestType DEF RequestsInv
    <3>3. forward' \in [Request -> BOOLEAN]
      BY <1>2, <3>1
    <3>4. QED
      BY <1>1, <1>2, <3>1, <3>2, <3>3
  <2>9. QED
    BY <1>6, <2>3, <2>4, <2>5, <2>6, <2>7, <2>8 DEF Step
<1>7. ASSUME NEW k \in Key, Timeout(k) PROVE PoolInv'
  <2>1. /\ timers[k] > 0 /\ timers' = [timers EXCEPT ![k] = @ - 1]
        /\ cachedConnections' = [cachedConnections EXCEPT ![k] = NoConnection]
        /\ UNCHANGED <<pod, request, forward>>
    BY <1>7 DEF Timeout
  <2>2. timers[k] - 1 \in 0..MaxTimers
    BY <1>2, <2>1, ConnectionsAssumption
  <2>3. cachedConnections' \in [Key -> Connection] /\ timers' \in [Key -> 0..MaxTimers]
    BY <1>2, <2>1, <2>2, NoRequestType
  <2>4. RequestsInv'
    BY <1>0, <2>1 DEF RequestsInv
  <2>5. QED
    BY <1>1, <1>2, <2>1, <2>3, <2>4
<1>8. ASSUME NEW c \in Cluster, PodStarts(c) PROVE PoolInv'
  <2>1. /\ pod[c] < MaxPods /\ pod' = [pod EXCEPT ![c] = @ + 1]
        /\ UNCHANGED <<cachedConnections, timers, request, forward>>
    BY <1>8 DEF PodStarts
  <2>2. pod[c] + 1 \in 0..MaxPods
    BY <1>2, <2>1, ConnectionsAssumption
  <2>3. pod' \in [Cluster -> 0..MaxPods]
    BY <1>2, <2>1, <2>2
  <2>4. RequestsInv'
    BY <1>0, <2>1 DEF RequestsInv
  <2>5. QED
    BY <1>1, <1>2, <2>1, <2>3, <2>4
<1>9. CASE Restart
  <2>1. /\ cachedConnections' = [k \in Key |-> NoConnection] /\ timers' = [k \in Key |-> 0]
        /\ request' = [q \in Request |-> NoRequest] /\ forward' = [q \in Request |-> FALSE]
        /\ pod' = pod
    BY <1>9 DEF Restart
  <2>2. RequestsInv'
    BY <2>1, NoRequestType DEF RequestsInv
  <2>3. /\ cachedConnections' \in [Key -> Connection] /\ timers' \in [Key -> 0..MaxTimers]
        /\ forward' \in [Request -> BOOLEAN]
    BY <2>1, NoRequestType, ConnectionsAssumption
  <2>4. QED
    BY <1>1, <1>2, <2>1, <2>2, <2>3
<1>10. QED
  BY <1>3, <1>5, <1>6, <1>7, <1>8, <1>9 DEF Next, vars

\* Whatever forms are sent, in whatever order, and however the tasks and edits
\* in between end: an edit changes what it gives and keeps the rest, unless it
\* is one of the excepted ones.
THEOREM EditsOnlyChangeWhatTheyGive == Spec => []EditsKeepTheRest
<1> DEFINE IInv == SecretsInv /\ BoundsInv /\ NewestInv
<1>1. Init => IInv
  BY InitSecrets, InitBounds, InitNewest DEF Init
<1>2. IInv /\ [Next]_vars => IInv'
  BY NextKeeps, BoundsStep, NewestStep
<1>3. IInv => EditsKeepTheRest
  <2> SUFFICES ASSUME IInv, ~excused, NEW c \in Cluster
               PROVE  /\ \A name \in {"token", "ca"} :
                            LET desired == PointerTo(cluster[c].desired, name)
                                applied == PointerTo(cluster[c].applied, name)
                            IN
                            /\ applied = 0 \/ applied \in RowsOf(c, name)
                            /\ \/ IsNewest(c, name, desired)
                               \/ <<c, name>> \in failed /\ desired = applied
                      /\ cluster[c].applied.token_id # 0 => cluster[c].desired.ca_id # 0
                      /\ (\A e \in Editor : edit[e].at # "written") => CredentialsOf(c) = asked[c]
    BY DEF EditsKeepTheRest
  <2>1. KindInv /\ OwnersInv /\ PointersInv /\ MergeInv
    BY DEF SecretsInv
  <2>2. \A name \in {"token", "ca"} : Kept(c, name)
    BY DEF NewestInv
  <2>3. cluster[c].applied.token_id # 0 => cluster[c].desired.ca_id # 0
    BY <2>1 DEF PointersInv, HasBoth, HasSecret, KindInv
  <2>4. (\A e \in Editor : edit[e].at # "written") => CredentialsOf(c) = asked[c]
    <3>1. CASE cluster[c].type = "user"
      BY <2>1, <3>1 DEF MergeInv, Writes
    <3>2. CASE cluster[c].type # "user"
      BY <2>1, <3>2 DEF OwnersInv, CredentialsOf
    <3>3. QED
      BY <3>1, <3>2
  <2>5. QED
    BY <2>2, <2>3, <2>4 DEF Kept
<1>4. QED
  BY <1>1, <1>2, <1>3, PTL DEF Spec

\* The bounds that TLC's instance gives the counters hold for any number of
\* clusters, editors and requests: a task of a cluster is from its creation or
\* from an edit, which is a call, however edits overlap, fail or are lost in a
\* restart; pointers are to rows that exist; and a request that is cut off at
\* any step is always left with the rest of the list that it began with.
THEOREM ConnectionTypes == Spec => []TypeOK
<1> DEFINE IInv == SecretsInv /\ RoomInv /\ BoundsInv /\ NewestInv /\ PoolInv
<1>1. Init => IInv
  <2> SUFFICES ASSUME Init PROVE IInv
    OBVIOUS
  <2>1. SecretsInit
    BY DEF Init
  <2>2. SecretsInv
    BY <2>1, InitSecrets
  <2>3. RoomInv
    <3>1. \A c \in Cluster : Editors(c) = {} /\ tasks[c] = 0 /\ cluster[c].type = "none"
      BY <2>1 DEF SecretsInit, Editors, NoEdit
    <3>2. calls = 0
      BY <2>1 DEF SecretsInit
    <3>3. QED
      BY <3>1, <3>2, FS_EmptySet DEF RoomInv
  <2>4. BoundsInv /\ NewestInv
    BY <2>1, InitBounds, InitNewest
  <2>5. PoolInv
    <3>1. request = [q \in Request |-> NoRequest]
      BY DEF Init
    <3>2. RequestsInv
      BY <3>1, NoRequestType DEF RequestsInv
    <3>3. QED
      BY <3>2, NoRequestType, ConnectionsAssumption DEF Init, PoolInv, RequestsInv, Requested
  <2>6. QED
    BY <2>2, <2>3, <2>4, <2>5
<1>2. IInv /\ [Next]_vars => IInv'
  <2> SUFFICES ASSUME IInv, [Next]_vars PROVE IInv'
    OBVIOUS
  <2>1. SecretsInv'
    BY NextKeeps
  <2>2. RoomInv'
    BY <2>1, RoomStep
  <2>3. BoundsInv'
    BY BoundsStep
  <2>4. SecretsTypeOK /\ NewestInv'
    BY <2>1, BoundedTypes, NewestStep DEF SecretsInv, NewestInv
  <2>5. PoolInv'
    BY <2>4, PoolStep
  <2>6. QED
    BY <2>1, <2>2, <2>3, <2>4, <2>5
<1>3. IInv => TypeOK
  BY BoundedTypes DEF SecretsInv, NewestInv, PoolInv, TypeOK
<1>4. QED
  BY <1>1, <1>2, <1>3, PTL DEF Spec

=============================================================================

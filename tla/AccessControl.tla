--------------------------- MODULE AccessControl ---------------------------
(***************************************************************************)
(* Users, roles and the decision whether a request may go on.  A request   *)
(* carries the user as the session or the token gave it, asks RBAC, and    *)
(* then acts; what it relied on may have changed by then, for nothing is   *)
(* locked.  Modelled in full are the requests that change users and roles. *)
(***************************************************************************)
EXTENDS Routes, Naturals, FiniteSets

CONSTANTS
    User, NoUser,
    Cluster, Deployment, NoResource,
    ClusterOf,             \* deployment.cluster
    Request,               \* requests that may be in progress at once
    RoleId, NoRow          \* as many roles as there may be at once

Resource == Cluster \cup Deployment

ASSUME AccessAssumption ==
    /\ NoUser \notin User
    /\ Cluster \cap Deployment = {}
    /\ NoResource \notin Resource
    /\ ClusterOf \in [Deployment -> Cluster]
    /\ NoRow \notin RoleId
    /\ IsFiniteSet(Request) /\ Request # {}

USER_TYPES == {"superuser", "admin", "user"}
USER_ACCESS_LEVELS == [superuser |-> 3, admin |-> 2, user |-> 1]
PERMISSION_TYPES == {"read", "write"}
PERMISSION_ACCESS_LEVELS == [read |-> 1, write |-> 2]

VARIABLES
    permission,    \* user -> useraccount.permission, or "absent"
    role,          \* role id -> the row, or NoRole
    made,          \* resources that have been created
    request,       \* request -> where its handler is and what it goes by
    excused        \* an update or delete was made for a user who had changed
                   \* meanwhile, or an admin has updated a superuser

vars == <<permission, role, made, request, excused>>

Account == [user : User \cup {NoUser}, permission : USER_TYPES \cup {"none"}]
Nobody == [user |-> NoUser, permission |-> "none"]
Loaded(u) == [user |-> u, permission |-> permission[u]]

RoleRow == [user : User, resource : Resource, permission : PERMISSION_TYPES]
NoRole == [user |-> NoUser, resource |-> NoResource, permission |-> "none"]

RoleOps == {"createRole", "deleteRole"}
UserOps == {"create", "update", "delete"}

Idle == [op |-> "none", found |-> FALSE, as |-> Nobody, target |-> NoUser,
         on |-> NoResource, row |-> NoRow, first |-> FALSE]

Requests ==
    [op : RoleOps \cup UserOps \cup {"none"},
     found : BOOLEAN,                     \* the handler has made its selects
     as : Account,                        \* req.user, while it is still used
     target : User \cup {NoUser},         \* whose role, or which user
     on : Resource \cup {NoResource},
     row : RoleId \cup {NoRow},            \* the role that deleteRole found
     first : BOOLEAN]                     \* existingUsers === 0

TypeOK ==
    /\ permission \in [User -> USER_TYPES \cup {"absent"}]
    /\ role \in [RoleId -> RoleRow \cup {NoRole}]
    /\ made \in SUBSET Resource
    /\ request \in [Request -> Requests]
    /\ excused \in BOOLEAN

Users == {u \in User : permission[u] # "absent"}
Superusers == {u \in User : permission[u] = "superuser"}
RolesOf(u, r) == {i \in RoleId : role[i].user = u /\ role[i].resource = r}

\* Started with or without an initial user in the settings.
Init ==
    /\ \E first \in SUBSET User :
          /\ Cardinality(first) <= 1
          /\ permission = [u \in User |-> IF u \in first THEN "superuser" ELSE "absent"]
    /\ role = [i \in RoleId |-> NoRole]
    /\ made = {}
    /\ request = [q \in Request |-> Idle]
    /\ excused = FALSE

-----------------------------------------------------------------------------
(* rbac.ts *)

HasMinimumUserType(as, type) ==
    as # Nobody /\ USER_ACCESS_LEVELS[as.permission] >= USER_ACCESS_LEVELS[type]

\* A rule of METHOD_CONFIG; a method that looks after itself is a kind of its own.
Rule(kind, type, perm, for) == [kind |-> kind, type |-> type, perm |-> perm, for |-> for]
AtLeast(type) == Rule("minimum", type, "none", "self")
WithRole(type, perm) == Rule("minimum", type, perm, "self")
OwnRecordOr(type) == Rule("own", type, "none", "self")
InitialAccount == Rule("initial", "admin", "none", "self")

\* Mutant of ClusterRules: nobody needs to be an admin to delete a cluster.
ClusterRulesWithoutAdmin ==
    [list |-> AtLeast("user"), get |-> WithRole("user", "read"), create |-> AtLeast("admin"),
     update |-> WithRole("user", "write"), updateRole |-> WithRole("admin", "write"),
     delete |-> WithRole("user", "write")]

ClusterRules ==
    [list |-> AtLeast("user"),
     get |-> WithRole("user", "read"),
     create |-> AtLeast("admin"),
     update |-> WithRole("user", "write"),
     updateRole |-> WithRole("admin", "write"),
     delete |-> WithRole("admin", "write")]

METHOD_CONFIG ==
    [administration |->
        [restart |-> AtLeast("superuser"), startTime |-> AtLeast("superuser")],
     user |->
        [list |-> AtLeast("admin"), get |-> OwnRecordOr("admin"), create |-> InitialAccount,
         update |-> OwnRecordOr("admin"), token |-> OwnRecordOr("nobody"),
         delete |-> AtLeast("superuser")],
     cluster |-> ClusterRules,
     deployment |->
        [list |-> AtLeast("user"),
         get |-> WithRole("user", "read"),
         create |-> Rule("minimum", "user", "write", "cluster"),
         update |-> WithRole("user", "write"),
         updateRole |-> WithRole("admin", "write"),
         delete |-> WithRole("user", "write")]]

\* store.role.get gives any one of the rows of a user on a resource; the
\* answers of checkMinimumPermission are those of each.
CheckMinimumPermission(rule, as, id, cluster) ==
    LET asked == IF cluster # NoResource /\ rule.for = "cluster" THEN cluster ELSE id
        rows == IF asked = NoResource THEN {} ELSE RolesOf(as.user, asked)
    IN IF rows = {} THEN {FALSE}
       ELSE {PERMISSION_ACCESS_LEVELS[role[i].permission] >= PERMISSION_ACCESS_LEVELS[rule.perm]
                : i \in rows}

AllowUserAccessToOwnRecord(rule, as, target) ==
    \/ rule.type # "nobody" /\ HasMinimumUserType(as, rule.type)
    \/ as # Nobody /\ as.user = target

AllowInitialAccountCreation(as) ==
    IF as = Nobody THEN Users = {} ELSE HasMinimumUserType(as, "admin")

\* The answers RBAC may give.
RBAC(as, type, method, target, id, cluster) ==
    LET rule == METHOD_CONFIG[type][method] IN
    CASE rule.kind = "own" -> {AllowUserAccessToOwnRecord(rule, as, target)}
      [] rule.kind = "initial" -> {AllowInitialAccountCreation(as)}
      [] OTHER ->
            IF as = Nobody THEN {FALSE}
            ELSE IF HasMinimumUserType(as, "superuser") THEN {TRUE}
            ELSE IF ~HasMinimumUserType(as, rule.type) THEN {FALSE}
            ELSE IF rule.perm = "none" THEN {TRUE}
            ELSE CheckMinimumPermission(rule, as, id, cluster)

\* On a resource that is there: the id and the cluster in the request's path.
ResourceAnswers(as, type, method, r) ==
    IF r \in Cluster
    THEN RBAC(as, type, method, NoUser, IF type = "cluster" THEN r ELSE NoResource,
              IF type = "cluster" THEN NoResource ELSE r)
    ELSE RBAC(as, type, method, NoUser, r, ClusterOf[r])

-----------------------------------------------------------------------------
(* A request up to its handler. *)

EndRequest(q) == request' = [request EXCEPT ![q] = Idle]
Continue(q, r) == request' = [request EXCEPT ![q] = r]

At(q, op, found) == request[q].op = op /\ request[q].found = found

\* The session or the token names a user, who is loaded, and the RBAC middleware
\* lets the request through; one that it denies changes nothing.  Without a
\* session or a token there is no user.
Enter(q, op, as, target, on) ==
    /\ request[q] = Idle
    /\ TRUE \in (IF op \in RoleOps
                 THEN ResourceAnswers(as, IF on \in Cluster THEN "cluster" ELSE "deployment",
                                      "updateRole", on)
                 ELSE RBAC(as, "user", op, target, NoResource, NoResource))
    /\ Continue(q, [Idle EXCEPT !.op = op, !.target = target, !.on = on,
                               !.as = IF op \in {"update", "delete"} THEN as ELSE Nobody])
    /\ UNCHANGED <<permission, role, made, excused>>

EnterRoute(q) ==
    \E as \in {Loaded(u) : u \in Users} \cup {Nobody} :
        \/ \E op \in RoleOps, r \in made : Enter(q, op, as, NoUser, r)
        \/ \E op \in {"update", "delete"}, u \in User : Enter(q, op, as, u, NoResource)
        \/ Enter(q, "create", as, NoUser, NoResource)

-----------------------------------------------------------------------------
(* Roles. *)

\* An id is not used again while a request still knows it.
InsertRole(u, r, perm) ==
    \E i \in RoleId :
        /\ role[i] = NoRole
        /\ \A q \in Request : request[q].row # i
        /\ role' = [role EXCEPT ![i] = [user |-> u, resource |-> r, permission |-> perm]]

\* Mutant of GrantAgainst: the existing role is not looked for.
GrantRegardless(u, r) == permission[u] \in {"admin", "user"}

\* createRoleForResource: there is such a user, who is not a superuser and has
\* no role for the resource.
GrantAgainst(u, r) ==
    /\ permission[u] \in {"admin", "user"}
    /\ RolesOf(u, r) = {}

FindNoRole(q, u) ==
    /\ At(q, "createRole", FALSE)
    /\ GrantAgainst(u, request[q].on)
    /\ Continue(q, [request[q] EXCEPT !.found = TRUE, !.target = u])
    /\ UNCHANGED <<permission, role, made, excused>>

\* A role of a user who has gone is refused by the foreign key.
CreateRole(q, perm) ==
    /\ At(q, "createRole", TRUE)
    /\ request[q].target \in Users
    /\ InsertRole(request[q].target, request[q].on, perm)
    /\ EndRequest(q)
    /\ UNCHANGED <<permission, made, excused>>

FindRole(q, i) ==
    /\ At(q, "deleteRole", FALSE)
    /\ role[i].resource = request[q].on
    /\ Continue(q, [request[q] EXCEPT !.found = TRUE, !.row = i])
    /\ UNCHANGED <<permission, role, made, excused>>

DeleteRole(q) ==
    /\ At(q, "deleteRole", TRUE)
    /\ role' = [role EXCEPT ![request[q].row] = NoRole]
    /\ EndRequest(q)
    /\ UNCHANGED <<permission, made, excused>>

\* A user who is no superuser gets a write role on what they create.
CreateResource(u, r) ==
    /\ r \notin made /\ u \in Users
    /\ IF r \in Cluster THEN HasMinimumUserType(Loaded(u), "admin")
       ELSE ClusterOf[r] \in made
            /\ TRUE \in ResourceAnswers(Loaded(u), "deployment", "create", ClusterOf[r])
    /\ made' = made \cup {r}
    /\ IF u \in Superusers THEN UNCHANGED role ELSE InsertRole(u, r, "write")
    /\ UNCHANGED <<permission, request, excused>>

\* Deleting a resource permanently deletes its roles.
DeleteForResource(r) ==
    /\ r \in made
    /\ role' = [i \in RoleId |-> IF role[i].resource = r THEN NoRole ELSE role[i]]
    /\ UNCHANGED <<permission, made, request, excused>>

-----------------------------------------------------------------------------
(* Users. *)

\* controller.user.create counts the users ...
Count(q) ==
    /\ At(q, "create", FALSE)
    /\ Continue(q, [request[q] EXCEPT !.found = TRUE, !.first = (Users = {})])
    /\ UNCHANGED <<permission, role, made, excused>>

\* ... and makes the first one a superuser, whatever was asked for.
Granted(first) == IF first THEN {"superuser"} ELSE USER_TYPES

CreateUser(q, u) ==
    /\ At(q, "create", TRUE)
    /\ u \notin Users
    /\ \E p \in Granted(request[q].first) : permission' = [permission EXCEPT ![u] = p]
    /\ EndRequest(q)
    /\ UNCHANGED <<role, made, excused>>

Overtaken(as) == permission[as.user] # as.permission

\* Mutant of MayUpdate: users may change their own permission.
MayUpdateAlways(as, target, p) == TRUE

\* "cannot change own permission", as it was when the request came in.
MayUpdate(as, target, p) == as.user = target => p = as.permission

\* The update of a user who has gone is no error, and no change.
UpdateUser(q, p) ==
    LET as == request[q].as  target == request[q].target IN
    /\ At(q, "update", FALSE)
    /\ target \in Users /\ MayUpdate(as, target, p)
    /\ permission' = [permission EXCEPT ![target] = p]
    /\ excused' = (\/ excused
                   \/ Overtaken(as)
                   \/ as.permission = "admin" /\ target \in Superusers)
    /\ EndRequest(q)
    /\ UNCHANGED <<role, made>>

\* "cannot delete yourself"
MayDelete(as, target) == as.user # target

\* Mutant of WithoutRolesOf: the foreign key sets the user of the roles to null.
WithRolesOfNobody(u) ==
    [i \in RoleId |-> IF role[i].user = u THEN [role[i] EXCEPT !.user = NoUser] ELSE role[i]]

\* The foreign key cascades: the roles go with the user.
WithoutRolesOf(u) ==
    [i \in RoleId |-> IF role[i].user = u THEN NoRole ELSE role[i]]

DeleteUser(q) ==
    LET as == request[q].as  target == request[q].target IN
    /\ At(q, "delete", FALSE)
    /\ MayDelete(as, target)
    /\ permission' = [permission EXCEPT ![target] = "absent"]
    /\ role' = WithoutRolesOf(target)
    /\ excused' = (excused \/ Overtaken(as))
    /\ EndRequest(q)
    /\ UNCHANGED made

\* A condition that does not hold, validation, the database (a user with tasks
\* cannot be deleted) or the client ends a request early.
Throw(q) ==
    /\ request[q] # Idle
    /\ EndRequest(q)
    /\ UNCHANGED <<permission, role, made, excused>>

-----------------------------------------------------------------------------
Handle(q) ==
    \/ \E u \in User : FindNoRole(q, u) \/ CreateUser(q, u)
    \/ \E perm \in PERMISSION_TYPES : CreateRole(q, perm)
    \/ \E i \in RoleId : FindRole(q, i)
    \/ \E p \in USER_TYPES : UpdateUser(q, p)
    \/ DeleteRole(q) \/ Count(q) \/ DeleteUser(q) \/ Throw(q)

Next ==
    \/ \E q \in Request : EnterRoute(q) \/ Handle(q)
    \/ \E r \in Resource :
          \/ \E u \in User : CreateResource(u, r)
          \/ DeleteForResource(r)

Spec == Init /\ [][Next]_vars

-----------------------------------------------------------------------------
(* docs/rbac.md, row by row: what a user type may do with a role, or none. *)

DocumentedForCluster ==
    {<<"user", "none", {}>>,
     <<"user", "read", {"get"}>>,
     <<"user", "write", {"get", "update", "create deployment"}>>,
     <<"admin", "none", {"create"}>>,
     <<"admin", "read", {"create", "get"}>>,
     <<"admin", "write", {"create", "get", "update", "delete", "create deployment", "updateRole"}>>}

DocumentedForDeployment ==
    {<<"user", "none", {}>>,
     <<"user", "read", {"get"}>>,
     <<"user", "write", {"get", "update", "delete"}>>,
     <<"admin", "none", {}>>,
     <<"admin", "read", {"get"}>>,
     <<"admin", "write", {"get", "update", "delete", "updateRole"}>>}

\* The columns that are allowed, if the decision rests on one row only.
AllowedOn(u, r) ==
    LET type == IF r \in Cluster THEN "cluster" ELSE "deployment"
        columns == IF r \in Cluster
                   THEN {"create", "get", "update", "delete", "updateRole"}
                   ELSE {"get", "update", "delete", "updateRole"}
    IN {m \in columns : ResourceAnswers(Loaded(u), type, m, r) = {TRUE}}
         \cup (IF r \in Cluster /\ ResourceAnswers(Loaded(u), "deployment", "create", r) = {TRUE}
               THEN {"create deployment"} ELSE {})

RoleNames(u, r) ==
    IF RolesOf(u, r) = {} THEN {"none"} ELSE {role[i].permission : i \in RolesOf(u, r)}

\* In every state, RBAC lets each user do with each resource exactly what the
\* row of their type and role in docs/rbac.md says, and a superuser everything.
DecisionsAsDocumented ==
    \A u \in Users, r \in made : Cardinality(RoleNames(u, r)) = 1 =>
        IF u \in Superusers
        THEN AllowedOn(u, r) = UNION {row[3] : row \in IF r \in Cluster THEN DocumentedForCluster
                                                       ELSE DocumentedForDeployment}
        ELSE \E row \in (IF r \in Cluster THEN DocumentedForCluster ELSE DocumentedForDeployment) :
                /\ row[1] = permission[u]
                /\ RoleNames(u, r) = {row[2]}
                /\ AllowedOn(u, r) = row[3]

\* The guards of the routes that change a resource which is there: those with
\* another verb than get, but for the proxy.
ChangingGuards ==
    {<<route.type, route.method>> :
        route \in {x \in Routes : x.type \in {"cluster", "deployment"} /\ x.verb \notin {"get", "any"}}}
      \ {<<"cluster", "create">>}

\* Who has no write role on a resource gets past the guard of no route that
\* changes it, except for the proxy, which is guarded like a read.
ReadersChangeNothing ==
    \A u \in Users \ Superusers, r \in made : \A guard \in ChangingGuards :
        /\ r \in Cluster <=> guard[1] = "cluster" \/ guard[2] = "create"
        /\ TRUE \in ResourceAnswers(Loaded(u), guard[1], guard[2], r)
        => "write" \in RoleNames(u, r)

\* However grants overlap, a user never has more roles on a resource than
\* there can be requests at once.
RolesBounded ==
    \A u \in User, r \in Resource : Cardinality(RolesOf(u, r)) <= Cardinality(Request)

\* "to prevent a superuser locking themselves out of the system": once there
\* are users there is a superuser, as long as no request acted for a user who
\* had changed since it came in and no admin updated a superuser.
ASuperuserRemains ==
    ~excused /\ Users # {} => Superusers # {}

=============================================================================

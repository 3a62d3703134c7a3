------------------------ MODULE AccessControlProofs ------------------------
(***************************************************************************)
(* Proofs about users and roles, for every set of users, clusters and      *)
(* deployments and any number of requests at once.                         *)
(***************************************************************************)
EXTENDS AccessControl, FiniteSetTheorems, TLAPS

\* What RBAC had made sure of when it let a request through, which stays with
\* the request: a user is deleted by a superuser, and updated by an admin, a
\* superuser or themselves.
AdmittedInv ==
    \A q \in Request :
        LET as == request[q].as IN
        /\ request[q].op \in {"update", "delete"} => as.user \in User /\ as.permission \in USER_TYPES
        /\ request[q].op = "update" =>
              as.permission \in {"superuser", "admin"} \/ as.user = request[q].target
        /\ request[q].op = "delete" => as.permission = "superuser"

\* Requests about roles are about a resource that has been created.
RoleRequestsInv ==
    \A q \in Request : request[q].op \in RoleOps => request[q].on \in made

\* Where a request to create a user found others, there still are users.
CountedInv ==
    ~excused => \A q \in Request : At(q, "create", TRUE) /\ ~request[q].first => Users # {}

\* The requests that have found a user without a role on a resource and are
\* about to grant one.
Granting(u, r) ==
    {q \in Request : /\ At(q, "createRole", TRUE)
                     /\ request[q].target = u /\ request[q].on = r}

\* Only resources that have been created have roles.
RolesOnMade == \A i \in RoleId : role[i] # NoRole => role[i].resource \in made

\* The roles of a user on a resource and the requests about to grant one are
\* together no more than there are requests.
GrantsInv ==
    \A u \in User, r \in Resource :
        /\ IsFiniteSet(RolesOf(u, r))
        /\ Cardinality(RolesOf(u, r)) + Cardinality(Granting(u, r)) <= Cardinality(Request)

LockoutInv == TypeOK /\ RoleRequestsInv /\ AdmittedInv /\ CountedInv /\ ASuperuserRemains

-----------------------------------------------------------------------------
LEMMA LoadedType ==
    ASSUME TypeOK, NEW u \in Users
    PROVE  Loaded(u) \in [user : User, permission : USER_TYPES]
  BY DEF TypeOK, Users, Loaded, USER_TYPES

\* What the two guards of the routes that change users come to.
LEMMA OwnRecordRule ==
    ASSUME NEW as, NEW u
    PROVE  /\ METHOD_CONFIG["user"]["update"].type = "admin"
           /\ RBAC(as, "user", "update", u, NoResource, NoResource)
                 = {AllowUserAccessToOwnRecord(METHOD_CONFIG["user"]["update"], as, u)}
<1>1. /\ METHOD_CONFIG["user"]["update"].kind = "own"
      /\ METHOD_CONFIG["user"]["update"].type = "admin"
  BY DEF METHOD_CONFIG, OwnRecordOr, Rule
<1>2. QED
  BY <1>1 DEF RBAC

LEMMA SuperuserRule ==
    ASSUME NEW as, NEW u, TRUE \in RBAC(as, "user", "delete", u, NoResource, NoResource)
    PROVE  as # Nobody /\ HasMinimumUserType(as, "superuser")
<1> DEFINE rule == METHOD_CONFIG["user"]["delete"]
<1>1. rule.kind = "minimum" /\ rule.type = "superuser"
  BY DEF METHOD_CONFIG, AtLeast, Rule
<1> HIDE DEF rule
<1>2. TRUE \notin {FALSE}
  OBVIOUS
<1>3. as # Nobody
  BY <1>1, <1>2 DEF RBAC, rule
<1>4. HasMinimumUserType(as, "superuser")
  BY <1>1, <1>2, <1>3 DEF RBAC, rule
<1>5. QED
  BY <1>3, <1>4

\* A user is updated by an admin, a superuser or themselves.
LEMMA UpdateAdmits ==
    ASSUME NEW as, NEW u, TRUE \in RBAC(as, "user", "update", u, NoResource, NoResource)
    PROVE  /\ as # Nobody
           /\ as.permission \in USER_TYPES =>
                 as.permission \in {"superuser", "admin"} \/ as.user = u
<1> DEFINE rule == METHOD_CONFIG["user"]["update"]
<1>1. rule.type = "admin"
  BY OwnRecordRule
<1>2. AllowUserAccessToOwnRecord(rule, as, u)
  BY OwnRecordRule, Zenon
<1> HIDE DEF rule
<1>3. HasMinimumUserType(as, "admin") \/ (as # Nobody /\ as.user = u)
  BY <1>1, <1>2 DEF AllowUserAccessToOwnRecord
<1>4. as.permission = "user" => ~HasMinimumUserType(as, "admin")
  BY DEF HasMinimumUserType, USER_ACCESS_LEVELS
<1>5. QED
  BY <1>3, <1>4 DEF HasMinimumUserType, USER_TYPES

\* A user is deleted by a superuser.
LEMMA DeleteAdmits ==
    ASSUME NEW as, NEW u, TRUE \in RBAC(as, "user", "delete", u, NoResource, NoResource)
    PROVE  as # Nobody /\ (as.permission \in USER_TYPES => as.permission = "superuser")
<1>1. as.permission = "user" => ~HasMinimumUserType(as, "superuser")
  BY DEF HasMinimumUserType, USER_ACCESS_LEVELS
<1>2. as.permission = "admin" => ~HasMinimumUserType(as, "superuser")
  BY DEF HasMinimumUserType, USER_ACCESS_LEVELS
<1>3. QED
  BY <1>1, <1>2, SuperuserRule DEF USER_TYPES

-----------------------------------------------------------------------------
LEMMA InitLockout == Init => LockoutInv
<1> SUFFICES ASSUME Init PROVE LockoutInv
  OBVIOUS
<1>1. TypeOK
  BY AccessAssumption DEF Init, TypeOK, USER_TYPES, Requests, Idle, Account, Nobody
<1>2. RoleRequestsInv /\ AdmittedInv /\ CountedInv
  BY DEF Init, RoleRequestsInv, RoleOps, AdmittedInv, CountedInv, At, Idle
<1>3. ASuperuserRemains
  BY DEF Init, ASuperuserRemains, Users, Superusers
<1>4. QED
  BY <1>1, <1>2, <1>3 DEF LockoutInv

LEMMA InsertType ==
    ASSUME TypeOK, NEW u \in User, NEW r \in Resource, NEW perm \in PERMISSION_TYPES,
           InsertRole(u, r, perm)
    PROVE  role' \in [RoleId -> RoleRow \cup {NoRole}]
  BY DEF TypeOK, InsertRole, RoleRow

LEMMA ContinueType ==
    ASSUME TypeOK, NEW q \in Request, NEW r \in Requests, Continue(q, r)
    PROVE  request' \in [Request -> Requests]
  BY DEF TypeOK, Continue

\* What a request carries once it is let through.
LEMMA EnterSets ==
    ASSUME TypeOK, NEW q \in Request, NEW op, NEW as, NEW t, NEW on, Enter(q, op, as, t, on)
    PROVE  /\ \A p \in Request \ {q} : request'[p] = request[p]
           /\ request'[q].op = op /\ request'[q].target = t /\ request'[q].on = on
           /\ op \in {"update", "delete"} => request'[q].as = as
           /\ ~request'[q].found
           /\ UNCHANGED <<permission, role, made, excused>>
<1> DEFINE new == [Idle EXCEPT !.op = op, !.target = t, !.on = on,
                              !.as = IF op \in {"update", "delete"} THEN as ELSE Nobody]
<1>1. /\ new.op = op /\ new.target = t /\ new.on = on /\ ~new.found
      /\ op \in {"update", "delete"} => new.as = as
  BY DEF Idle
<1>2. request' = [request EXCEPT ![q] = new] /\ UNCHANGED <<permission, role, made, excused>>
  BY DEF Enter, Continue
<1> HIDE DEF new
<1>3. QED
  BY <1>1, <1>2 DEF TypeOK

\* Which requests there are.
LEMMA EnterCases ==
    ASSUME NEW q \in Request, EnterRoute(q)
    PROVE  \E as \in {Loaded(u) : u \in Users} \cup {Nobody} : \E op, t, on :
              /\ Enter(q, op, as, t, on)
              /\ (op \in RoleOps => on \in made)
              /\ (op \in {"update", "delete"} => on = NoResource)
<1> DEFINE Some == \E as \in {Loaded(u) : u \in Users} \cup {Nobody} : \E op, t, on :
                      /\ Enter(q, op, as, t, on)
                      /\ (op \in RoleOps => on \in made)
                      /\ (op \in {"update", "delete"} => on = NoResource)
<1>1. PICK as \in {Loaded(u) : u \in Users} \cup {Nobody} :
          \/ \E op \in RoleOps, r \in made : Enter(q, op, as, NoUser, r)
          \/ \E op \in {"update", "delete"}, u \in User : Enter(q, op, as, u, NoResource)
          \/ Enter(q, "create", as, NoUser, NoResource)
  BY DEF EnterRoute
<1>2. ASSUME NEW op \in RoleOps, NEW r \in made, Enter(q, op, as, NoUser, r)
      PROVE  Some
  <2>1. op \notin {"update", "delete"}
    BY DEF RoleOps
  <2>2. QED
    BY <1>2, <2>1
<1>3. ASSUME NEW op \in {"update", "delete"}, NEW u \in User, Enter(q, op, as, u, NoResource)
      PROVE  Some
  <2>1. op \notin RoleOps
    BY DEF RoleOps
  <2>2. QED
    BY <1>3, <2>1
<1>4. CASE Enter(q, "create", as, NoUser, NoResource)
  <2>1. "create" \notin RoleOps
    BY DEF RoleOps
  <2>2. QED
    BY <1>4, <2>1
<1>5. QED
  BY <1>1, <1>2, <1>3, <1>4

\* What a step of a handler leaves of the requests: those about roles and the
\* creation of users take two, the others end at once.
LEMMA HandleSets ==
    ASSUME TypeOK, NEW q \in Request, Handle(q)
    PROVE  /\ made' = made
           /\ \A p \in Request \ {q} : request'[p] = request[p]
           /\ \/ request'[q] = Idle
              \/ Count(q) /\ request'[q].op = "create"
              \/ /\ request[q].op \in RoleOps
                 /\ request'[q].op = request[q].op /\ request'[q].on = request[q].on
<1> DEFINE Left == /\ made' = made
                   /\ \A p \in Request \ {q} : request'[p] = request[p]
                   /\ \/ request'[q] = Idle
                      \/ Count(q) /\ request'[q].op = "create"
                      \/ /\ request[q].op \in RoleOps
                         /\ request'[q].op = request[q].op /\ request'[q].on = request[q].on
<1> USE DEF Continue, EndRequest, TypeOK
<1>1. ASSUME NEW u \in User, FindNoRole(q, u) PROVE Left
  BY <1>1 DEF FindNoRole, At, RoleOps, Requests
<1>2. ASSUME NEW i \in RoleId, FindRole(q, i) PROVE Left
  BY <1>2 DEF FindRole, At, RoleOps, Requests
<1>3. CASE Count(q)
  BY <1>3 DEF Count, At, Requests
<1>4. ASSUME NEW u \in User, CreateUser(q, u) PROVE Left
  BY <1>4 DEF CreateUser
<1>5. ASSUME NEW perm \in PERMISSION_TYPES, CreateRole(q, perm) PROVE Left
  BY <1>5 DEF CreateRole
<1>6. ASSUME NEW p \in USER_TYPES, UpdateUser(q, p) PROVE Left
  BY <1>6 DEF UpdateUser
<1>7. CASE DeleteRole(q) \/ DeleteUser(q) \/ Throw(q)
  BY <1>7 DEF DeleteRole, DeleteUser, Throw
<1>8. QED
  BY <1>1, <1>2, <1>3, <1>4, <1>5, <1>6, <1>7 DEF Handle

LEMMA EnterType ==
    ASSUME TypeOK, NEW q \in Request, EnterRoute(q)
    PROVE  /\ request' \in [Request -> Requests]
           /\ UNCHANGED <<permission, role, made, excused>>
<1>1. PICK as \in {Loaded(u) : u \in Users} \cup {Nobody}, op \in RoleOps \cup UserOps,
           t \in User \cup {NoUser}, on \in Resource \cup {NoResource} : Enter(q, op, as, t, on)
  BY DEF EnterRoute, RoleOps, UserOps, TypeOK
<1>2. as \in Account
  <2>1. Nobody \in Account
    BY DEF Account, Nobody
  <2>2. ASSUME NEW u \in Users PROVE Loaded(u) \in Account
    BY LoadedType DEF Account
  <2>3. QED
    BY <2>1, <2>2
<1>3. QED
  BY ZenonT(60), <1>1, <1>2 DEF Enter, Continue, TypeOK, Requests, Idle, Account, Nobody

\* Type correctness is preserved, action by action.
LEMMA TypeStep ==
    ASSUME TypeOK, RoleRequestsInv, [Next]_vars
    PROVE  TypeOK'
<1> USE AccessAssumption
<1>0. Idle \in Requests
  BY DEF Requests, Idle, Account, Nobody
<1>1. ASSUME NEW q \in Request, EnterRoute(q) PROVE TypeOK'
  BY <1>1, EnterType DEF TypeOK
<1>2. ASSUME NEW q \in Request, NEW u \in User, FindNoRole(q, u) PROVE TypeOK'
  BY ZenonT(60), <1>2 DEF FindNoRole, Continue, TypeOK, Requests
<1>3. ASSUME NEW q \in Request, NEW u \in User, CreateUser(q, u) PROVE TypeOK'
  BY <1>0, <1>3 DEF CreateUser, EndRequest, Granted, TypeOK, USER_TYPES
<1>4. ASSUME NEW q \in Request, NEW perm \in PERMISSION_TYPES, CreateRole(q, perm) PROVE TypeOK'
  <2>1. request[q].target \in User /\ request[q].on \in Resource
    BY <1>4 DEF CreateRole, At, Users, TypeOK, RoleRequestsInv, RoleOps
  <2>2. QED
    BY <1>0, <1>4, <2>1, InsertType DEF CreateRole, EndRequest, TypeOK
<1>5. ASSUME NEW q \in Request, NEW i \in RoleId, FindRole(q, i) PROVE TypeOK'
  <2>1. [request[q] EXCEPT !.found = TRUE, !.row = i] \in Requests
    BY ZenonT(60) DEF TypeOK, Requests
  <2>2. QED
    BY <1>5, <2>1, ContinueType DEF FindRole, TypeOK
<1>6. ASSUME NEW q \in Request, NEW p \in USER_TYPES, UpdateUser(q, p) PROVE TypeOK'
  BY <1>0, <1>6 DEF UpdateUser, EndRequest, TypeOK
<1>7. ASSUME NEW q \in Request, DeleteRole(q) PROVE TypeOK'
  BY <1>0, <1>7 DEF DeleteRole, EndRequest, TypeOK
<1>8. ASSUME NEW q \in Request, Count(q) PROVE TypeOK'
  <2>1. [request[q] EXCEPT !.found = TRUE, !.first = (Users = {})] \in Requests
    BY ZenonT(60) DEF TypeOK, Requests
  <2>2. QED
    BY <1>8, <2>1, ContinueType DEF Count, TypeOK
<1>9. ASSUME NEW q \in Request, DeleteUser(q) PROVE TypeOK'
  BY <1>0, <1>9 DEF DeleteUser, EndRequest, WithoutRolesOf, TypeOK
<1>10. ASSUME NEW q \in Request, Throw(q) PROVE TypeOK'
  BY <1>0, <1>10 DEF Throw, EndRequest, TypeOK
<1>11. ASSUME NEW u \in User, NEW r \in Resource, CreateResource(u, r) PROVE TypeOK'
  <2>1. role' \in [RoleId -> RoleRow \cup {NoRole}]
    BY <1>11, InsertType DEF CreateResource, TypeOK, PERMISSION_TYPES
  <2>2. QED
    BY <1>11, <2>1 DEF CreateResource, TypeOK
<1>12. ASSUME NEW r \in Resource, DeleteForResource(r) PROVE TypeOK'
  BY <1>12 DEF DeleteForResource, TypeOK
<1>13. CASE UNCHANGED vars
  BY <1>13 DEF vars, TypeOK
<1>14. QED
  BY <1>1, <1>2, <1>3, <1>4, <1>5, <1>6, <1>7, <1>8, <1>9, <1>10, <1>11, <1>12, <1>13
     DEF Next, Handle

\* Nothing is ever unmade, and a request about roles enters for what is there.
LEMMA RoleRequestsStep ==
    ASSUME TypeOK, RoleRequestsInv, [Next]_vars
    PROVE  RoleRequestsInv'
<1> USE DEF RoleRequestsInv
<1>1. ASSUME NEW q \in Request, EnterRoute(q) PROVE RoleRequestsInv'
  <2>1. PICK as, op, t, on : Enter(q, op, as, t, on) /\ (op \in RoleOps => on \in made)
    BY <1>1, EnterCases
  <2>2. /\ made' = made
        /\ \A p \in Request \ {q} : request'[p] = request[p]
        /\ request'[q].op = op /\ request'[q].on = on
    BY ZenonT(60), <2>1, EnterSets
  <2>3. QED
    BY <2>1, <2>2 DEF TypeOK
<1>2. ASSUME NEW q \in Request, Handle(q) PROVE RoleRequestsInv'
  BY <1>2, HandleSets DEF Idle, RoleOps
<1>3. ASSUME NEW u \in User, NEW r \in Resource, CreateResource(u, r) PROVE RoleRequestsInv'
  BY <1>3 DEF CreateResource
<1>4. ASSUME NEW r \in Resource, DeleteForResource(r) PROVE RoleRequestsInv'
  BY <1>4 DEF DeleteForResource
<1>5. CASE UNCHANGED vars
  BY <1>5 DEF vars
<1>6. QED
  BY <1>1, <1>2, <1>3, <1>4, <1>5 DEF Next

\* A request stays what it was admitted for.
LEMMA AdmittedStep ==
    ASSUME TypeOK, AdmittedInv, [Next]_vars
    PROVE  AdmittedInv'
<1> USE DEF AdmittedInv
<1>1. ASSUME NEW q \in Request, EnterRoute(q) PROVE AdmittedInv'
  <2>1. PICK as, op, t, on :
            /\ as \in {Loaded(u) : u \in Users} \cup {Nobody}
            /\ Enter(q, op, as, t, on)
            /\ (op \in {"update", "delete"} => on = NoResource)
    BY <1>1, EnterCases
  <2>2. /\ \A p \in Request \ {q} : request'[p] = request[p]
        /\ request'[q].op = op /\ request'[q].target = t
        /\ op \in {"update", "delete"} => request'[q].as = as
    BY <2>1, EnterSets
  <2>3. op \in {"update", "delete"} => TRUE \in RBAC(as, "user", op, t, NoResource, NoResource)
    BY <2>1 DEF Enter, RoleOps
  <2>4. op \in {"update", "delete"} => as # Nobody
    BY <2>3, UpdateAdmits, DeleteAdmits
  <2>5. op \in {"update", "delete"} => as.user \in User /\ as.permission \in USER_TYPES
    BY <2>1, <2>4, LoadedType
  <2>6. op = "update" => as.permission \in {"superuser", "admin"} \/ as.user = t
    BY <2>3, <2>5, UpdateAdmits
  <2>7. op = "delete" => as.permission = "superuser"
    BY <2>3, <2>5, DeleteAdmits
  <2>8. QED
    BY <2>2, <2>5, <2>6, <2>7
<1>2. ASSUME NEW q \in Request, Handle(q) PROVE AdmittedInv'
  BY <1>2, HandleSets DEF Idle, RoleOps
<1>3. ASSUME NEW u \in User, NEW r \in Resource, CreateResource(u, r) PROVE AdmittedInv'
  BY <1>3 DEF CreateResource
<1>4. ASSUME NEW r \in Resource, DeleteForResource(r) PROVE AdmittedInv'
  BY <1>4 DEF DeleteForResource
<1>5. CASE UNCHANGED vars
  BY <1>5 DEF vars
<1>6. QED
  BY <1>1, <1>2, <1>3, <1>4, <1>5 DEF Next

\* While nobody is excused, the last superuser is neither deleted nor updated
\* to be anything else, and the first user becomes one.
LEMMA SuperuserStep ==
    ASSUME LockoutInv, [Next]_vars
    PROVE  ASuperuserRemains' /\ (~excused' => (Users # {} => Users' # {}))
<1> USE DEF LockoutInv, ASuperuserRemains, Users, Superusers
<1>1. CASE UNCHANGED <<permission, excused>>
  BY <1>1
<1>2. ASSUME NEW q \in Request, NEW u \in User, CreateUser(q, u)
      PROVE  ASuperuserRemains' /\ (~excused' => (Users # {} => Users' # {}))
  <2>1. PICK p \in Granted(request[q].first) : permission' = [permission EXCEPT ![u] = p]
    BY <1>2 DEF CreateUser
  <2>2. permission[u] = "absent" /\ excused' = excused
    BY <1>2 DEF CreateUser
  <2>3. CASE request[q].first
    <3>1. p = "superuser"
      BY <2>1, <2>3 DEF Granted
    <3>2. QED
      BY <2>1, <2>2, <3>1 DEF TypeOK
  <2>4. CASE ~request[q].first
    <3>1. ~excused => Users # {}
      BY <1>2, <2>4 DEF CountedInv, CreateUser
    <3>2. QED
      BY <2>1, <2>2, <3>1 DEF TypeOK
  <2>5. QED
    BY <2>3, <2>4
<1>3. ASSUME NEW q \in Request, NEW p \in USER_TYPES, UpdateUser(q, p)
      PROVE  ASuperuserRemains' /\ (~excused' => (Users # {} => Users' # {}))
  <2> DEFINE as == request[q].as
             target == request[q].target
  <2>1. /\ target \in User /\ permission[target] # "absent"
        /\ MayUpdate(as, target, p)
        /\ permission' = [permission EXCEPT ![target] = p]
        /\ excused' = (\/ excused
                       \/ Overtaken(as)
                       \/ as.permission = "admin" /\ target \in Superusers)
        /\ request[q].op = "update"
    BY <1>3 DEF UpdateUser, At
  <2>2. /\ as.user \in User /\ as.permission \in USER_TYPES
        /\ as.permission \in {"superuser", "admin"} \/ as.user = target
    BY <2>1 DEF AdmittedInv
  <2> HIDE DEF as, target
  <2>3. p # "absent" /\ permission'[target] = p
    BY <2>1 DEF TypeOK, USER_TYPES
  <2>4. ASSUME ~excused' PROVE \E u \in User : permission'[u] = "superuser"
    <3>1. ~excused /\ permission[as.user] = as.permission
      BY <2>1, <2>4 DEF Overtaken
    <3>2. PICK s \in User : permission[s] = "superuser"
      BY <2>1, <3>1
    <3>3. CASE permission[target] # "superuser"
      BY <2>1, <3>2, <3>3 DEF TypeOK
    <3>4. CASE permission[target] = "superuser" /\ as.user = target
      BY <2>1, <2>3, <3>1, <3>4 DEF MayUpdate
    <3>5. CASE permission[target] = "superuser" /\ as.user # target
      <4>1. permission[as.user] = "superuser"
        BY <2>1, <2>2, <2>4, <3>1, <3>5
      <4>2. QED
        BY <2>1, <2>2, <3>5, <4>1 DEF TypeOK
    <3>6. QED
      BY <3>3, <3>4, <3>5
  <2>5. QED
    BY <2>1, <2>3, <2>4
<1>4. ASSUME NEW q \in Request, DeleteUser(q)
      PROVE  ASuperuserRemains' /\ (~excused' => (Users # {} => Users' # {}))
  <2> DEFINE as == request[q].as
             target == request[q].target
  <2>1. /\ as.user # target
        /\ permission' = [permission EXCEPT ![target] = "absent"]
        /\ excused' = (excused \/ Overtaken(as))
        /\ request[q].op = "delete"
    BY <1>4 DEF DeleteUser, At, MayDelete
  <2>2. as.user \in User /\ as.permission = "superuser"
    BY <2>1 DEF AdmittedInv
  <2>3. ASSUME ~excused' PROVE \E u \in User : permission'[u] = "superuser"
    <3>1. permission[as.user] = "superuser"
      BY <2>1, <2>2, <2>3 DEF Overtaken
    <3>2. QED
      BY <2>1, <2>2, <3>1 DEF TypeOK
  <2>4. QED
    BY <2>3
<1>5. QED
  BY ZenonT(60), <1>1, <1>2, <1>3, <1>4
     DEF Next, Handle, FindNoRole, CreateRole, FindRole, DeleteRole, Count, Throw,
         CreateResource, DeleteForResource, vars, EnterRoute, Enter

LEMMA CountedStep ==
    ASSUME LockoutInv, [Next]_vars
    PROVE  CountedInv'
<1> SUFFICES ASSUME ~excused', NEW p \in Request, At(p, "create", TRUE)', ~request'[p].first
             PROVE  Users' # {}
  BY DEF CountedInv
<1>1. ~excused
  BY ZenonT(60) DEF Next, Handle, FindNoRole, CreateUser, CreateRole, FindRole, UpdateUser, DeleteRole, Count,
         DeleteUser, Throw, CreateResource, DeleteForResource, vars, EnterRoute, Enter
<1>2. CASE request'[p] = request[p]
  BY <1>1, <1>2, SuperuserStep DEF LockoutInv, CountedInv, At
<1>3. CASE Count(p)
  BY <1>3 DEF Count, Continue, LockoutInv, TypeOK, Requests, Users
<1>4. ASSUME NEW q \in Request, EnterRoute(q) PROVE request'[p] = request[p]
  <2>1. PICK as, t, op, on : Enter(q, op, as, t, on)
    BY <1>4 DEF EnterRoute
  <2>2. ~request'[q].found /\ \A o \in Request \ {q} : request'[o] = request[o]
    BY <2>1, EnterSets DEF LockoutInv
  <2>3. QED
    BY <2>2 DEF At
<1>5. ASSUME NEW q \in Request, Handle(q) PROVE Count(p) \/ request'[p] = request[p]
  BY <1>5, HandleSets DEF At, Idle, RoleOps, LockoutInv
<1>6. QED
  BY <1>2, <1>3, <1>4, <1>5 DEF Next, CreateResource, DeleteForResource, vars

-----------------------------------------------------------------------------
LEMMA GrantingFinite ==
    ASSUME NEW u, NEW r
    PROVE  IsFiniteSet(Granting(u, r)) /\ Cardinality(Granting(u, r)) \in Nat
  BY AccessAssumption, FS_Subset, FS_CardinalityType DEF Granting

\* With fewer roles and fewer grants under way the bound still holds.
LEMMA FewerGrants ==
    ASSUME GrantsInv, NEW u \in User, NEW r \in Resource,
           RolesOf(u, r)' \subseteq RolesOf(u, r), Granting(u, r)' \subseteq Granting(u, r)
    PROVE  /\ IsFiniteSet(RolesOf(u, r)')
           /\ Cardinality(RolesOf(u, r)') + Cardinality(Granting(u, r)') <= Cardinality(Request)
<1>1. /\ IsFiniteSet(RolesOf(u, r)') /\ Cardinality(RolesOf(u, r)') \in Nat
      /\ Cardinality(RolesOf(u, r)') <= Cardinality(RolesOf(u, r))
      /\ Cardinality(RolesOf(u, r)) \in Nat
  BY FS_Subset, FS_CardinalityType DEF GrantsInv
<1>2. /\ IsFiniteSet(Granting(u, r)') /\ Cardinality(Granting(u, r)') \in Nat
      /\ Cardinality(Granting(u, r)') <= Cardinality(Granting(u, r))
  BY GrantingFinite, FS_Subset, FS_CardinalityType
<1>3. Cardinality(Request) \in Nat
  BY AccessAssumption, FS_CardinalityType
<1>4. QED
  BY <1>1, <1>2, <1>3, GrantingFinite DEF GrantsInv

LEMMA RolesOnMadeStep ==
    ASSUME TypeOK, RoleRequestsInv, RolesOnMade, [Next]_vars
    PROVE  RolesOnMade'
<1> USE DEF RolesOnMade
<1>1. CASE UNCHANGED <<role, made>>
  BY <1>1
<1>2. ASSUME NEW q \in Request, NEW perm \in PERMISSION_TYPES, CreateRole(q, perm) PROVE RolesOnMade'
  BY <1>2 DEF CreateRole, InsertRole, At, TypeOK, RoleRequestsInv, RoleOps
<1>3. ASSUME NEW u \in User, NEW r \in Resource, CreateResource(u, r) PROVE RolesOnMade'
  BY <1>3 DEF CreateResource, InsertRole, TypeOK
<1>4. ASSUME NEW q \in Request, DeleteRole(q) \/ DeleteUser(q) PROVE RolesOnMade'
  BY <1>4 DEF DeleteRole, DeleteUser, WithoutRolesOf, TypeOK
<1>5. ASSUME NEW r \in Resource, DeleteForResource(r) PROVE RolesOnMade'
  BY <1>5 DEF DeleteForResource, TypeOK
<1>6. QED
  BY ZenonT(60), <1>1, <1>2, <1>3, <1>4, <1>5
     DEF Next, Handle, EnterRoute, Enter, FindNoRole, FindRole, CreateUser, UpdateUser, Count, Throw, vars

\* A grant under way becomes a role, a new one starts only where there is none.
LEMMA GrantsStep ==
    ASSUME TypeOK, RoleRequestsInv, RolesOnMade, GrantsInv, [Next]_vars
    PROVE  GrantsInv'
<1> SUFFICES ASSUME NEW u \in User, NEW r \in Resource
             PROVE  /\ IsFiniteSet(RolesOf(u, r)')
                    /\ Cardinality(RolesOf(u, r)') + Cardinality(Granting(u, r)')
                          <= Cardinality(Request)
  BY DEF GrantsInv, RolesOf, Granting
<1> DEFINE Bounded == /\ IsFiniteSet(RolesOf(u, r)')
                      /\ Cardinality(RolesOf(u, r)') + Cardinality(Granting(u, r)')
                            <= Cardinality(Request)
<1>0. /\ IsFiniteSet(Granting(u, r)') /\ Cardinality(Granting(u, r)') \in Nat
      /\ Cardinality(Granting(u, r)') <= Cardinality(Request)
      /\ Cardinality(Request) \in Nat
  BY AccessAssumption, FS_Subset, FS_CardinalityType DEF Granting
<1>1. CASE UNCHANGED <<role, request>>
  BY <1>1, FewerGrants DEF RolesOf, Granting, At
<1>2. ASSUME NEW q \in Request, NEW v \in User, FindNoRole(q, v) PROVE Bounded
  <2>1. RolesOf(u, r)' = RolesOf(u, r)
    BY <1>2 DEF FindNoRole, RolesOf
  <2>2. CASE u = v /\ r = request[q].on
    <3>1. RolesOf(u, r)' = {}
      BY <1>2, <2>1, <2>2 DEF FindNoRole, GrantAgainst
    <3>2. QED
      BY <1>0, <3>1, FS_EmptySet
  <2>3. CASE ~(u = v /\ r = request[q].on)
    <3>1. Granting(u, r)' \subseteq Granting(u, r)
      BY <1>2, <2>3 DEF FindNoRole, Continue, Granting, At, TypeOK, Requests
    <3>2. QED
      BY <2>1, <3>1, FewerGrants
  <2>4. QED
    BY <2>2, <2>3
<1>3. ASSUME NEW q \in Request, NEW perm \in PERMISSION_TYPES, CreateRole(q, perm) PROVE Bounded
  <2>1. PICK i \in RoleId :
            /\ role[i] = NoRole
            /\ role' = [role EXCEPT ![i] = [user |-> request[q].target,
                                            resource |-> request[q].on, permission |-> perm]]
    BY <1>3 DEF CreateRole, InsertRole
  <2>2. request' = [request EXCEPT ![q] = Idle] /\ At(q, "createRole", TRUE)
    BY <1>3 DEF CreateRole, EndRequest
  <2>3. Granting(u, r)' = Granting(u, r) \ {q}
    BY <2>2 DEF Granting, At, Idle, TypeOK
  <2>4. CASE u = request[q].target /\ r = request[q].on
    <3>1. q \in Granting(u, r)
      BY <2>2, <2>4 DEF Granting
    <3>2. RolesOf(u, r)' = RolesOf(u, r) \cup {i}
      BY <2>1, <2>4 DEF RolesOf, TypeOK
    <3>3. i \notin RolesOf(u, r)
      BY <2>1, AccessAssumption DEF RolesOf, NoRole
    <3>4. /\ IsFiniteSet(RolesOf(u, r)')
          /\ Cardinality(RolesOf(u, r)') = Cardinality(RolesOf(u, r)) + 1
          /\ Cardinality(RolesOf(u, r)) \in Nat
      BY <3>2, <3>3, FS_AddElement, FS_CardinalityType DEF GrantsInv
    <3>5. Cardinality(Granting(u, r)') = Cardinality(Granting(u, r)) - 1
      BY ZenonT(60), <2>3, <3>1, GrantingFinite, FS_RemoveElement
    <3>6. QED
      BY <1>0, <3>4, <3>5, GrantingFinite DEF GrantsInv
  <2>5. CASE ~(u = request[q].target /\ r = request[q].on)
    <3>1. RolesOf(u, r)' \subseteq RolesOf(u, r)
      BY <2>1, <2>5 DEF RolesOf, TypeOK
    <3>2. QED
      BY <2>3, <3>1, FewerGrants
  <2>6. QED
    BY <2>4, <2>5
<1>4. ASSUME NEW v \in User, NEW s \in Resource, CreateResource(v, s) PROVE Bounded
  <2>1. s \notin made /\ request' = request
    BY <1>4 DEF CreateResource
  <2>2. Granting(u, r)' = Granting(u, r)
    BY <2>1 DEF Granting, At
  <2>3. CASE role' = role
    BY <2>1, <2>3, <1>1
  <2>4. CASE InsertRole(v, s, "write")
    <3>1. PICK i \in RoleId :
              /\ role[i] = NoRole
              /\ role' = [role EXCEPT ![i] = [user |-> v, resource |-> s, permission |-> "write"]]
      BY <2>4 DEF InsertRole
    <3>2. CASE u = v /\ r = s
      <4>1. RolesOf(u, r) = {}
        BY <2>1, <3>2, AccessAssumption DEF RolesOf, RolesOnMade, NoRole
      <4>2. Granting(u, r) = {}
        BY <2>1, <3>2 DEF Granting, At, RoleRequestsInv, RoleOps
      <4>3. RolesOf(u, r)' = {} \cup {i}
        BY <3>1, <3>2, <4>1 DEF RolesOf, TypeOK
      <4>4. IsFiniteSet(RolesOf(u, r)') /\ Cardinality(RolesOf(u, r)') = 1
        BY <4>3, FS_EmptySet, FS_AddElement
      <4>5. Cardinality(Request) # 0
        BY AccessAssumption, FS_EmptySet
      <4>6. QED
        BY <1>0, <2>2, <4>2, <4>4, <4>5, FS_EmptySet
    <3>3. CASE ~(u = v /\ r = s)
      <4>1. RolesOf(u, r)' \subseteq RolesOf(u, r)
        BY <3>1, <3>3 DEF RolesOf, TypeOK
      <4>2. QED
        BY <2>2, <4>1, FewerGrants
    <3>4. QED
      BY <3>2, <3>3
  <2>5. QED
    BY <1>4, <2>3, <2>4 DEF CreateResource
<1>5. ASSUME NEW q \in Request, DeleteRole(q) \/ DeleteUser(q) PROVE Bounded
  <2>1. RolesOf(u, r)' \subseteq RolesOf(u, r)
    <3>1. \A i \in RoleId : role'[i] = role[i] \/ role'[i] = NoRole
      <4>1. CASE DeleteRole(q)
        BY <4>1 DEF DeleteRole, TypeOK
      <4>2. CASE DeleteUser(q)
        BY <4>2 DEF DeleteUser, WithoutRolesOf
      <4>3. QED
        BY <1>5, <4>1, <4>2
    <3>2. QED
      BY <3>1, AccessAssumption DEF RolesOf, NoRole
  <2>2. Granting(u, r)' \subseteq Granting(u, r)
    BY <1>5 DEF DeleteRole, DeleteUser, EndRequest, Granting, At, Idle, TypeOK
  <2>3. QED
    BY <2>1, <2>2, FewerGrants
<1>6. ASSUME NEW s \in Resource, DeleteForResource(s) PROVE Bounded
  <2>1. RolesOf(u, r)' \subseteq RolesOf(u, r)
    BY <1>6, AccessAssumption DEF DeleteForResource, RolesOf, NoRole, TypeOK
  <2>2. Granting(u, r)' \subseteq Granting(u, r)
    BY <1>6 DEF DeleteForResource, Granting, At
  <2>3. QED
    BY <2>1, <2>2, FewerGrants
<1>7. ASSUME NEW q \in Request, EnterRoute(q) PROVE Bounded
  <2>1. PICK as, op, t, on : Enter(q, op, as, t, on)
    BY <1>7, EnterCases
  <2>2. /\ \A p \in Request \ {q} : request'[p] = request[p]
        /\ ~request'[q].found /\ role' = role
    BY <2>1, EnterSets
  <2>3. QED
    BY <2>2, FewerGrants DEF RolesOf, Granting, At
<1>8. ASSUME NEW q \in Request, Handle(q), role' = role,
             request'[q] = Idle \/ Count(q) \/ \E i \in RoleId : FindRole(q, i)
      PROVE  Bounded
  <2>1. \A p \in Request \ {q} : request'[p] = request[p]
    BY <1>8, HandleSets
  <2>2. request'[q] = Idle \/ request'[q].op # "createRole"
    <3>1. ASSUME NEW i \in RoleId, FindRole(q, i) PROVE request'[q].op = "deleteRole"
      BY <3>1 DEF FindRole, At, Continue, TypeOK, Requests
    <3>2. CASE Count(q)
      BY <3>2 DEF Count, At, Continue, TypeOK, Requests
    <3>3. QED
      BY <1>8, <3>1, <3>2
  <2>3. Granting(u, r)' \subseteq Granting(u, r)
    BY <2>1, <2>2 DEF Granting, At, Idle
  <2>4. QED
    BY <1>8, <2>3, FewerGrants DEF RolesOf
<1>9. ASSUME NEW q \in Request, Handle(q) PROVE Bounded
  <2>1. ASSUME NEW v \in User, NEW p \in USER_TYPES,
               CreateUser(q, v) \/ UpdateUser(q, p) \/ Throw(q)
        PROVE  role' = role /\ request'[q] = Idle
    BY <2>1 DEF CreateUser, UpdateUser, Throw, EndRequest, TypeOK
  <2>2. QED
    BY <1>2, <1>3, <1>5, <1>8, <1>9, <2>1 DEF Handle, Count, FindRole, USER_TYPES
<1>10. QED
  BY <1>1, <1>4, <1>6, <1>7, <1>9 DEF Next, vars

-----------------------------------------------------------------------------
\* The rule of each method that is about one resource.
LEMMA ClusterRule ==
    /\ METHOD_CONFIG["cluster"]["create"] = AtLeast("admin")
    /\ METHOD_CONFIG["cluster"]["get"] = WithRole("user", "read")
    /\ METHOD_CONFIG["cluster"]["update"] = WithRole("user", "write")
    /\ METHOD_CONFIG["cluster"]["updateRole"] = WithRole("admin", "write")
    /\ METHOD_CONFIG["cluster"]["delete"] = WithRole("admin", "write")
<1>1. METHOD_CONFIG["cluster"] = ClusterRules
  BY DEF METHOD_CONFIG
<1>2. QED
  BY <1>1 DEF ClusterRules

LEMMA DeploymentRule ==
    /\ METHOD_CONFIG["deployment"]["create"] = Rule("minimum", "user", "write", "cluster")
    /\ METHOD_CONFIG["deployment"]["get"] = WithRole("user", "read")
    /\ METHOD_CONFIG["deployment"]["update"] = WithRole("user", "write")
    /\ METHOD_CONFIG["deployment"]["updateRole"] = WithRole("admin", "write")
    /\ METHOD_CONFIG["deployment"]["delete"] = WithRole("user", "write")
  BY DEF METHOD_CONFIG

\* Where a rule looks for the role of a user: at the resource of the request,
\* which for the creation of a deployment is its cluster.
IsAbout(type, rule, r) ==
    IF r \in Cluster THEN type = "cluster" \/ rule.for = "cluster"
    ELSE type = "deployment" /\ rule.for = "self"

\* The order of the user types.
LEMMA UserLevels ==
    ASSUME NEW as
    PROVE  /\ as.permission = "user" => (HasMinimumUserType(as, "user") <=> as # Nobody)
           /\ as.permission = "user" => ~HasMinimumUserType(as, "admin")
           /\ as.permission = "user" => ~HasMinimumUserType(as, "superuser")
           /\ as.permission = "admin" => (HasMinimumUserType(as, "user") <=> as # Nobody)
           /\ as.permission = "admin" => (HasMinimumUserType(as, "admin") <=> as # Nobody)
           /\ as.permission = "admin" => ~HasMinimumUserType(as, "superuser")
<1> USE DEF HasMinimumUserType, USER_ACCESS_LEVELS
<1>1. as.permission = "user" => (HasMinimumUserType(as, "user") <=> as # Nobody)
  OBVIOUS
<1>2. as.permission = "user" => ~HasMinimumUserType(as, "admin")
  OBVIOUS
<1>3. as.permission = "user" => ~HasMinimumUserType(as, "superuser")
  OBVIOUS
<1>4. as.permission = "admin" => (HasMinimumUserType(as, "user") <=> as # Nobody)
  OBVIOUS
<1>5. as.permission = "admin" => (HasMinimumUserType(as, "admin") <=> as # Nobody)
  OBVIOUS
<1>6. as.permission = "admin" => ~HasMinimumUserType(as, "superuser")
  OBVIOUS
<1>7. QED
  BY <1>1, <1>2, <1>3, <1>4, <1>5, <1>6

\* Whether each of the roles of a user on a resource meets a rule.
Meeting(rule, u, r) ==
    {PERMISSION_ACCESS_LEVELS[role[i].permission] >= PERMISSION_ACCESS_LEVELS[rule.perm]
        : i \in RolesOf(u, r)}

\* What RBAC answers to a user who is no superuser.
LEMMA AnswersTo ==
    ASSUME TypeOK, NEW u \in Users \ Superusers, NEW r \in Resource, NEW type, NEW method,
           NEW rule, rule = METHOD_CONFIG[type][method],
           rule.kind = "minimum", rule.type \in {"user", "admin"}, IsAbout(type, rule, r)
    PROVE  ResourceAnswers(Loaded(u), type, method, r)
              = IF permission[u] = "user" /\ rule.type = "admin" THEN {FALSE}
                ELSE IF rule.perm = "none" THEN {TRUE}
                ELSE IF RolesOf(u, r) = {} THEN {FALSE}
                ELSE Meeting(rule, u, r)
<1> DEFINE as == Loaded(u)
           id == IF r \in Cluster THEN IF type = "cluster" THEN r ELSE NoResource ELSE r
           cluster == IF r \in Cluster THEN IF type = "cluster" THEN NoResource ELSE r
                      ELSE ClusterOf[r]
<1>1. as.user = u /\ as.permission = permission[u] /\ permission[u] \in {"user", "admin"}
  BY DEF Loaded, Users, Superusers, TypeOK, USER_TYPES
<1>2. as # Nobody
  BY <1>1, AccessAssumption DEF Nobody, Users
<1> HIDE DEF as
<1>3. ~HasMinimumUserType(as, "superuser")
  BY <1>1, UserLevels
<1>4. HasMinimumUserType(as, rule.type) <=> ~(permission[u] = "user" /\ rule.type = "admin")
  BY <1>1, <1>2, UserLevels
<1>5. ResourceAnswers(as, type, method, r) = RBAC(as, type, method, NoUser, id, cluster)
  BY DEF ResourceAnswers
<1>6. (IF cluster # NoResource /\ rule.for = "cluster" THEN cluster ELSE id) = r
  BY AccessAssumption DEF IsAbout, Resource
<1>7. r # NoResource
  BY AccessAssumption
<1> HIDE DEF id, cluster
<1>8. CheckMinimumPermission(rule, as, id, cluster)
         = IF RolesOf(u, r) = {} THEN {FALSE} ELSE Meeting(rule, u, r)
  BY <1>1, <1>6, <1>7, Zenon DEF CheckMinimumPermission, Meeting
<1>9. RBAC(as, type, method, NoUser, id, cluster)
         = IF ~HasMinimumUserType(as, rule.type) THEN {FALSE}
           ELSE IF rule.perm = "none" THEN {TRUE}
           ELSE CheckMinimumPermission(rule, as, id, cluster)
  <2>1. METHOD_CONFIG[type][method].kind # "own" /\ METHOD_CONFIG[type][method].kind # "initial"
    OBVIOUS
  <2>2. QED
    BY <1>2, <1>3, <2>1 DEF RBAC
<1>10. QED
  BY <1>4, <1>5, <1>8, <1>9 DEF as

\* The roles of a user on a resource are rows of the table.
LEMMA RolesAreRows ==
    ASSUME TypeOK, NEW u \in User, NEW r \in Resource, NEW i \in RolesOf(u, r)
    PROVE  role[i].permission \in PERMISSION_TYPES
  BY AccessAssumption DEF TypeOK, RolesOf, NoRole, RoleRow

\* A rule that asks for a write role lets only a holder of one pass.
LEMMA WritersOnly ==
    ASSUME TypeOK, NEW u \in Users \ Superusers, NEW r \in Resource, NEW type, NEW method,
           NEW rule, rule = METHOD_CONFIG[type][method],
           rule.kind = "minimum", rule.type \in {"user", "admin"}, rule.perm = "write",
           IsAbout(type, rule, r), TRUE \in ResourceAnswers(Loaded(u), type, method, r)
    PROVE  "write" \in RoleNames(u, r)
<1>1. TRUE \notin {FALSE}
  OBVIOUS
<1>2. RolesOf(u, r) # {} /\ TRUE \in Meeting(rule, u, r)
  <2>1. ResourceAnswers(Loaded(u), type, method, r)
           = IF permission[u] = "user" /\ rule.type = "admin" THEN {FALSE}
             ELSE IF rule.perm = "none" THEN {TRUE}
             ELSE IF RolesOf(u, r) = {} THEN {FALSE}
             ELSE Meeting(rule, u, r)
    BY AnswersTo, ZenonT(60)
  <2>2. QED
    BY <1>1, <2>1
<1>3. PICK i \in RolesOf(u, r) :
          PERMISSION_ACCESS_LEVELS[role[i].permission] >= PERMISSION_ACCESS_LEVELS["write"]
  BY <1>2 DEF Meeting
<1>4. role[i].permission \in {"read", "write"}
  BY RolesAreRows DEF Users, PERMISSION_TYPES
<1>5. role[i].permission = "write"
  BY <1>3, <1>4 DEF PERMISSION_ACCESS_LEVELS
<1>6. QED
  BY <1>2, <1>5 DEF RoleNames

LEMMA RouteFields ==
    ASSUME NEW verb, NEW type, NEW method, NEW handlers, NEW x \in On(verb, type, method, handlers)
    PROVE  x.verb = verb /\ x.type = type /\ x.method = method
  BY DEF On

\* The guards of the routes that change a resource, as a list.
LEMMA GuardsOfChanges ==
    ASSUME NEW guard \in ChangingGuards
    PROVE  \/ guard[1] = "cluster" /\ guard[2] \in {"update", "delete", "updateRole"}
           \/ guard[1] = "deployment" /\ guard[2] \in {"create", "update", "delete", "updateRole"}
<1> DEFINE Changing(x) ==
        x.type \in {"cluster", "deployment"} /\ x.verb \notin {"get", "any"} =>
           \/ x.type = "cluster" /\ x.method \in {"create", "update", "delete", "updateRole"}
           \/ x.type = "deployment" /\ x.method \in {"create", "update", "delete", "updateRole"}
<1>1. ASSUME NEW x \in ClusterRoutes PROVE Changing(x)
  BY RouteFields, SMTT(60) DEF ClusterRoutes
<1>2. ASSUME NEW x \in DeploymentRoutes \cup DeploymentPartRoutes PROVE Changing(x)
  BY RouteFields, SMTT(60) DEF DeploymentRoutes, DeploymentPartRoutes
<1>3. ASSUME NEW x \in DamlKeyRoutes \cup DamlLedgerRoutes PROVE Changing(x)
  BY RouteFields, SMTT(60) DEF DamlKeyRoutes, DamlLedgerRoutes
<1>4. ASSUME NEW x \in TaekionVolumeRoutes \cup TaekionSnapshotRoutes PROVE Changing(x)
  BY RouteFields, SMTT(60) DEF TaekionVolumeRoutes, TaekionSnapshotRoutes
<1>5. ASSUME NEW x \in AdministrationRoutes \cup UserRoutes
      PROVE  x.type \notin {"cluster", "deployment"}
  <2>1. x.type \in {"administration", "user", "requireUser"}
    BY RouteFields, ZenonT(60) DEF AdministrationRoutes, UserRoutes, RequireUser
  <2>2. QED
    BY <2>1
<1>6. ASSUME NEW x \in ConfigRoute \cup SessionRoutes
      PROVE  x.type \notin {"cluster", "deployment"}
  <2>1. x.type \in {"open", "requireUser"}
    BY RouteFields, Zenon DEF ConfigRoute, SessionRoutes, RequireUser, Open
  <2>2. QED
    BY <2>1
<1>7. ASSUME NEW x \in ProxyRoute PROVE x.verb = "any"
  BY RouteFields, SMTT(60) DEF ProxyRoute
<1>8. \A x \in Routes : Changing(x)
  BY <1>1, <1>2, <1>3, <1>4, <1>5, <1>6, <1>7 DEF Routes
<1> HIDE DEF Changing
<1>9. PICK route \in Routes :
          /\ route.type \in {"cluster", "deployment"} /\ route.verb \notin {"get", "any"}
          /\ guard = <<route.type, route.method>>
  BY DEF ChangingGuards
<1>10. guard # <<"cluster", "create">>
  BY DEF ChangingGuards
<1>11. guard[1] = route.type /\ guard[2] = route.method
  BY <1>9
<1>12. Changing(route)
  BY <1>8
<1>13. ~(route.type = "cluster" /\ route.method = "create")
  BY <1>9, <1>10
<1>14. QED
  BY <1>9, <1>11, <1>12, <1>13 DEF Changing

\* Each of them is guarded by a rule that asks for a write role.
LEMMA ChangesAskForWrite ==
    ASSUME NEW guard \in ChangingGuards, NEW r \in Resource,
           r \in Cluster <=> guard[1] = "cluster" \/ guard[2] = "create",
           NEW rule, rule = METHOD_CONFIG[guard[1]][guard[2]]
    PROVE  /\ rule.kind = "minimum" /\ rule.type \in {"user", "admin"} /\ rule.perm = "write"
           /\ IsAbout(guard[1], rule, r)
<1>1. CASE guard[1] = "cluster" /\ guard[2] \in {"update", "delete", "updateRole"}
  <2>1. rule \in {WithRole("user", "write"), WithRole("admin", "write")}
    BY <1>1, ClusterRule
  <2>2. QED
    BY <1>1, <2>1 DEF WithRole, Rule, IsAbout
<1>2. CASE guard[1] = "deployment" /\ guard[2] = "create"
  <2>1. rule = Rule("minimum", "user", "write", "cluster")
    BY <1>2, DeploymentRule
  <2>2. QED
    BY <1>2, <2>1 DEF Rule, IsAbout
<1>3. CASE guard[1] = "deployment" /\ guard[2] \in {"update", "delete", "updateRole"}
  <2>1. rule \in {WithRole("user", "write"), WithRole("admin", "write")}
    BY <1>3, DeploymentRule
  <2>2. r \notin Cluster
    BY <1>3
  <2>3. QED
    BY <1>3, <2>1, <2>2 DEF WithRole, Rule, IsAbout
<1>4. QED
  BY <1>1, <1>2, <1>3, GuardsOfChanges

\* Only a holder of a write role gets past the guard of a change.
LEMMA WriteGuards == TypeOK => ReadersChangeNothing
<1> SUFFICES ASSUME TypeOK, NEW u \in Users \ Superusers, NEW r \in made, NEW guard \in ChangingGuards,
                    r \in Cluster <=> guard[1] = "cluster" \/ guard[2] = "create",
                    TRUE \in ResourceAnswers(Loaded(u), guard[1], guard[2], r)
             PROVE  "write" \in RoleNames(u, r)
  BY DEF ReadersChangeNothing
<1>1. r \in Resource
  BY DEF TypeOK
<1>2. QED
  BY <1>1, ChangesAskForWrite, WritersOnly

-----------------------------------------------------------------------------
\* Where the roles of a user on a resource say one thing.
LEMMA OneRoleName ==
    ASSUME TypeOK, NEW u \in User, NEW r \in Resource, Cardinality(RoleNames(u, r)) = 1
    PROVE  \E p \in {"none", "read", "write"} : RoleNames(u, r) = {p}
<1>1. RoleNames(u, r) \subseteq {"none", "read", "write"}
  BY RolesAreRows DEF RoleNames, PERMISSION_TYPES
<1>2. IsFiniteSet({"none", "read", "write"})
  <2>1. IsFiniteSet({"none"} \cup {"read"} \cup {"write"})
    BY FS_Singleton, FS_Union
  <2>2. {"none"} \cup {"read"} \cup {"write"} = {"none", "read", "write"}
    OBVIOUS
  <2>3. QED
    BY <2>1, <2>2
<1>3. PICK p : RoleNames(u, r) = {p}
  BY <1>1, <1>2, FS_Subset, FS_Singleton
<1>4. QED
  BY <1>1, <1>3

\* What a rule lets through, if the roles of the user say p.
Lets(permissionOfUser, rule, p) ==
    /\ permissionOfUser = "admin" \/ rule.type = "user"
    /\ rule.perm = "none" \/ p = rule.perm \/ p = "write"

\* A role is as good as another one, or better.
LEMMA PermissionLevels ==
    ASSUME NEW p \in PERMISSION_TYPES, NEW perm \in PERMISSION_TYPES
    PROVE  (PERMISSION_ACCESS_LEVELS[p] >= PERMISSION_ACCESS_LEVELS[perm]) <=> (p = perm \/ p = "write")
<1>1. CASE p = "read" /\ perm = "read"
  BY <1>1 DEF PERMISSION_ACCESS_LEVELS
<1>2. CASE p = "read" /\ perm = "write"
  BY <1>2 DEF PERMISSION_ACCESS_LEVELS
<1>3. CASE p = "write" /\ perm = "read"
  BY <1>3 DEF PERMISSION_ACCESS_LEVELS
<1>4. CASE p = "write" /\ perm = "write"
  BY <1>4 DEF PERMISSION_ACCESS_LEVELS
<1>5. QED
  BY <1>1, <1>2, <1>3, <1>4 DEF PERMISSION_TYPES

LEMMA Decided ==
    ASSUME TypeOK, NEW u \in Users \ Superusers, NEW r \in Resource, NEW type, NEW method,
           NEW rule, rule = METHOD_CONFIG[type][method],
           rule.kind = "minimum", rule.type \in {"user", "admin"},
           rule.perm \in PERMISSION_TYPES \cup {"none"}, IsAbout(type, rule, r),
           NEW p, RoleNames(u, r) = {p}
    PROVE  ResourceAnswers(Loaded(u), type, method, r) = {TRUE} <=> Lets(permission[u], rule, p)
<1>1. ResourceAnswers(Loaded(u), type, method, r)
         = IF permission[u] = "user" /\ rule.type = "admin" THEN {FALSE}
           ELSE IF rule.perm = "none" THEN {TRUE}
           ELSE IF RolesOf(u, r) = {} THEN {FALSE}
           ELSE Meeting(rule, u, r)
  BY AnswersTo, ZenonT(60)
<1>2. {FALSE} # {TRUE}
  OBVIOUS
<1>3. permission[u] \in {"user", "admin"}
  BY DEF Users, Superusers, TypeOK, USER_TYPES
<1>4. CASE RolesOf(u, r) = {}
  <2>1. p = "none"
    BY <1>4 DEF RoleNames
  <2>2. QED
    BY <1>1, <1>2, <1>3, <1>4, <2>1 DEF Lets, PERMISSION_TYPES
<1>5. CASE rule.perm = "none"
  BY <1>1, <1>2, <1>3, <1>5 DEF Lets
<1>6. CASE rule.perm # "none" /\ RolesOf(u, r) # {}
  <2>1. /\ p = rule.perm \/ p = "write" => Meeting(rule, u, r) = {TRUE}
        /\ ~(p = rule.perm \/ p = "write") => Meeting(rule, u, r) = {FALSE}
    <3> DEFINE meets == PERMISSION_ACCESS_LEVELS[p] >= PERMISSION_ACCESS_LEVELS[rule.perm]
    <3>1. \A i \in RolesOf(u, r) : role[i].permission = p
      BY <1>6 DEF RoleNames
    <3>2. p \in PERMISSION_TYPES /\ rule.perm \in PERMISSION_TYPES
      BY <1>6, <3>1, RolesAreRows DEF Users
    <3>3. meets <=> p = rule.perm \/ p = "write"
      BY <3>2, PermissionLevels
    <3>4. Meeting(rule, u, r) = {meets}
      BY <1>6, <3>1 DEF Meeting
    <3>5. meets \in BOOLEAN
      OBVIOUS
    <3> HIDE DEF meets
    <3>6. QED
      BY <3>3, <3>4, <3>5
  <2>2. QED
    BY <1>1, <1>2, <1>3, <1>6, <2>1 DEF Lets
<1>7. QED
  BY <1>4, <1>5, <1>6

\* Whatever the rule of a method asks for, a superuser may.
LEMMA SuperuserDecided ==
    ASSUME NEW u \in Superusers, NEW r, NEW type, NEW method, METHOD_CONFIG[type][method].kind = "minimum"
    PROVE  ResourceAnswers(Loaded(u), type, method, r) = {TRUE}
<1> DEFINE as == Loaded(u)
<1>1. as.permission = "superuser"
  BY DEF Superusers, Loaded
<1> HIDE DEF as
<1>2. as # Nobody
  <2>1. Nobody.permission = "none"
    BY DEF Nobody
  <2>2. QED
    BY <1>1, <2>1
<1>3. HasMinimumUserType(as, "superuser")
  <2>1. as.permission = "superuser" => (HasMinimumUserType(as, "superuser") <=> as # Nobody)
    BY DEF HasMinimumUserType, USER_ACCESS_LEVELS
  <2>2. QED
    BY <1>1, <1>2, <2>1
<1>4. ASSUME NEW id, NEW cluster PROVE RBAC(as, type, method, NoUser, id, cluster) = {TRUE}
  <2>1. METHOD_CONFIG[type][method].kind # "own" /\ METHOD_CONFIG[type][method].kind # "initial"
    OBVIOUS
  <2>2. QED
    BY <1>2, <1>3, <2>1 DEF RBAC
<1>5. QED
  BY <1>4 DEF ResourceAnswers, as

\* The decisions on a cluster ...
LEMMA ClusterDecisions ==
    ASSUME TypeOK, NEW u \in Users \ Superusers, NEW r \in Cluster, NEW p, RoleNames(u, r) = {p}
    PROVE  /\ ResourceAnswers(Loaded(u), "cluster", "create", r) = {TRUE} <=> permission[u] = "admin"
           /\ ResourceAnswers(Loaded(u), "cluster", "get", r) = {TRUE} <=> p \in {"read", "write"}
           /\ ResourceAnswers(Loaded(u), "cluster", "update", r) = {TRUE} <=> p = "write"
           /\ ResourceAnswers(Loaded(u), "cluster", "updateRole", r) = {TRUE}
                 <=> permission[u] = "admin" /\ p = "write"
           /\ ResourceAnswers(Loaded(u), "cluster", "delete", r) = {TRUE}
                 <=> permission[u] = "admin" /\ p = "write"
           /\ ResourceAnswers(Loaded(u), "deployment", "create", r) = {TRUE} <=> p = "write"
<1>1. r \in Resource
  BY DEF Resource
<1>2. ASSUME NEW method, NEW type \in {"user", "admin"}, NEW perm \in PERMISSION_TYPES \cup {"none"},
             METHOD_CONFIG["cluster"][method] = Rule("minimum", type, perm, "self")
      PROVE  ResourceAnswers(Loaded(u), "cluster", method, r) = {TRUE}
                <=> /\ permission[u] = "admin" \/ type = "user"
                    /\ perm = "none" \/ p = perm \/ p = "write"
  <2> DEFINE rule == METHOD_CONFIG["cluster"][method]
  <2>1. rule.kind = "minimum" /\ rule.type = type /\ rule.perm = perm
    BY <1>2 DEF Rule
  <2>2. IsAbout("cluster", rule, r)
    BY DEF IsAbout
  <2>3. ResourceAnswers(Loaded(u), "cluster", method, r) = {TRUE} <=> Lets(permission[u], rule, p)
    BY <1>1, <2>1, <2>2, Decided
  <2>4. QED
    BY <2>1, <2>3 DEF Lets
<1>3. ResourceAnswers(Loaded(u), "deployment", "create", r) = {TRUE} <=> p = "write"
  <2> DEFINE rule == METHOD_CONFIG["deployment"]["create"]
  <2>1. rule.kind = "minimum" /\ rule.type = "user" /\ rule.perm = "write" /\ rule.for = "cluster"
    BY DeploymentRule DEF Rule
  <2>2. IsAbout("deployment", rule, r)
    BY <2>1 DEF IsAbout
  <2>3. ResourceAnswers(Loaded(u), "deployment", "create", r) = {TRUE} <=> Lets(permission[u], rule, p)
    BY <1>1, <2>1, <2>2, Decided DEF PERMISSION_TYPES
  <2>4. QED
    BY <2>1, <2>3 DEF Lets
<1>4. QED
  BY <1>2, <1>3, ClusterRule DEF AtLeast, WithRole, PERMISSION_TYPES

\* ... and on a deployment.
LEMMA DeploymentDecisions ==
    ASSUME TypeOK, NEW u \in Users \ Superusers, NEW r \in Resource \ Cluster,
           NEW p, RoleNames(u, r) = {p}
    PROVE  /\ ResourceAnswers(Loaded(u), "deployment", "get", r) = {TRUE} <=> p \in {"read", "write"}
           /\ ResourceAnswers(Loaded(u), "deployment", "update", r) = {TRUE} <=> p = "write"
           /\ ResourceAnswers(Loaded(u), "deployment", "updateRole", r) = {TRUE}
                 <=> permission[u] = "admin" /\ p = "write"
           /\ ResourceAnswers(Loaded(u), "deployment", "delete", r) = {TRUE} <=> p = "write"
<1>1. ASSUME NEW method, NEW type \in {"user", "admin"}, NEW perm \in PERMISSION_TYPES,
             METHOD_CONFIG["deployment"][method] = WithRole(type, perm)
      PROVE  ResourceAnswers(Loaded(u), "deployment", method, r) = {TRUE}
                <=> /\ permission[u] = "admin" \/ type = "user"
                    /\ p = perm \/ p = "write"
  <2> DEFINE rule == METHOD_CONFIG["deployment"][method]
  <2>1. rule.kind = "minimum" /\ rule.type = type /\ rule.perm = perm /\ rule.for = "self"
    BY <1>1 DEF WithRole, Rule
  <2>2. IsAbout("deployment", rule, r)
    BY <2>1 DEF IsAbout
  <2>3. ResourceAnswers(Loaded(u), "deployment", method, r) = {TRUE} <=> Lets(permission[u], rule, p)
    BY <2>1, <2>2, Decided
  <2>4. QED
    BY <2>1, <2>3 DEF Lets, PERMISSION_TYPES
<1>2. QED
  BY <1>1, DeploymentRule DEF PERMISSION_TYPES

\* The columns of docs/rbac.md that are allowed, column by column.
LEMMA ColumnsOfCluster ==
    ASSUME NEW u, NEW r \in Cluster
    PROVE  /\ \A m \in AllowedOn(u, r) :
                 m \in {"create", "get", "update", "delete", "updateRole", "create deployment"}
           /\ \A m \in {"create", "get", "update", "delete", "updateRole"} :
                 m \in AllowedOn(u, r) <=> ResourceAnswers(Loaded(u), "cluster", m, r) = {TRUE}
           /\ "create deployment" \in AllowedOn(u, r)
                 <=> ResourceAnswers(Loaded(u), "deployment", "create", r) = {TRUE}
<1> DEFINE columns == {"create", "get", "update", "delete", "updateRole"}
           more == IF ResourceAnswers(Loaded(u), "deployment", "create", r) = {TRUE}
                   THEN {"create deployment"} ELSE {}
<1>1. AllowedOn(u, r)
         = {m \in columns : ResourceAnswers(Loaded(u), "cluster", m, r) = {TRUE}} \cup more
  BY DEF AllowedOn
<1>2. QED
  BY <1>1

LEMMA ColumnsOfDeployment ==
    ASSUME NEW u, NEW r, r \notin Cluster
    PROVE  /\ \A m \in AllowedOn(u, r) : m \in {"get", "update", "delete", "updateRole"}
           /\ \A m \in {"get", "update", "delete", "updateRole"} :
                 m \in AllowedOn(u, r) <=> ResourceAnswers(Loaded(u), "deployment", m, r) = {TRUE}
  BY DEF AllowedOn

\* Every row of the two tables, for a user who is no superuser.
LEMMA RowOfCluster ==
    ASSUME TypeOK, NEW u \in Users \ Superusers, NEW r \in Cluster,
           NEW p \in {"none", "read", "write"}, RoleNames(u, r) = {p}
    PROVE  <<permission[u], p, AllowedOn(u, r)>> \in DocumentedForCluster
<1>0. permission[u] \in {"user", "admin"}
  BY DEF Users, Superusers, TypeOK, USER_TYPES
<1>1. /\ "create" \in AllowedOn(u, r) <=> permission[u] = "admin"
      /\ "get" \in AllowedOn(u, r) <=> p \in {"read", "write"}
      /\ "update" \in AllowedOn(u, r) <=> p = "write"
      /\ "updateRole" \in AllowedOn(u, r) <=> permission[u] = "admin" /\ p = "write"
      /\ "delete" \in AllowedOn(u, r) <=> permission[u] = "admin" /\ p = "write"
      /\ "create deployment" \in AllowedOn(u, r) <=> p = "write"
  <2>1. \A m \in {"create", "get", "update", "delete", "updateRole"} :
           m \in AllowedOn(u, r) <=> ResourceAnswers(Loaded(u), "cluster", m, r) = {TRUE}
    BY ColumnsOfCluster
  <2>2. "create" \in AllowedOn(u, r) <=> permission[u] = "admin"
    BY <2>1, ClusterDecisions
  <2>3. "get" \in AllowedOn(u, r) <=> p \in {"read", "write"}
    BY <2>1, ClusterDecisions
  <2>4. "update" \in AllowedOn(u, r) <=> p = "write"
    BY <2>1, ClusterDecisions
  <2>5. "updateRole" \in AllowedOn(u, r) <=> permission[u] = "admin" /\ p = "write"
    BY ZenonT(60), <2>1, ClusterDecisions
  <2>6. "delete" \in AllowedOn(u, r) <=> permission[u] = "admin" /\ p = "write"
    BY ZenonT(60), <2>1, ClusterDecisions
  <2>7. "create deployment" \in AllowedOn(u, r) <=> p = "write"
    <3>1. "create deployment" \in AllowedOn(u, r)
             <=> ResourceAnswers(Loaded(u), "deployment", "create", r) = {TRUE}
      BY ColumnsOfCluster
    <3>2. QED
      BY <3>1, ClusterDecisions
  <2>8. QED
    BY <2>2, <2>3, <2>4, <2>5, <2>6, <2>7
<1>2. \A m \in AllowedOn(u, r) :
         m \in {"create", "get", "update", "delete", "updateRole", "create deployment"}
  BY ColumnsOfCluster
<1> USE <1>1, <1>2
<1>3. CASE permission[u] = "user" /\ p = "none"
  <2>1. AllowedOn(u, r) = {}
    BY <1>3
  <2>2. QED
    BY <1>3, <2>1, Zenon DEF DocumentedForCluster
<1>4. CASE permission[u] = "user" /\ p = "read"
  <2>1. AllowedOn(u, r) = {"get"}
    BY <1>4
  <2>2. QED
    BY <1>4, <2>1, Zenon DEF DocumentedForCluster
<1>5. CASE permission[u] = "user" /\ p = "write"
  <2>1. AllowedOn(u, r) = {"get", "update", "create deployment"}
    BY <1>5
  <2>2. QED
    BY <1>5, <2>1, Zenon DEF DocumentedForCluster
<1>6. CASE permission[u] = "admin" /\ p = "none"
  <2>1. AllowedOn(u, r) = {"create"}
    BY <1>6
  <2>2. QED
    BY <1>6, <2>1, Zenon DEF DocumentedForCluster
<1>7. CASE permission[u] = "admin" /\ p = "read"
  <2>1. AllowedOn(u, r) = {"create", "get"}
    BY <1>7
  <2>2. QED
    BY <1>7, <2>1, Zenon DEF DocumentedForCluster
<1>8. CASE permission[u] = "admin" /\ p = "write"
  <2>1. AllowedOn(u, r) = {"create", "get", "update", "delete", "create deployment", "updateRole"}
    BY <1>8
  <2>2. QED
    BY <1>8, <2>1, Zenon DEF DocumentedForCluster
<1>9. QED
  BY <1>0, <1>3, <1>4, <1>5, <1>6, <1>7, <1>8

LEMMA RowOfDeployment ==
    ASSUME TypeOK, NEW u \in Users \ Superusers, NEW r \in Resource \ Cluster,
           NEW p \in {"none", "read", "write"}, RoleNames(u, r) = {p}
    PROVE  <<permission[u], p, AllowedOn(u, r)>> \in DocumentedForDeployment
<1>0. permission[u] \in {"user", "admin"}
  BY DEF Users, Superusers, TypeOK, USER_TYPES
<1>1. /\ "get" \in AllowedOn(u, r) <=> p \in {"read", "write"}
      /\ "update" \in AllowedOn(u, r) <=> p = "write"
      /\ "updateRole" \in AllowedOn(u, r) <=> permission[u] = "admin" /\ p = "write"
      /\ "delete" \in AllowedOn(u, r) <=> p = "write"
  <2>1. \A m \in {"get", "update", "delete", "updateRole"} :
           m \in AllowedOn(u, r) <=> ResourceAnswers(Loaded(u), "deployment", m, r) = {TRUE}
    BY ColumnsOfDeployment
  <2>2. "get" \in AllowedOn(u, r) <=> p \in {"read", "write"}
    BY <2>1, DeploymentDecisions
  <2>3. "update" \in AllowedOn(u, r) <=> p = "write"
    BY <2>1, DeploymentDecisions
  <2>4. "updateRole" \in AllowedOn(u, r) <=> permission[u] = "admin" /\ p = "write"
    BY <2>1, DeploymentDecisions
  <2>5. "delete" \in AllowedOn(u, r) <=> p = "write"
    BY <2>1, DeploymentDecisions
  <2>6. QED
    BY <2>2, <2>3, <2>4, <2>5
<1>2. \A m \in AllowedOn(u, r) : m \in {"get", "update", "delete", "updateRole"}
  BY ColumnsOfDeployment
<1> USE <1>1, <1>2
<1>3. CASE p = "none"
  <2>1. AllowedOn(u, r) = {}
    BY <1>3
  <2>2. QED
    BY <1>0, <1>3, <2>1, Zenon DEF DocumentedForDeployment
<1>4. CASE p = "read"
  <2>1. AllowedOn(u, r) = {"get"}
    BY <1>4
  <2>2. QED
    BY <1>0, <1>4, <2>1, Zenon DEF DocumentedForDeployment
<1>5. CASE permission[u] = "user" /\ p = "write"
  <2>1. AllowedOn(u, r) = {"get", "update", "delete"}
    BY <1>5
  <2>2. QED
    BY <1>5, <2>1, Zenon DEF DocumentedForDeployment
<1>6. CASE permission[u] = "admin" /\ p = "write"
  <2>1. AllowedOn(u, r) = {"get", "update", "delete", "updateRole"}
    BY <1>6
  <2>2. QED
    BY <1>6, <2>1, Zenon DEF DocumentedForDeployment
<1>7. QED
  BY <1>0, <1>3, <1>4, <1>5, <1>6

\* A superuser has every column.
LEMMA ColumnsOfSuperuser ==
    ASSUME NEW u \in Superusers, NEW r \in Resource
    PROVE  AllowedOn(u, r) = IF r \in Cluster
                             THEN {"create", "get", "update", "delete", "updateRole", "create deployment"}
                             ELSE {"get", "update", "delete", "updateRole"}
<1>1. \A m \in {"create", "get", "update", "delete", "updateRole"} :
         METHOD_CONFIG["cluster"][m].kind = "minimum"
  BY ClusterRule DEF AtLeast, WithRole, Rule
<1>2. \A m \in {"create", "get", "update", "delete", "updateRole"} :
         METHOD_CONFIG["deployment"][m].kind = "minimum"
  BY DeploymentRule DEF WithRole, Rule
<1>3. CASE r \in Cluster
  <2>1. \A m \in {"create", "get", "update", "delete", "updateRole"} : m \in AllowedOn(u, r)
    <3>1. \A m \in {"create", "get", "update", "delete", "updateRole"} :
             ResourceAnswers(Loaded(u), "cluster", m, r) = {TRUE}
      BY <1>1, SuperuserDecided
    <3>2. \A m \in {"create", "get", "update", "delete", "updateRole"} :
             m \in AllowedOn(u, r) <=> ResourceAnswers(Loaded(u), "cluster", m, r) = {TRUE}
      BY <1>3, ColumnsOfCluster
    <3>3. QED
      BY <3>1, <3>2
  <2>2. "create deployment" \in AllowedOn(u, r)
    BY <1>2, <1>3, SuperuserDecided, ColumnsOfCluster
  <2>3. \A m \in AllowedOn(u, r) :
           m \in {"create", "get", "update", "delete", "updateRole", "create deployment"}
    BY <1>3, ColumnsOfCluster
  <2>4. QED
    BY <1>3, <2>1, <2>2, <2>3
<1>4. CASE r \notin Cluster
  <2>1. \A m \in {"get", "update", "delete", "updateRole"} : m \in AllowedOn(u, r)
    <3>1. \A m \in {"get", "update", "delete", "updateRole"} :
             ResourceAnswers(Loaded(u), "deployment", m, r) = {TRUE}
      BY <1>2, SuperuserDecided
    <3>2. \A m \in {"get", "update", "delete", "updateRole"} :
             m \in AllowedOn(u, r) <=> ResourceAnswers(Loaded(u), "deployment", m, r) = {TRUE}
      BY <1>4, ColumnsOfDeployment
    <3>3. QED
      BY <3>1, <3>2
  <2>2. \A m \in AllowedOn(u, r) : m \in {"get", "update", "delete", "updateRole"}
    BY <1>4, ColumnsOfDeployment
  <2>3. QED
    BY <1>4, <2>1, <2>2
<1>5. QED
  BY <1>3, <1>4

\* What the columns of the two tables come to together.
LEMMA AllColumns ==
    /\ UNION {row[3] : row \in DocumentedForCluster}
          = {"create", "get", "update", "delete", "updateRole", "create deployment"}
    /\ UNION {row[3] : row \in DocumentedForDeployment} = {"get", "update", "delete", "updateRole"}
<1> DEFINE ofCluster == {"create", "get", "update", "delete", "updateRole", "create deployment"}
           ofDeployment == {"get", "update", "delete", "updateRole"}
<1>1. \A row \in DocumentedForCluster : row[3] \subseteq ofCluster
  <2> SUFFICES ASSUME NEW row \in DocumentedForCluster PROVE row[3] \subseteq ofCluster
    OBVIOUS
  <2>1. \/ row = <<"user", "none", {}>>
        \/ row = <<"user", "read", {"get"}>>
        \/ row = <<"user", "write", {"get", "update", "create deployment"}>>
        \/ row = <<"admin", "none", {"create"}>>
        \/ row = <<"admin", "read", {"create", "get"}>>
        \/ row = <<"admin", "write", {"create", "get", "update", "delete", "create deployment",
                                     "updateRole"}>>
    BY Zenon DEF DocumentedForCluster
  <2>2. CASE row = <<"user", "none", {}>>
    BY <2>2
  <2>3. CASE row = <<"user", "read", {"get"}>>
    BY <2>3
  <2>4. CASE row = <<"user", "write", {"get", "update", "create deployment"}>>
    BY <2>4
  <2>5. CASE row = <<"admin", "none", {"create"}>>
    BY <2>5
  <2>6. CASE row = <<"admin", "read", {"create", "get"}>>
    BY <2>6
  <2>7. CASE row = <<"admin", "write",
                    {"create", "get", "update", "delete", "create deployment", "updateRole"}>>
    BY <2>7
  <2>8. QED
    BY <2>1, <2>2, <2>3, <2>4, <2>5, <2>6, <2>7
<1>2. \E row \in DocumentedForCluster : row[3] = ofCluster
  <2>1. <<"admin", "write", {"create", "get", "update", "delete", "create deployment", "updateRole"}>>
           \in DocumentedForCluster
    BY Zenon DEF DocumentedForCluster
  <2>2. QED
    BY <2>1
<1>3. \A row \in DocumentedForDeployment : row[3] \subseteq ofDeployment
  BY DEF DocumentedForDeployment
<1>4. \E row \in DocumentedForDeployment : row[3] = ofDeployment
  <2>1. <<"admin", "write", {"get", "update", "delete", "updateRole"}>> \in DocumentedForDeployment
    BY Zenon DEF DocumentedForDeployment
  <2>2. QED
    BY <2>1
<1> HIDE DEF ofCluster, ofDeployment
<1>5. UNION {row[3] : row \in DocumentedForCluster} = ofCluster
  BY <1>1, <1>2
<1>6. UNION {row[3] : row \in DocumentedForDeployment} = ofDeployment
  BY <1>3, <1>4
<1>7. QED
  BY <1>5, <1>6 DEF ofCluster, ofDeployment

\* RBAC decides by the tables of docs/rbac.md, row by row.
LEMMA Decisions == TypeOK => DecisionsAsDocumented
<1> SUFFICES ASSUME TypeOK, NEW u \in Users, NEW r \in made, Cardinality(RoleNames(u, r)) = 1
             PROVE  IF u \in Superusers
                    THEN AllowedOn(u, r)
                            = UNION {row[3] : row \in IF r \in Cluster THEN DocumentedForCluster
                                                      ELSE DocumentedForDeployment}
                    ELSE \E row \in (IF r \in Cluster THEN DocumentedForCluster
                                     ELSE DocumentedForDeployment) :
                            /\ row[1] = permission[u]
                            /\ RoleNames(u, r) = {row[2]}
                            /\ AllowedOn(u, r) = row[3]
  BY DEF DecisionsAsDocumented
<1>1. r \in Resource /\ u \in User
  BY DEF TypeOK, Users
<1>2. CASE u \in Superusers
  <2>1. CASE r \in Cluster
    BY <1>1, <1>2, <2>1, ColumnsOfSuperuser, AllColumns
  <2>2. CASE r \notin Cluster
    BY <1>1, <1>2, <2>2, ColumnsOfSuperuser, AllColumns
  <2>3. QED
    BY <2>1, <2>2
<1>3. CASE u \notin Superusers
  <2>1. PICK p \in {"none", "read", "write"} : RoleNames(u, r) = {p}
    BY <1>1, OneRoleName
  <2> DEFINE row == <<permission[u], p, AllowedOn(u, r)>>
  <2>2. row \in IF r \in Cluster THEN DocumentedForCluster ELSE DocumentedForDeployment
    BY <1>1, <1>3, <2>1, RowOfCluster, RowOfDeployment
  <2>3. row[1] = permission[u] /\ row[2] = p /\ row[3] = AllowedOn(u, r)
    OBVIOUS
  <2> HIDE DEF row
  <2>4. QED
    BY <1>3, <2>1, <2>2, <2>3
<1>4. QED
  BY <1>2, <1>3

\* Everything that is stored about users, roles and requests in progress has
\* the form that the tables and the handlers give it.
THEOREM TypeCorrect == Spec => []TypeOK
<1>1. Init => TypeOK /\ RoleRequestsInv
  BY InitLockout DEF LockoutInv
<1>2. TypeOK /\ RoleRequestsInv /\ [Next]_vars => (TypeOK /\ RoleRequestsInv)'
  BY TypeStep, RoleRequestsStep
<1>3. QED
  BY <1>1, <1>2, PTL DEF Spec

\* Nobody locks the superusers out: router/user.js and controller/user.ts keep
\* a superuser among the users, for any number of users and requests at once,
\* as long as no request acts for a user who has changed since it came in and
\* no admin updates a superuser.
THEOREM NobodyLocksThemOut == Spec => []ASuperuserRemains
<1>1. Init => LockoutInv
  BY InitLockout
<1>2. LockoutInv /\ [Next]_vars => LockoutInv'
  BY TypeStep, RoleRequestsStep, AdmittedStep, CountedStep, SuperuserStep DEF LockoutInv
<1>3. LockoutInv => ASuperuserRemains
  BY DEF LockoutInv
<1>4. QED
  BY <1>1, <1>2, <1>3, PTL DEF Spec

\* createRoleForResource looks for a role and only then inserts one, without a
\* lock or a unique index: roles on a resource may double, but never beyond the
\* number of requests in progress at once, however long the system runs.
THEOREM RolesStayBounded == Spec => []RolesBounded
<1> DEFINE IInv == TypeOK /\ RoleRequestsInv /\ RolesOnMade /\ GrantsInv
<1>1. Init => IInv
  <2> SUFFICES ASSUME Init PROVE IInv
    OBVIOUS
  <2>1. TypeOK /\ RoleRequestsInv
    BY InitLockout DEF LockoutInv
  <2>2. RolesOnMade
    BY DEF Init, RolesOnMade
  <2>3. ASSUME NEW u \in User, NEW r \in Resource
        PROVE  RolesOf(u, r) = {} /\ Granting(u, r) = {}
    BY AccessAssumption DEF Init, RolesOf, Granting, At, Idle, NoRole
  <2>4. Cardinality(Request) \in Nat
    BY AccessAssumption, FS_CardinalityType
  <2>5. GrantsInv
    BY <2>3, <2>4, FS_EmptySet DEF GrantsInv
  <2>6. QED
    BY <2>1, <2>2, <2>5
<1>2. IInv /\ [Next]_vars => IInv'
  BY TypeStep, RoleRequestsStep, RolesOnMadeStep, GrantsStep
<1>3. IInv => RolesBounded
  <2> SUFFICES ASSUME IInv, NEW u \in User, NEW r \in Resource
               PROVE  Cardinality(RolesOf(u, r)) <= Cardinality(Request)
    BY DEF RolesBounded
  <2>1. Cardinality(RolesOf(u, r)) \in Nat /\ Cardinality(Request) \in Nat
    BY AccessAssumption, FS_CardinalityType DEF GrantsInv
  <2>2. QED
    BY <2>1, GrantingFinite DEF GrantsInv
<1>4. QED
  BY <1>1, <1>2, <1>3, PTL DEF Spec

\* Whoever has no write role on a resource gets past the guard of no route of
\* router/index.js that changes it, the proxy aside: rbac.ts and METHOD_CONFIG
\* ask for one wherever the verb is not get, whatever the users, their roles
\* and the requests under way.
THEOREM ReadersStayReaders == Spec => []ReadersChangeNothing
<1>1. TypeOK => ReadersChangeNothing
  BY WriteGuards
<1>2. QED
  BY <1>1, TypeCorrect, PTL

\* docs/rbac.md is what rbac.ts decides: each user type with each role may do
\* on a cluster or a deployment what its row of the tables says and no more,
\* unless roles of two kinds were granted at once.
THEOREM RBACIsAsDocumented == Spec => []DecisionsAsDocumented
<1>1. TypeOK => DecisionsAsDocumented
  BY Decisions
<1>2. QED
  BY <1>1, TypeCorrect, PTL

=============================================================================

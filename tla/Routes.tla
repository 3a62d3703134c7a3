------------------------------- MODULE Routes -------------------------------
(***************************************************************************)
(* The HTTP routes of router/index.js: the verb, what guards the route and *)
(* the handler.  A guard is a resource type and a method for the RBAC      *)
(* middleware, the middleware requireUser, or nothing.                     *)
(***************************************************************************)

On(verb, type, method, handlers) ==
    [verb : {verb}, type : {type}, method : {method}, handler : handlers]

Open(verb, handlers) == On(verb, "open", "none", handlers)
RequireUser(verb, handlers) == On(verb, "requireUser", "none", handlers)

\* The proxy to the Sawtooth REST API takes any verb.
ProxyRoute == On("any", "deployment", "get", {"restApiProxy"})

ConfigRoute == RequireUser("get", {"values"})

AdministrationRoutes ==
    On("get", "administration", "startTime", {"startTime"})
        \cup On("post", "administration", "restart", {"restart"})

SessionRoutes ==
    Open("get", {"status", "hasInitialUser"})
        \cup Open("post", {"login"})
        \cup RequireUser("get", {"logout"})

UserRoutes ==
    On("get", "user", "list", {"list"})
        \cup On("post", "user", "create", {"create"})
        \cup RequireUser("get", {"search"})
        \cup On("get", "user", "get", {"get"})
        \cup On("put", "user", "update", {"update"})
        \cup On("delete", "user", "delete", {"delete"})
        \cup On("get", "user", "token", {"getToken"})
        \cup On("put", "user", "token", {"updateToken"})

ClusterRoutes ==
    On("get", "cluster", "list", {"list"})
        \cup On("post", "cluster", "create", {"create"})
        \cup On("get", "cluster", "get", {"get", "listRoles", "listTasks", "resources", "summary"})
        \cup On("put", "cluster", "update", {"update"})
        \cup On("delete", "cluster", "delete", {"delete"})
        \cup On("post", "cluster", "updateRole", {"createRole"})
        \cup On("delete", "cluster", "updateRole", {"deleteRole"})

\* Mutant of DeploymentRoutes: the role form is guarded like the deployment's.
DeploymentRolesByGet ==
    On("get", "deployment", "get", {"get", "listRoles"})
        \cup On("post", "deployment", "get", {"createRole"})

DeploymentRoutes ==
    On("get", "deployment", "list", {"list"})
        \cup On("post", "deployment", "create", {"create"})
        \cup On("get", "deployment", "get", {"get", "listRoles"})
        \cup On("put", "deployment", "update", {"update"})
        \cup On("delete", "deployment", "delete", {"delete"})
        \cup On("post", "deployment", "updateRole", {"createRole"})
        \cup On("delete", "deployment", "updateRole", {"deleteRole"})

DeploymentPartRoutes ==
    On("get", "deployment", "get", {"listTasks", "resources", "summary"})
        \cup On("delete", "deployment", "delete", {"deletePod"})

DamlKeyRoutes ==
    On("get", "deployment", "get",
       {"getKeyManagerKeys", "getEnrolledKeys", "getParticipants", "getArchives", "getTimeServiceInfo"})
        \cup On("post", "deployment", "update", {"addEnrolledKey"})

DamlLedgerRoutes ==
    On("post", "deployment", "update",
       {"registerParticipant", "rotateParticipantKey", "addParty",
        "generatePartyToken", "generateAdminToken", "uploadArchive"})

TaekionVolumeRoutes ==
    On("get", "deployment", "get", {"listKeys", "listVolumes"})
        \cup On("post", "deployment", "update", {"createKey", "createVolume"})
        \cup On("put", "deployment", "update", {"updateVolume"})
        \cup On("delete", "deployment", "update", {"deleteKey", "deleteVolume"})

TaekionSnapshotRoutes ==
    On("get", "deployment", "get", {"listSnapshots", "explorerListDirectory", "explorerDownloadFile"})
        \cup On("post", "deployment", "update", {"createSnapshot"})
        \cup On("delete", "deployment", "update", {"deleteSnapshot"})

Routes ==
    UNION {ProxyRoute, ConfigRoute, AdministrationRoutes, SessionRoutes, UserRoutes,
           ClusterRoutes, DeploymentRoutes, DeploymentPartRoutes, DamlKeyRoutes,
           DamlLedgerRoutes, TaekionVolumeRoutes, TaekionSnapshotRoutes}

=============================================================================

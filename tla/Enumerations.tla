---------------------------- MODULE Enumerations ----------------------------
(***************************************************************************)
(* The enumerations of config.ts that the control flow of the API tests.   *)
(***************************************************************************)

\* TASK_STATUS, the values of the column task.status.
TASK_STATUS ==
    {"created", "running", "finished", "cancelling", "cancelled", "error"}

\* TASK_ACTIVE_STATUSES: a task with one of these locks its resource.
TASK_ACTIVE_STATUSES == {"created", "running", "cancelling"}

\* The statuses of a task that has ended.
EndedStatuses == TASK_STATUS \ TASK_ACTIVE_STATUSES

\* CLUSTER_STATUS and DEPLOYMENT_STATUS have the same four values.
RESOURCE_STATUS == {"created", "provisioned", "error", "deleted"}

\* TASK_ACTION
TASK_ACTION ==
    {"cluster.create", "cluster.update", "cluster.delete",
     "deployment.create", "deployment.update", "deployment.delete"}

CreateActions == {"cluster.create", "deployment.create"}
DeleteActions == {"cluster.delete", "deployment.delete"}

\* Mutant of TASK_RESOURCE_COMPLETE_STATUS: a key is missing from the map.
IncompleteStatusMap(action) ==
    IF action \in DeleteActions THEN "undefined" ELSE "provisioned"

\* resource_status.completed of the tasks the controllers insert.
TASK_RESOURCE_COMPLETE_STATUS(action) ==
    IF action \in DeleteActions THEN "deleted" ELSE "provisioned"

=============================================================================

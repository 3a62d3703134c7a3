-------------------------- MODULE MCTaskProcessor --------------------------
(* A deployment that is created and deleted, and a cluster likewise: every   *)
(* resource updater and every way to end, with two tasks on each resource.   *)
EXTENDS TaskProcessor

CONSTANTS t1, t2, t3, t4, cluster, deployment

Actions ==
    [t \in Task |->
        CASE t = t1 -> "deployment.create"
          [] t = t2 -> "deployment.delete"
          [] t = t3 -> "cluster.create"
          [] t = t4 -> "cluster.delete"]

Resources == [t \in Task |-> IF t \in {t1, t2} THEN deployment ELSE cluster]

OneYield == [a \in TASK_ACTION |-> 1]

=============================================================================

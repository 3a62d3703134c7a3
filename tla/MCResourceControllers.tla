------------------------ MODULE MCResourceControllers ------------------------
(* A cluster with its deployments. *)
EXTENDS ResourceControllers

CONSTANT cluster
OneCluster == [d \in Deployment |-> cluster]

=============================================================================

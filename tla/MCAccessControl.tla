-------------------------- MODULE MCAccessControl --------------------------
(* A cluster with a deployment; requests, users and role ids are interchangeable. *)
EXTENDS AccessControl, TLC

CONSTANT cluster
OneCluster == [d \in Deployment |-> cluster]
Symmetry == Permutations(Request) \cup Permutations(User) \cup Permutations(RoleId)

=============================================================================

--------------------------- MODULE MCTaskHandlers ---------------------------
(* Deployments, requests, namespaces, versions and task ids are interchangeable. *)
EXTENDS TaskHandlers, TLC

Symmetry == Permutations(Deployment) \cup Permutations(Task) \cup Permutations(Request)
              \cup Permutations(Namespace) \cup Permutations(Version)

=============================================================================

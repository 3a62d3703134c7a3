------------------------ MODULE MCClusterStatusTracker ------------------------
(* Two clusters, and two runs that may overlap. *)
EXTENDS ClusterStatusTracker
=============================================================================

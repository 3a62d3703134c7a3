------------------------ MODULE MCDeploymentStatusPoll ------------------------
(* One deployment, two polls that may overlap, and a release that comes and  *)
(* goes; the deployments of a poll do not interact.                          *)
EXTENDS DeploymentStatusPoll
=============================================================================

SPECIFICATION Spec
CONSTANTS
  Deployment = {d1}
  Poll = {p1, p2}
  HelmStatus = {"none", "deployed", "failed", "unknown"}
  MaxClock = 6
INVARIANT
  TypeOK
PROPERTIES
  OnlyOvertakenPollsChangeStatus
  OnlyOvertakenPollsTurnBack

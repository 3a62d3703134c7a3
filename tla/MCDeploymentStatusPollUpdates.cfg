SPECIFICATION Spec
CONSTANTS
  Deployment = {d1}
  Poll = {p1}
  HelmStatus = {"none", "deployed"}
  MaxClock = 4
PROPERTY
  NewStatusIsWritten

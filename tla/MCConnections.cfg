SPECIFICATION Spec
CONSTANTS
  Cluster = {c1}
  NoCluster = NoCluster
  Editor = {e1, e2}
  AddForm <- MCAddForm
  EditForm <- MCEditForm
  MaxSecrets = 3
  MaxCalls = 3
  Request = {q1, q2}
  Op = {"listVolumes", "addParty"}
  Label = {"tfs"}
  MaxPods = 2
  MaxTimers = 2
INVARIANTS
  TypeOK
  EditsKeepTheRest
PROPERTIES
  StaleConnectionsGo
  ForwardsAreStopped
CHECK_DEADLOCK FALSE

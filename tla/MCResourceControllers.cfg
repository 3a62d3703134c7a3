SPECIFICATION Spec
CONSTANTS
  cluster = cluster
  Cluster = {cluster}
  Deployment = {d1}
  ClusterOf <- OneCluster
  Request = {q1, q2}
  NoResource = NoResource
  MaxTasks = 4
INVARIANTS
  TypeOK
  ActiveTasksBounded
  DeploymentsHaveTheirCluster
PROPERTIES
  LoneRequestIsExclusive
  LoneEraseTakesTheDeleted
CHECK_DEADLOCK FALSE

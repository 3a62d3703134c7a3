SPECIFICATION Spec
CONSTANTS
  cluster = cluster
  Cluster = {cluster}
  Deployment = {d1}
  ClusterOf <- OneCluster
  Request = {q1, q2}
  NoResource = NoResource
  MaxTasks = 3
INVARIANT
  OneActiveTask
CHECK_DEADLOCK FALSE

SPECIFICATION Spec
CONSTANTS
  User = {u1, u2}
  NoUser = NoUser
  cluster = cluster
  Cluster = {cluster}
  Deployment = {d1}
  NoResource = NoResource
  ClusterOf <- OneCluster
  Request = {q1, q2}
  RoleId = {r1, r2, r3}
  NoRow = NoRow
SYMMETRY Symmetry
INVARIANTS
  TypeOK
  DecisionsAsDocumented
  ReadersChangeNothing
  RolesBounded
  ASuperuserRemains

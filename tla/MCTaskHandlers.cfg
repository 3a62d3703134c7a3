SPECIFICATION Spec
CONSTANTS
  Deployment = {d1, d2}
  Task = {t1, t2, t3}
  NoTask = NoTask
  Request = {q1, q2}
  Namespace = {n1, n2}
  Version = {v1, v2}
  MaxCrashes = 1
SYMMETRY Symmetry
INVARIANTS
  TypeOK
  ProvisionedIsInstalled
  DeletedIsGone
  OneKeyPair
  FirstKeyIsPublished
CHECK_DEADLOCK FALSE

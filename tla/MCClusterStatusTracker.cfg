SPECIFICATION FairSpec
CONSTANTS
  Cluster = {c1, c2}
  Run = {r1, r2}
  NoCluster = NoCluster
  MaxChanges = 4
INVARIANT
  TypeOK
PROPERTIES
  DeletedIsLeftAlone
  ExitOnlyOverMissingRows
  StatusSettles

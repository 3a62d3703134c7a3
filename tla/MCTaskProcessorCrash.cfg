SPECIFICATION Spec
CONSTANTS
  t1 = t1
  t2 = t2
  t3 = t3
  t4 = t4
  cluster = cluster
  deployment = deployment
  NoTask = NoTask
  Resource = {cluster, deployment}
  ActionOf <- Actions
  ResourceOf <- Resources
  Yields <- OneYield
  MaxCrashes = 1
  Task = {t1, t2}
  Restartable = {t1, t2}
INVARIANT
  FinishedTaskUpdatesResource

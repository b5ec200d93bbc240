\* Three runs (one that died and two that reclaim its file) and a deployment.
SPECIFICATION Spec
CONSTANTS
  p1 = p1
  p2 = p2
  p3 = p3
  Runners = {p1, p2, p3}
  Deployers = {d1, d2}
  MaxCrashes = 3
  MaxDeployments = 2
  None = None
INVARIANTS
  ExecutionExclusive
  NoExecutionDuringDeployment
PROPERTY
  AbandonedPidFile

SPECIFICATION Spec
CONSTANTS
  Versions = {v1, v2, v3}
  Requests = {r1, r2}
  NoVersion = NoVersion
  NoRequest = NoRequest
  VersionLimit = 3
  MaxReplicas = 2
  MaxStarts = 4
SYMMETRY Symmetry
INVARIANTS
  DeploymentAgrees
  ReadyMatchesDesired
  ServedIsIndexed
  RollbackTargetKeptInOrder
PROPERTIES
  KeepsLifecycle

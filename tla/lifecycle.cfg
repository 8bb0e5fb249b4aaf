SPECIFICATION Spec
CONSTANTS
  MaxReplicas = 2
  MaxSize = 2
  MaxSpecChanges = 1
  MaxFaults = 1
  MaxLag = 2
INVARIANTS TypeOK GoneMeansForgotten
PROPERTIES ClaimsKept UpgradeSafe  ClusterGoes
CHECK_DEADLOCK FALSE

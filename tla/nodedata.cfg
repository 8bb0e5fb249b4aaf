SPECIFICATION Spec
CONSTANTS
  MaxFaults = 2
INVARIANTS ServesWhole GtidsWhole ReplicaConfigured
PROPERTIES KeepsHistory ComesUp
CHECK_DEADLOCK FALSE

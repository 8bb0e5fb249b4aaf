SPECIFICATION Spec
CONSTANTS
  Replicas = 2
  LateSeen = TRUE
  MaxCrashes = 1
  MaxHookFailures = 2
  MaxFaults = 1
  MaxLag = 1
INVARIANTS
  OneWriter
  OneMasterLabel

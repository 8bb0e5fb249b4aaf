SPECIFICATION Spec
CONSTANTS
  Replicas = 2
  LateSeen = FALSE
  MaxCrashes = 1
  MaxHookFailures = 0
  MaxFaults = 1
  MaxLag = 1
PROPERTY
  Recovers

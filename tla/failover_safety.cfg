SPECIFICATION Spec
CONSTANTS
  Replicas = 3
  LateSeen = FALSE
  MaxCrashes = 1
  MaxHookFailures = 0
  MaxFaults = 1
  MaxLag = 2
INVARIANTS
  TypeOK
  FailoverVisible
  NoStrayMaster
PROPERTY
  ConfiguredFromMaster

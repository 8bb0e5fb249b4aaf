SPECIFICATION Spec
CONSTANTS
  Urls = {"none"}
  MaxAttempts = 2
  MaxClones = 1
  MaxRequests = 2
  MaxFaults = 2
  MaxLag = 1
INVARIANTS
  GoneMeansRemoved
PROPERTIES
  Implements
  Settles
  DeletionSettles
  EveryClientServed
CHECK_DEADLOCK FALSE

SPECIFICATION Spec
CONSTANTS
  Hosts = {h1, h2}
  Db = db
  MaxSpecChanges = 1
  MaxDrops = 1
  MaxFaults = 1
  MaxLag = 2
INVARIANTS
  RecordedDropped
PROPERTIES
  Provides
  DeletionCompletes
CHECK_DEADLOCK FALSE

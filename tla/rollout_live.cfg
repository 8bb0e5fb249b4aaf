SPECIFICATION Spec
CONSTANTS
  Versions <- Catalog
  Replicas = 2
  MaxSpecChanges = 1
  MaxForeignWrites = 1
  MaxFaults = 1
  MaxLag = 1
PROPERTIES
  UpgradeCompletes
  InvalidPathHeld

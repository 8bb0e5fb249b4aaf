SPECIFICATION LegacySpec
CONSTANTS
  Versions <- TwoLines
  Replicas = 2
  MaxSpecChanges = 1
  MaxForeignWrites = 1
  MaxFaults = 1
  MaxLag = 1
INVARIANTS
  CheckNeverHolds
PROPERTIES
  TemplateHeldForBackfill
  AppliedRecorded

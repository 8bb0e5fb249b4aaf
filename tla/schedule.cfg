SPECIFICATION Spec
CONSTANTS
  Schedules = {"daily"}
  Limits = {1, 2}
  MaxBackups = 3
  MaxRuns = 2
  MaxSpecChanges = 1
  MaxFaults = 1
INVARIANTS
  TypeOK
  KeepsLast
  
PROPERTIES
  ScheduleFollowed
CHECK_DEADLOCK FALSE

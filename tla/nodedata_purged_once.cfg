SPECIFICATION Spec
CONSTANTS
  MaxFaults = 1
PROPERTIES PurgedOnce
CHECK_DEADLOCK FALSE

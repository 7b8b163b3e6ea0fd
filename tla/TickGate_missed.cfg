\* The gate-push pass against the two writes of set-status.
SPECIFICATION Spec
CONSTANTS
  Streak = 2
  MaxFaults = 0
PROPERTIES NeverMissed
CHECK_DEADLOCK FALSE

SPECIFICATION LiveSpec
CONSTANTS
  MaxChanges = 1
  MaxFaults = 1
INVARIANTS OwnWritesSeen
PROPERTIES EventuallySettled
CHECK_DEADLOCK FALSE

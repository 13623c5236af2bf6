SPECIFICATION Spec
CONSTANTS
  Minute = 2
  Day = 5
  Window = 4
  Margin = 2
  Period = 2
  Length = 1
  Offset <- Offsets
  MaxNow = 53
  MaxCalls = 3
  MaxFaults = 1
INVARIANTS KeptIfSeen ExtendedAsAsked OneRulePerSeries TodKept NeverLapses
PROPERTIES DeletedIsGone RenewSparesOccurrence
CHECK_DEADLOCK FALSE

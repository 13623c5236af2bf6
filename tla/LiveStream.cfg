SPECIFICATION Spec
CONSTANTS
  SizeOf <- Sizes
  Visible = 2
  Margin = 1
  MaxWant = 2
  ColdTries = 2
  FullTries = 2
  Lag = TRUE
INVARIANTS TypeOK OneSegmentPerByte OwnInstance
PROPERTIES AddressStable NoSplice
CHECK_DEADLOCK FALSE

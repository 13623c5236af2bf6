SPECIFICATION Spec
CONSTANTS
  SizeOf <- Sizes
  MaxWant = 2
  ColdTries = 2
  FullTries = 2
  Faults = {"playlist", "probe"}
INVARIANTS OneSegmentPerByte CacheInStep InOrder
PROPERTIES AddressStable
CHECK_DEADLOCK FALSE

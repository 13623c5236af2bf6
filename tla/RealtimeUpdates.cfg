SPECIFICATION LiveSpec
CONSTANTS
  Bodies <- Texts
  Controls <- Others
  Short = 1
  MaxPayload = 2
  MaxFrames = 3
  InitialBackoff = 1
  MaxBackoff = 2
  MaxConnects = 2
INVARIANTS Conserved WholeUnlessTorn
PROPERTIES Delivered Stopped
CHECK_DEADLOCK FALSE

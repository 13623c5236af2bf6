SPECIFICATION Spec
CONSTANTS
  c1 = c1
  c2 = c2
  v1 = v1
  v2 = v2
  v3 = v3
  t1 = t1
  t2 = t2
  i1 = i1
  i2 = i2
  i3 = i3
  NoOne = NoOne
  Channel = {c1, c2}
  Viewer = {}
  Thread = {t1, t2}
  Instance = {i1, i2}
  MaxConcurrent = 2
  Prompt = {}
  Faults = {}
  MaxCrashes = 0
  AdminCalls = TRUE
INVARIANTS TypeOK ChannelBound

SPECIFICATION LiveSpec
CONSTANTS
  c1 = c1
  c2 = c2
  v1 = v1
  v2 = v2
  v3 = v3
  t1 = t1
  t2 = t2
  i1 = i1
  i2 = i2
  i3 = i3
  NoOne = NoOne
  Channel = {c1}
  Viewer = {v1}
  Thread = {t1, t2}
  Instance = {i1}
  MaxConcurrent = 1
  Prompt = {v1}
  Faults = {"launch", "ttl", "timeout"}
  MaxCrashes = 1
  AdminCalls = FALSE
PROPERTIES EventuallyForgotten EventuallyScrubbed

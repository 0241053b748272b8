SPECIFICATION Spec
CONSTANTS
  c1 = c1
  c2 = c2
  e1 = e1
  e2 = e2
  e3 = e3
  bad = bad
  Callers = {c1, c2}
  Events = {e1, e2, e3, bad}
  Invalid = {bad}
  batchSize = 2
  maxRetries = 1
CHECK_DEADLOCK FALSE
PROPERTIES
  FlushWaitsForAll

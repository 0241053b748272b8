CONSTANTS
  Callers = {c1, c2}
  bad = bad
  Events = {e1, e2, bad}
  Invalid = {bad}
  BatchSize = 1
  WorkerRetries = 1
  CallRetries = 1
SPECIFICATION FairSpec
INVARIANTS
  TypeOK
  EventsConserved
  AcceptedMeansReceived
PROPERTIES
  ImplementsEventQueue
  FlushReturns
CHECK_DEADLOCK FALSE

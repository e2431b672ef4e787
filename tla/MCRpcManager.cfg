CONSTANTS
  Services = {s}
  Executors = {e1, e2}
  Hosts = {e1}
  NoExecutor = NoExecutor
  Capacity = 2
  NumThreads = 2
  MaxCalls = 2
  MaxTime = 1
SPECIFICATION Spec
CHECK_DEADLOCK FALSE
INVARIANTS
  TypeOK
  CompletedExactlyOnce
  WorkKeepsItsCall
  NoCallLeaks
  OkMeansAnswered
PROPERTIES
  CallsAreAnswered

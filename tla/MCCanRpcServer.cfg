CONSTANTS
  SequenceModulus = 16
  MaxCalls = 1
  Fragments = 2
  MaximumRetries = 1
  BusDepth = 3
  MaxRejections = 1
  MaxRestarts = 0
SPECIFICATION Spec
CHECK_DEADLOCK FALSE
PROPERTIES
  ServerFreesItself

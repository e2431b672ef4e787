CONSTANTS
  SequenceModulus = 16
  MaxCalls = 1
  Fragments = 1
  MaximumRetries = 1
  BusDepth = 2
  MaxRejections = 0
  MaxRestarts = 0
SPECIFICATION Spec
CHECK_DEADLOCK FALSE
PROPERTIES
  ClientFreesItself

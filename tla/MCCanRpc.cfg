CONSTANTS
  SequenceModulus = 16
  MaxCalls = 2
  Fragments = 1
  MaximumRetries = 1
  BusDepth = 2
  MaxRejections = 1
  MaxRestarts = 1
SPECIFICATION SafetySpec
CHECK_DEADLOCK FALSE
INVARIANTS
  AnsweredAtMostOnce
  ExecutedAtMostOnce
  OkMeansProduced

CONSTANTS
  SequenceModulus = 16
  MaxMessages = 18
  MaxFragments = 1
  MaximumRetries = 2
  BusDepth = 1
  MaxDelay = 1
  MaxRepeats = 0
SPECIFICATION Spec
CHECK_DEADLOCK FALSE
INVARIANTS
  AcknowledgedMeansDelivered

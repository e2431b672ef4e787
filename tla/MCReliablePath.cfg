CONSTANTS
  SequenceModulus = 8
  MaxMessages = 10
  MaxFragments = 2
  MaximumRetries = 1
  BusDepth = 2
  MaxDelay = 2
  MaxRepeats = 1
SPECIFICATION Spec
CHECK_DEADLOCK FALSE
INVARIANTS
  NoTornMessage
PROPERTIES
  ImplementsChannel
  SenderSettles

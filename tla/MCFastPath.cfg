CONSTANTS
  SequenceModulus = 16
  MaxSamples = 18
  MaxFragments = 2
  BusDepth = 3
  MaxFaults = 2
SPECIFICATION Spec
CHECK_DEADLOCK FALSE
INVARIANTS
  TornOnlyAfterRejection
  WholeSampleDelivered
PROPERTIES
  InOrderAtMostOnce

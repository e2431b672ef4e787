CONSTANTS
  SequenceModulus = 64
  MaxSamples = 4
  MaxFragments = 2
  BusDepth = 4
  MaxFaults = 1
SPECIFICATION Spec
CHECK_DEADLOCK FALSE
INVARIANTS
  NoTornSample

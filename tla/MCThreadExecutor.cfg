CONSTANTS
  Capacity = 2
  Workers = {w1, w2}
  Posters = {p}
  MaxTickets = 3
  MaxTime = 1
SPECIFICATION Spec
CHECK_DEADLOCK FALSE
INVARIANTS
  TypeOK
  SizeCountsSlots
  JoinedMeansQuiet
PROPERTIES
  PostsBeginInOrder
  ImplementsWorkQueue
  ArmedWorkBegins
  ShutdownReturns

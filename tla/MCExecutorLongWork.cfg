CONSTANTS
  Capacity = 2
  Workers = {w1, w2}
  Posters = {p}
  MaxTickets = 2
  MaxTime = 1
SPECIFICATION SpecLongWork
CHECK_DEADLOCK FALSE
PROPERTIES
  IdleThreadTakesWork

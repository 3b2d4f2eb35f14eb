SPECIFICATION FairSpec
CONSTANTS
  p1 = p1
  p2 = p2
  p3 = p3
  w1 = w1
  w2 = w2
  c1 = c1
  NoEvent = NoEvent
  Producers = {p1, p2, p3}
  Cancelable = {}
  Workers = {w1, w2}
  Clients = {c1}
  Capacity = 2
  MaxArrivals = 3
INVARIANTS
  NoLostSpaceWakeup
PROPERTIES
  WaitsOnlyWhileFull
  EveryTurnComes

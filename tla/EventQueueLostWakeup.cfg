SPECIFICATION FairSpec
CONSTANTS
  p1 = p1
  p2 = p2
  w1 = w1
  w2 = w2
  c1 = c1
  NoEvent = NoEvent
  Producers = {p1, p2}
  Cancelable = {p1}
  Workers = {w1, w2}
  Clients = {c1}
  Capacity = 1
  MaxArrivals = 2
PROPERTY WaitsOnlyWhileFull

SPECIFICATION Spec
CONSTANTS
  p1 = p1
  p2 = p2
  w1 = w1
  w2 = w2
  c1 = c1
  c2 = c2
  NoEvent = NoEvent
  Producers = {p1, p2}
  Cancelable = {p1}
  Workers = {w1, w2}
  Clients = {c1, c2}
  Capacity = 2
  MaxArrivals = 4
SYMMETRY Interchangeable
INVARIANTS
  TypeOK
  NoLostItemWakeup
  TurnsConserved
  SerializedInQueueOrder

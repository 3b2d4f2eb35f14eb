SPECIFICATION FairSpec
CONSTANTS
  p1 = p1
  p2 = p2
  p3 = p3
  i1 = i1
  i2 = i2
  l1 = l1
  l2 = l2
  l3 = l3
  NoLock = NoLock
  NoProc = NoProc
  Procs = {p1, p2, p3}
  Cancelable = {p1, p2, p3}
  ClientIDs = {i1, i2}
  Locks = {l1, l2, l3}
PROPERTIES
  ImplementsMutex
  EveryCallerProceeds

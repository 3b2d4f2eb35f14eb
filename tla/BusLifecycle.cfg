SPECIFICATION Spec
CONSTANTS
  a = a
  b = b
  i1 = i1
  i2 = i2
  w1 = w1
  w2 = w2
  Nobody = Nobody
  Closer = Closer
  ClientIDs = {i1, i2}
  Callers = {a, b}
  Workers = {w1, w2}
  MaxClients = 3
  Scenarios <- LifecycleScenarios
SYMMETRY Interchangeable
INVARIANTS
  TypeOK
  NoSendAfterClose
  CompletesAfterOne
  HistoryOnlyWhileRegistered
  NoConnectionLeak
  ShutdownClean
PROPERTIES
  NoSilentDrop
  OnlyOwnFailureRemoves
  ReusedConnectionStaysOpen

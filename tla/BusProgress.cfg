SPECIFICATION FairSpec
CONSTANTS
  a = a
  b = b
  i1 = i1
  i2 = i2
  w1 = w1
  w2 = w2
  Nobody = Nobody
  Closer = Closer
  ClientIDs = {i1}
  Callers = {a, b}
  Workers = {w1}
  MaxClients = 1
  Scenarios <- ProgressScenarios
PROPERTIES
  CallsReturn
  CloseReturns
  ExhaustedIsRemoved

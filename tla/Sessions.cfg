SPECIFICATION Spec
CONSTANTS
  i1 = i1
  i2 = i2
  a = a
  b = b
  x = x
  y = y
  p1 = p1
  p2 = p2
  Nobody = Nobody
  Ids = {i1, i2}
  Names = {a, b}
  EventIDs = {x, y}
  Callers = {p1, p2}
  Retention = 1
  Scenarios <- Everything
INVARIANTS PurgeInvisible EntitledGetIt CallsSettle
PROPERTIES LosesOnlyUnwanted
CHECK_DEADLOCK FALSE

SPECIFICATION FairSpec
CONSTANTS
  r1 = r1
  r2 = r2
  Requests = {r1, r2}
  Complete = {r2}
  Expiration = 1
  None = None
  Scenarios <- Everything
INVARIANTS ReceivedIntact NoGhostSession
PROPERTIES NoWriteAfterReturn RetiredForCause ExpiresOnlySilent ServeReturns SilentClientExpires
CHECK_DEADLOCK FALSE

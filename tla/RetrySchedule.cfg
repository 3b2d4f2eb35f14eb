SPECIFICATION FairSpec
CONSTANTS
  w1 = w1
  NoRetry = NoRetry
  MaxEvents = 3
  Workers = {w1}
  SendCapacity = 1
  Capacity = 1
  Attempts = 2
  SchedulerDelay = 1
  RetryBase = 1
  RetryMax = 2
  MaxDoublings = 4
  MaxTime = 3
INVARIANTS
  TypeOK
  NeverOversleeps
  BackoffDoublesToMaximum
PROPERTIES
  KeepsTheFirst
  RetriesHappen
  CloseEndsWaits

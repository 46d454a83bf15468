\* A watching driver and an operator resume and cancel the same pauses.
SPECIFICATION Spec
CONSTANTS
  w1 = w1
  o1 = o1
  Nobody = Nobody
  Watcher <- MCWatcher
  Operator <- MCOperator1
  MaxPauses = 2
  MaxRulings = 2
  MaxEpoch = 4
  MaxRetries = 1
  MaxCrashes = 1
  MaxHiccups = 1
INVARIANTS
  JournalMatchesResolution
  CancelledNeverResumed
  WorkerHoldsLock
PROPERTIES
  CancelEndsWatch
CHECK_DEADLOCK FALSE

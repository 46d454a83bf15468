\* A watching driver alone with the Principal's rulings, and a forge read that fails.
SPECIFICATION Spec
CONSTANTS
  w1 = w1
  o1 = o1
  Nobody = Nobody
  Watcher <- MCWatcher
  Operator <- MCNoOperator
  MaxPauses = 3
  MaxRulings = 2
  MaxEpoch = 7
  MaxRetries = 2
  MaxCrashes = 1
  MaxHiccups = 1
PROPERTIES
  RulingIsServed
  BareRetryRecovers
CHECK_DEADLOCK FALSE

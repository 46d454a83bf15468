\* Two background starts, one other process that claims epochs, one corrupt file.
SPECIFICATION Spec
CONSTANTS
  s1 = s1
  s2 = s2
  p1 = p1
  Absent = Absent
  Corrupt = Corrupt
  NoRun = NoRun
  Proc <- MCProc
  Starter <- MCStarter
  MaxEpoch = 3
  MaxAttempts = 2
  MaxFaults = 1
INVARIANTS
  HandleIsDurable
  NoUnrecordedController
  TransitionKept
PROPERTIES
  StartReturns
  AcquireReturns
CHECK_DEADLOCK FALSE

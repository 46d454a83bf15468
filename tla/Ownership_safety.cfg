\* Three racing callers, one epoch whose file may turn out corrupt.
SPECIFICATION OwnershipSpec
CONSTANTS
  p1 = p1
  p2 = p2
  p3 = p3
  Absent = Absent
  Corrupt = Corrupt
  Proc <- MCProc3
  MaxEpoch = 3
  MaxAttempts = 2
  MaxFaults = 1
INVARIANTS
  SingleWinner
PROPERTIES
  OwnerImmutable
  ImplementsLedger
CHECK_DEADLOCK FALSE

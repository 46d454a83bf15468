\* Every pair of faults and moves of the world, over three starts of the driver.
SPECIFICATION Spec
CONSTANTS
  MaxRounds = 2
  k1 = k1
  k2 = k2
  i1 = i1
  Key <- MCKey
  Id <- MCId
  None = None
  MaxStalled = 2
  MaxInfra = 2
  Verdict <- MCVerdict
  Signature = {s1}
  MaxPatch = 1
  MaxStarts = 3
  MaxEvents = 2
INVARIANTS
  
  RoundBound
  StallBudgetKept
  PublishedIsApproved
  BareResumesBounded
CHECK_DEADLOCK FALSE

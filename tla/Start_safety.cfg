\* One server; calls, launched processes and the Principal interleave.
SPECIFICATION Spec
CONSTANTS
  c1 = c1
  c2 = c2
  s1 = s1
  s2 = s2
  r1 = r1
  r2 = r2
  p1 = p1
  p2 = p2
  Call <- MCCall
  Server = {s1}
  ServerOf <- MCOneServer
  Request = {r1, r2}
  Child <- MCChild2
  MaxPauses = 1
  MaxCrashes = 0
  MaxHiccups = 0
  NoClaim = NoClaim
  NoChild = NoChild
  GoneChild = GoneChild
  NoLock = NoLock
  DeadLock = DeadLock
  NoKey = NoKey
SYMMETRY MCSymmetry
INVARIANTS
  OneLaunchPerClaim
  LiveLaunchIsClaimed
  
CHECK_DEADLOCK FALSE

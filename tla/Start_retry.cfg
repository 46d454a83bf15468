\* Two servers that repeat one request identity; one of them may die.
SPECIFICATION Spec
CONSTANTS
  c1 = c1
  c2 = c2
  s1 = s1
  s2 = s2
  r1 = r1
  r2 = r2
  p1 = p1
  p2 = p2
  Call <- MCCall
  Server = {s1, s2}
  ServerOf <- MCTwoServers
  Request = {r1}
  Child = {p1}
  MaxPauses = 0
  MaxCrashes = 1
  MaxHiccups = 1
  NoClaim = NoClaim
  NoChild = NoChild
  GoneChild = GoneChild
  NoLock = NoLock
  DeadLock = DeadLock
  NoKey = NoKey
PROPERTIES
  NeverWedged
CHECK_DEADLOCK FALSE

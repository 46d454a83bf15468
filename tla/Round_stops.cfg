\* The loop ends: one fault or move of the world, two starts of the driver.
SPECIFICATION Spec
CONSTANTS
  MaxRounds = 3
  k1 = k1
  k2 = k2
  i1 = i1
  Key <- MCKey
  Id <- MCId
  None = None
  MaxStalled = 2
  MaxInfra = 1
  Verdict <- MCVerdictFew
  Signature = {s1}
  MaxPatch = 2
  MaxStarts = 2
  MaxEvents = 1
PROPERTIES
  RepeatFindingPauses
  LoopStops
CHECK_DEADLOCK FALSE

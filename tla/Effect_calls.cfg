\* One call at a time, overtaken by other holders of the store: crashes, retries,
\* late posts, changed identities, cancellations, a corrupt record.
SPECIFICATION EffectSpec
CONSTANTS
  p1 = p1
  k1 = k1
  k2 = k2
  i1 = i1
  i2 = i2
  Absent = Absent
  Corrupt = Corrupt
  Proc <- MCProc
  Key <- MCKey
  Identity <- MCIdentity
  MaxEpoch = 3
  MaxPostTries = 2
  MaxReconcile = 2
  MaxFence = 1
  MaxLate = 1
  MaxCorrupt = 1
INVARIANTS
  VerifiedMeansLanded
  OneCopyPerIntent
PROPERTIES
  UncertainIsFinal
  FenceLeavesNothingStarted
  CallEnds
CHECK_DEADLOCK FALSE

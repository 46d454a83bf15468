\* Two processes append and drain one queue; one may die, one POST may fail.
SPECIFICATION Spec
CONSTANTS
  p1 = p1
  p2 = p2
  NoLock = NoLock
  Proc <- MCProc2
  MaxEvents = 2
  RotateAt = 0
  ChunkMax = 1
  MayBeUnfit <- MCMayBeUnfit
  MaxCrashes = 1
  MaxFails = 1
  MaxLapses = 0
INVARIANTS
  OneDrainer
  EveryLineAccounted
  FileOrderKept
PROPERTIES
  EventuallyDelivered
CHECK_DEADLOCK FALSE

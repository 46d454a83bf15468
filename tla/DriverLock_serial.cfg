\* Starts that do not overlap: crashes, takeovers, watches, hand-offs, a reissued pid.
SPECIFICATION LockSpec
CONSTANTS
  p1 = p1
  p2 = p2
  p3 = p3
  p4 = p4
  NoFile = NoFile
  Unparsable = Unparsable
  Proc <- MCProc4
  PidOf <- MCPidReissued
  MaxGate = 1
  MaxKills = 1
INVARIANTS
  OneDriver
  DriverOwnsLock
PROPERTIES
  StaleLockNeverBlocks
CHECK_DEADLOCK FALSE

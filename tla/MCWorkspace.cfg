CONSTANTS
  procA = procA
  procB = procB
  r1 = r1
  r2 = r2
  u = u
  w1 = w1
  w2 = w2
  Nobody = Nobody
  Checks <- MCChecks
  Writers <- MCWriters
  Locked <- MCLocked
  Processes <- MCProcesses
  ProcessOf <- MCProcessOf
  MaxTurns = 1
  MaxCrashes = 1
SPECIFICATION FairSpec
INVARIANTS
  HoldExact
  ReleaseNeverBehindLock
PROPERTIES
  EveryWaitEnds
  ImplementsTreeAccess

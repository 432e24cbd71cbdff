CONSTANTS
  c1 = c1
  c2 = c2
  w = w
  v = v
  s = s
  t = t
  d1 = d1
  d2 = d2
  Checks <- TwoChecks
  Commands <- NoCommands
  Sessions <- MCSessions
  SessionOf <- TwoRunsSessionOf
  DefinitionOf <- TwoRunsDefinitionOf
  KindsOf <- EitherKind
  NoKey = NoKey
  NoRecord = NoRecord
  NoListing = NoListing
  MaxWrites = 1
  Editor = TRUE
  MaxRestarts = 1
  Disk = TRUE
SPECIFICATION FairSpec
INVARIANTS
  NoSupersededSuccess
  OneRecorderPerKey
PROPERTIES
  UnpublishedIsRerun
  EveryCheckEnds

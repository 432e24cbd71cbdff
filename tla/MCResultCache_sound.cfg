CONSTANTS
  c1 = c1
  c2 = c2
  w = w
  v = v
  s = s
  t = t
  d1 = d1
  d2 = d2
  Checks <- TwoChecks
  Commands <- OneCommand
  Sessions <- MCSessions
  SessionOf <- OneRunSessionOf
  DefinitionOf <- OneRunDefinitionOf
  KindsOf <- GoAndOther
  NoKey = NoKey
  NoRecord = NoRecord
  NoListing = NoListing
  MaxWrites = 2
  Editor = FALSE
  MaxRestarts = 0
  Disk = FALSE
SPECIFICATION Spec
INVARIANTS
  RecordNamesItsInputs

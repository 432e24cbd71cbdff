CONSTANTS
  g1 = g1
  g2 = g2
  s1 = s1
  f1 = f1
  f2 = f2
  Files <- TwoFiles
  Contents = {a, b}
  Modes = {600, 644}
  Workers <- TwoWorkers
  Sessions <- OneSession
  SessionOf <- SameSession
  Window = 2
  Granularity = 2
  ShardOf <- Split
  ShardLimit = 1
  Absent = Absent
  Torn = Torn
  MaxClock = 3
  MaxChanges = 1
  MaxRuns = 1
  Disk = TRUE
SPECIFICATION Spec
SYMMETRY Symmetry
INVARIANTS
  TrustedIsCurrent
  CountedShardsExist
PROPERTIES
  ServedIsThere

\* Three readers and two writers, each of them acquiring the gate twice.
\* No symmetry: it is unsound for liveness.
CONSTANTS
  r1 = r1
  r2 = r2
  r3 = r3
  w1 = w1
  w2 = w2
  Readers <- MCReaders
  Writers <- MCWriters
  MaxArrivals = 2
SPECIFICATION FairSpec
INVARIANTS
  CountsExact
  NoLostWakeup
PROPERTIES
  NoReaderOvertakes
  ImplementsTreeAccess
  NobodyStarves

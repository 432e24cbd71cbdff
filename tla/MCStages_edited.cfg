CONSTANTS
  c1 = c1
  c2 = c2
  c3 = c3
  s = s
  t = t
  P = P
  Q = Q
  Checks <- MCChecks
  Sessions <- MCSessions
  SessionOf <- MCSessionOf
  PreparationOf <- MCPreparationOf
  Remembered <- MCRemembered
  Absent = Absent
  Partial = Partial
  Unlisted = Unlisted
  MaxChanges = 1
  MaxTurns = 3
  Disk = TRUE
SPECIFICATION Spec
PROPERTIES
  ReusedBuildIsOfItsPreparation

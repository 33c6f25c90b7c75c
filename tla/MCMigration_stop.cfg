SPECIFICATION Spec
CONSTANTS
  r1 = r1
  r2 = r2
  r3 = r3
  Ranks = {r1, r2, r3}
  Owner0 = r1
  NONE = NONE
  UNKNOWN = UNKNOWN
  MigMode = 2
  MaxExport = 1
  MaxFail = 1
  MaxStop = 1
  MapGap = 1
SYMMETRY Others
CHECK_DEADLOCK FALSE
INVARIANT TypeOK
INVARIANT AssertsHold
INVARIANT Agreement

SPECIFICATION Spec
CONSTANTS
  r1 = r1
  r2 = r2
  r3 = r3
  Ranks = {r1, r2, r3}
  Owner0 = r1
  NONE = NONE
  UNKNOWN = UNKNOWN
  MigMode = 0
  MaxExport = 2
  MaxFail = 1
  MaxStop = 0
  MapGap = 0
SYMMETRY Others
CHECK_DEADLOCK FALSE
INVARIANT SingleAuthority
INVARIANT EveryoneKnows
INVARIANT Agreement
INVARIANT AssertsHold
INVARIANT EExportAwaited

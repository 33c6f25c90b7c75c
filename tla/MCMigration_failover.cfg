SPECIFICATION Spec
CONSTANTS
  r1 = r1
  r2 = r2
  r3 = r3
  Ranks = {r1, r2, r3}
  Owner0 = r1
  NONE = NONE
  UNKNOWN = UNKNOWN
  MigMode = 0
  MaxExport = 1
  MaxFail = 2
  MaxStop = 0
  MapGap = 0
SYMMETRY Others
VIEW Recent
CHECK_DEADLOCK FALSE
INVARIANT SingleAuthority
INVARIANT OneHeir
INVARIANT ServerIsHeir
PROPERTY CommitOrder
PROPERTY ImplementsOwnership

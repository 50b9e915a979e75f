SPECIFICATION Spec
CONSTANTS
  r1 = r1
  Requests = {r1}
  MaxDay = 0
  MaxTaps = 4
  MaxManual = 2
  MaxFailures = 0
INVARIANTS
  RollupMatchesLog
  CacheMirrorsSessions
CHECK_DEADLOCK FALSE

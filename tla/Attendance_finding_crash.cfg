SPECIFICATION Spec
CONSTANTS
  r1 = r1
  Requests = {r1}
  MaxDay = 0
  MaxTaps = 2
  MaxManual = 0
  MaxFailures = 1
INVARIANTS
  StartNotLockedOut
CHECK_DEADLOCK FALSE

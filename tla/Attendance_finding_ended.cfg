SPECIFICATION Spec
CONSTANTS
  r1 = r1
  r2 = r2
  Requests = {r1, r2}
  MaxDay = 0
  MaxTaps = 3
  MaxManual = 0
  MaxFailures = 0
PROPERTIES
  EndedIsFinal
CHECK_DEADLOCK FALSE

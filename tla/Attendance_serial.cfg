SPECIFICATION Spec
CONSTANTS
  r1 = r1
  Requests = {r1}
  MaxDay = 1
  MaxTaps = 5
  MaxManual = 0
  MaxFailures = 1
INVARIANTS
  TypeOK
PROPERTIES
  ImplementsWorkDay
CHECK_DEADLOCK FALSE

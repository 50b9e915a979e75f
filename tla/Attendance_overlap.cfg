SPECIFICATION FairSpec
CONSTANTS
  Requests = {r1, r2}
  MaxDay = 0
  MaxTaps = 2
  MaxManual = 1
  MaxFailures = 1
INVARIANTS
  StartOpensDay
  EveryTapWasLegal
  AckedIsDurable
PROPERTIES
  EveryRequestIsAnswered
CHECK_DEADLOCK FALSE

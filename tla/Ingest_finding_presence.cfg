SPECIFICATION IngestSpec
CONSTANTS
  t1 = t1
  hall = hall
  yard = yard
  zAll = zAll
  zTeam = zTeam
  NoTeam = NoTeam
  h1 = h1
  h2 = h2
  Handlers = {h1, h2}
  Zones = {zAll, zTeam}
  Teams = {t1}
  Points = {hall, yard}
  Fixes <- MCFixes
  Place <- MCPlace
  InitialZones <- MCInitialZones
  Batches <- OneByOne
  MaxZoneOps = 0
  MaxNow = 0
  Tolerance = 9
  MaxRequests = 3
  MaxFailures = 0
  MaxLost = 0
SYMMETRY HandlerSymmetry
INVARIANTS
  PresenceIsCurrent
CHECK_DEADLOCK FALSE

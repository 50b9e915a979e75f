SPECIFICATION IngestSpec
CONSTANTS
  t1 = t1
  hall = hall
  yard = yard
  zAll = zAll
  zTeam = zTeam
  NoTeam = NoTeam
  h1 = h1
  h2 = h2
  Handlers = {h1, h2}
  Zones = {zAll, zTeam}
  Teams = {t1}
  Points = {hall, yard}
  Fixes <- MCFixes
  Place <- MCPlace
  InitialZones <- MCTeamZone
  Batches <- MCBatches
  MaxZoneOps = 1
  MaxNow = 1
  Tolerance = 1
  MaxRequests = 2
  MaxFailures = 1
  MaxLost = 1
SYMMETRY HandlerSymmetry
INVARIANTS
  DuplicatesOnlyByLoss
  LiveIsStored
  AnsweredIsStoredAtRest
PROPERTIES
  EventsOnlyOfOwnTeam
CHECK_DEADLOCK FALSE

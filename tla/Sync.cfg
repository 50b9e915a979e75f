SPECIFICATION Spec
CONSTANTS
  hall = hall
  NoTeam = NoTeam
  NoHandler = NoHandler
  h1 = h1
  h2 = h2
  e1 = e1
  fl = fl
  Handlers = {h1, h2}
  Engines = {e1}
  Flushers = {fl}
  Zones = {}
  Teams = {}
  Points = {hall}
  Fixes <- TwoFixes
  Place <- MCPlace
  InitialZones <- MCNoZones
  Batches <- MCBatches
  BatchSize = 2
  Poison = {2}
  MaxDrops = 1
  MaxZoneOps = 0
  MaxNow = 0
  Tolerance = 9
  MaxRequests = 0
  MaxFailures = 1
  MaxLost = 0
  Calls = {c1, c2}
  Elsewhere = {"NULL", "ENDED"}
  MaxTaps = 2
  MaxOthers = 1
  MaxFaults = 1
INVARIANTS
  SyncedIsSafe
  TrackerFollows
PROPERTIES
  EveryFixSettles
  ImplementsDelivery
  ScreenCatchesUp
CHECK_DEADLOCK FALSE

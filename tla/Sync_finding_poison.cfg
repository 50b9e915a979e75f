SPECIFICATION FairSyncSpec
CONSTANTS
  hall = hall
  NoTeam = NoTeam
  NoHandler = NoHandler
  h1 = h1
  h2 = h2
  e1 = e1
  e2 = e2
  fl = fl
  Handlers = {h1, h2}
  Engines = {e1}
  Flushers = {}
  Zones = {}
  Teams = {}
  Points = {hall}
  Fixes <- TwoFixes
  Place <- MCPlace
  InitialZones <- MCNoZones
  Batches <- MCBatches
  BatchSize = 2
  Poison = {2}
  MaxDrops = 1
  MaxZoneOps = 0
  MaxNow = 0
  Tolerance = 9
  MaxRequests = 0
  MaxFailures = 0
  MaxLost = 0
PROPERTIES
  PoisonDoesNotBlock
CHECK_DEADLOCK FALSE

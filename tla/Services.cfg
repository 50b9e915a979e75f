SPECIFICATION Spec
CONSTANTS
  u1 = u1
  u2 = u2
  u3 = u3
  k1 = k1
  k2 = k2
  t1 = t1
  t2 = t2
  Devices = {d1, d2}
  Requests = {r1, r2}
  NoDevice = NoDevice
  MaxTokens = 3
  MaxRare = 1
  MaxAttempts = 1
  Users = {u1, u2}
  NoUser = NoUser
  TeamOf <- MCTeamOf
  SupervisorOf <- MCSupervisorOf
  Tokens = {t1, t2}
  Registered <- MCRegistered
  Workers = {w1, w2}
  Registrars = {g1, g2}
  MaxChanges = 1
  MaxLaunches = 2
  MaxMishaps = 1
  Limit = 2
  MaxRows = 4
  Teams = {k1, k2}
  Staffers = {u1}
  NoTeam = NoTeam
  Nobody = Nobody
  Admins = {h1, h2}
  Names = {"a", "A"}
  Fold <- MCFold
  MaxRequests = 4
  Reports = {i1, i2}
  MaxTrouble = 2
  Old = {o1, o2}
  Marks = {s1, s2}
  Cleaners = {w1, w2}
  MaxErrors = 1
  MaxDay = 4
  MaxHits = 1
  Records <- MCRecords
  Handlers = {w1, w2}
  Window = 1
  MaxReplays = 3
  MaxInstant = 5
  MaxEvents = 4
  People = {u1, u2, u3}
  NameOf <- MCNameOf
  TeamFor <- MCTeamFor
  Supervised <- MCSupervised
  Inactive = {u3}
  TeamIds = {k1, k2}
  NoOne = NoOne
  Days = {1, 2}
  MaxMinutes = 1
  MaxRecords = 3
  MaxFixes = 2
  MaxCuts = 1
  Points = 4
  MaxDist = 2
  Tolerance = 0
  MaxTime = 4
  MaxSessions = 4
INVARIANTS
  ServicesTypeOK
  EndedStaysEnded
  RemindedOnce
  WalkIsExact
  NobodyInDeletedTeam
  NamesDiffer
  StatusIsWhole
  NothingIsLost
  KeysLeaveInTime
  SettledOnce
  AccountsAgree
  ReportsAgree
  TeamReportsHold
  ScreensAgree
  DroppedAreNear
  LogReadersAgree
PROPERTIES
  SignedOutForCause
  RefreshEnds
  TokensDropped
  AllReminded
  ProcessingEnds
  FeedNeverGoesBack
  FeedCatchesUp
CHECK_DEADLOCK FALSE

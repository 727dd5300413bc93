SPECIFICATION MCSpec
CONSTANTS
  Parts = {"account", "container", "server", "agent", "dump", "upload", "versions", "rolling"}
  u1 = u1
  u2 = u2
  a1 = a1
  t1 = t1
  r1 = r1
  r2 = r2
  None = None
  Users = {u1, u2}
  ServiceAccounts = {a1}
  Tokens = {t1}
  Environments = {"e1", "e2"}
  Requests = {r1, r2}
  MaxRequests = 4
  MaxRoleChanges = 1
  Runs = {1}
  Flow = "server"
  Threshold = 2
  Cooldown = 1
  MaxFlips = 5
  MaxManual = 2
  MaxBreaks = 1
  Interval = 1
  Window = 2
  Stale = 5
  Offline = 6
  MaxLosses = 1
  MaxCalls = 2
  Backups = {"b1", "b2", "b3"}
  Uploaded = {"b3"}
  Slow = {"upload"}
  DumpTimeout = 1
  StuckAfter = 2
  OldAfter = 4
  MaxDeletes = 1
  MaxCrashes = 1
  MaxFaults = 1
INVARIANT
  AdminRemains
PROPERTIES
  TokensBounded
  NoticesInOrder
  SteadyNeverMarked
  RunningAgentActive
  CompletedIsKept
  InProgressEnds
  ImageCatchesUp
CHECK_DEADLOCK FALSE

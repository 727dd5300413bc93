SPECIFICATION MCSpec
CONSTANTS
  cf1 = cf1
  cf2 = cf2
  cf3 = cf3
  b1 = b1
  b2 = b2
  b3 = b3
  b4 = b4
  b5 = b5
  Files = {cf1, cf2, cf3}
  ServiceFiles <- MCServiceFiles
  FileOf <- MCFileOf
  ServiceOf <- MCServiceOf
  OverrideOf <- MCOverrideOf
  Deployments = {"d1", "d2", "d3"}
  DeployedBy <- MCDeployedBy
  AutoResync = {cf2}
  Outdated = {cf2}
  Editors = {"e1"}
  Callers = {b1, b2, b3, b4, b5}
  MaxVersion = 2
  MaxEdits = 2
  MaxSecret = 1
  Batches = {b1, b2, b3, b4, b5}
  OpsOf <- MCOps
  RollbackOnFailure <- MCRollback
  KeyOf <- MCKeyOf
  EnvOf <- MCEnvOf
  MaxCrashes = 1
  None = None
  AllServices = {1, 2, 3, 4}
  Requests = {"r1"}
  MaxAdds = 5
INVARIANTS
  NothingLost
  UndisturbedSyncDelivers
  KeyRunsOnce
  StoredGraphSound
PROPERTIES
  BatchReportsTruly
CHECK_DEADLOCK FALSE

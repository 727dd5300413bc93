SPECIFICATION Spec
CONSTANTS
  NumSteps = 3
  Deployments = {"api1", "api2"}
  Services = {"api"}
  ActionOf <- MCActionOf
  SdOf <- MCSdOf
  ServiceOf <- MCServiceOf
  Kind <- MCKind
  Executors = {e1, e2}
  Cancellers = {}
  Rollbackers = {}
  MaxFaults = 0
  MaxCrashes = 0
  MaxDeletes = 0
INVARIANT
  ExecutedOnce
CHECK_DEADLOCK FALSE

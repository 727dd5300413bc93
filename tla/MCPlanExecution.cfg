SPECIFICATION Spec
CONSTANTS
  NumSteps = 3
  Deployments = {"api1", "api2"}
  Services = {"api"}
  ActionOf <- MCActionOf
  SdOf <- MCSdOf
  ServiceOf <- MCServiceOf
  Kind <- MCKind
  Executors = {e1}
  Cancellers = {c1}
  Rollbackers = {r1}
  MaxFaults = 1
  MaxCrashes = 1
  MaxDeletes = 1
INVARIANTS
  StepGate
  RollbackCoverage
  RollbackReversed
  RolledBackRestored
  OneTerminalEvent
  CompletedMeansDeployed
  AnnouncedOutcome
PROPERTY
  PlanSettles
CHECK_DEADLOCK FALSE

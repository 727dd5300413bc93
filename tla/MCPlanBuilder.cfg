SPECIFICATION MCSpec
CONSTANTS
  Parts = {"build", "retry"}
  Services = {1, 2, 3, 4}
  HasUrl = {1}
  HealthDependents = {2}
  ReplicaChoices <- MCReplicaChoices
  Clients = {"c1", "c2", "c3"}
  BodyOf <- MCBodyOf
  Ids = {1, 2, 3, 4}
  NoId = 0
  StaleAge = 1
  RetentionAge = 3
  MaxFaults = 1
  MaxCrashes = 1
INVARIANTS
  DependenciesFirst
  EveryDeploymentOnce
  CyclesRefused
  OneHandler
  ReplaySound
PROPERTIES
  TimelyResponseKept
  KeyNotWedged
CHECK_DEADLOCK FALSE

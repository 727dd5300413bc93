SPECIFICATION MCSpec
CONSTANTS
  Parts = {"build"}
  Services = {1, 2, 3}
  HasUrl = {1}
  HealthDependents = {2}
  ReplicaChoices <- MCOneReplica
  Clients = {"c1", "c2", "c3"}
  BodyOf <- MCBodyOf
  Ids = {1, 2, 3, 4}
  NoId = 0
  StaleAge = 1
  RetentionAge = 3
  MaxFaults = 1
  MaxCrashes = 1
INVARIANT
  OnlyCyclesRefused
CHECK_DEADLOCK FALSE

SPECIFICATION MCSpec
CONSTANTS
  Calls = {"a", "b", "c"}
  Keys = {"web", "db"}
  NoKey = "none"
  NoCall = "none"
  Jobs = {"j1", "j2"}
  Users = {"u", "v"}
  Hooks = {"h", "k"}
  Prefs = {"none", "muted"}
  Drains = {1, 2}
  MaxRetries = 2
  MaxChanges = 1
  MaxFailures = 1
INVARIANTS
  OneHolder
  MapHoldsTheLast
  FanOutSound
PROPERTIES
  ImplementsMutex
  EveryCallEnds
  EveryJobProcessed
CHECK_DEADLOCK FALSE

SPECIFICATION Spec
CONSTANTS
    Count = 6
    Manual = {}
    SizeOf <- MCSizeOf
    Periods <- MCPeriods
    BucketOf <- MCBucketOf
    Tier <- MCTier
    KeepLast = 2
    MinFloor = 4
    MaxTotal = NoCap
    NoCap = NoCap
    Rotators = {"r1", "r2"}
    MaxPasses = 2
    MaxPins = 0
    MaxDeletes = 0
    MaxFaults = 0
CHECK_DEADLOCK FALSE
INVARIANT
    HardFloor

SPECIFICATION MCSpec
CONSTANTS
    Count = 5
    Manual = {3}
    SizeOf <- MCSizeOf
    Periods <- MCPeriods
    BucketOf <- MCBucketOf
    Tier <- MCTier
    KeepLast = 3
    MinFloor = 2
    MaxTotal = 2
    NoCap = NoCap
    Rotators = {r1, r2}
    MaxPasses = 3
    MaxPins = 0
    MaxDeletes = 0
    MaxFaults = 1
    Never = Never
    c1 = c1
SYMMETRY Passes
CHECK_DEADLOCK FALSE
INVARIANTS
    FloorKept
    RowsAndFiles
    RotationFinal
    SchedulesOnTime

SPECIFICATION FairSpec
CONSTANTS
    MinCap = 3
    StartCap = 6
    ReleaseAt = 14
    Ceilings <- Pictures
    Sets <- AllSets
    Paths <- AllPaths
    Source = 15
    MaxLag = 10
    Drain = 5
    CongestedDelay = 5
    HealthyDelay = 2
    ExcessCongested = 3
    ExcessHealthy = 1
    BadToDecrease = 2
    GoodToIncrease = 2
    MinDecreaseGap = 2
    MinIncreaseGap = 3
    Warmup = 2
    Settle = 2
    PathMemory = 6
    PathLowerAfter = 2
    Refresh = 2
    Ttl = 4
    MaxEvents = 2
    Races <- NoRaces
INVARIANTS KnowsWhatIs
PROPERTIES CapsWork
CHECK_DEADLOCK FALSE

SPECIFICATION FairSpec
CONSTANTS
    a = a
    b = b
    Streams = {a, b}
    Nets <- TwoNets
    Start <- AtHome
    Earlier <- Elsewhere
    Confs <- WithAndWithoutTcp
    LossPolls = 3
    UdpDownFor = 3
    DownFor = 5
    MinGap = 3
    SuspectFor = 6
    MaxEvents = 3
    Races <- NoRaces
INVARIANTS DecidedRightly
PROPERTIES Recovers
CHECK_DEADLOCK FALSE

SPECIFICATION FairSpec
CONSTANTS
    a = a
    b = b
    x = x
    y = y
    Pages = {a, b}
    Files = {x, y}
    From <- ByA
    To <- ToOther
    Size <- Chunks
    Leavers = {a, b}
    MaxCancels = 2
    MaxBreaks = 1
INVARIANTS OverIsOver
PROPERTIES EndsForEach
CHECK_DEADLOCK FALSE

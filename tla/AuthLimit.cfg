SPECIFICATION LimitSpec
CONSTANTS
    u = u
    v = v
    w = w
    Users = {u, v, w}
    Key <- SharedAddress
    Threshold = 3
    BanWarn = 1
    Forget = 2
    Ban = 4
    MaxTime = 8
INVARIANTS BanServed OvershootBounded
PROPERTIES NeverWithoutNotice
CHECK_DEADLOCK FALSE

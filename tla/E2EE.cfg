SPECIFICATION FairSpec
CONSTANTS
    a = a
    b = b
    Pages = {a, b}
    IdsOf <- TwiceForB
    MaxChats = 1
    MaxEvents = 3
    Active = {a}
    Deployed <- BMayBeNewer
    Slow = FALSE
    FailWhen = "required"
INVARIANTS ShownIsTrue NothingInClear
PROPERTIES Settles
CHECK_DEADLOCK FALSE

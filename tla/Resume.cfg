SPECIFICATION FairSpec
CONSTANTS
    MaxSocks = 3
    MaxCSent = 1
    MaxSSent = 1
    Window = 1
INVARIANTS ExactlyOnceInOrder NothingMissing DetachedIsReal
PROPERTIES ImplementsLink EventuallyDelivered EndsForBoth

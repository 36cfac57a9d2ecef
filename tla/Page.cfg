SPECIFICATION FairSpec
CONSTANTS
    Cases <- AllCases
    MaxTokens = 4
    MaxTries = 2
    Races <- NoRaces
INVARIANTS ScreenTrue 
PROPERTIES CameraComesBack ComesBack AwayIsTrue  ClosedStaysClosed
CHECK_DEADLOCK FALSE

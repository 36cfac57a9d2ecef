SPECIFICATION FairSpec
CONSTANTS
    Filters = {"none", "blur"}
    Phone = TRUE
    MaxPresses = 3
    MaxOpens = 4
    MaxLosses = 2
    MaxConns = 2
    MaxTries = 2
    Races = {}
   
PROPERTIES  MicSettles
CHECK_DEADLOCK FALSE

SPECIFICATION FairSpec
CONSTANTS
    o = o
    g = g
    h = h
    Clients = {o, g}
    Creds <- OneOpOneGuest
    MaxJoins <- Once
    Lobby = FALSE
    Child = FALSE
    RequireE2EE = FALSE
    MaxClients = 0
    Autolock = TRUE
    Autokick = TRUE
    Hours = FALSE
    MayRedirect = FALSE
    Powers = {"lock"}
    BundledPage = TRUE
    MaxChanges = 1
PROPERTIES LockedInTheEnd EmptiedInTheEnd

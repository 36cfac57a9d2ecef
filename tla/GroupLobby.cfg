SPECIFICATION Spec
CONSTANTS
    o = o
    g = g
    h = h
    Clients = {o, g, h}
    Creds <- MayBeInvited
    MaxJoins <- OpOnce
    Lobby = TRUE
    Child = FALSE
    RequireE2EE = TRUE
    MaxClients = 0
    Autolock = FALSE
    Autokick = FALSE
    Hours = FALSE
    MayRedirect = FALSE
    Powers = {}
    BundledPage = TRUE
    MaxChanges = 0
INVARIANTS SeatsRespected EntriesArePaidFor GoneForGood KnocksShown

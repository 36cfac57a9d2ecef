SPECIFICATION Spec
CONSTANTS
    o = o
    g = g
    h = h
    Clients = {o, g}
    Creds <- OneOpOneGuest
    MaxJoins <- OpOnce
    Lobby = FALSE
    Child = FALSE
    RequireE2EE = FALSE
    MaxClients = 0
    Autolock = FALSE
    Autokick = FALSE
    Hours = TRUE
    MayRedirect = TRUE
    Powers = {"kick", "lock", "leave"}
    BundledPage = FALSE
    MaxChanges = 0
INVARIANTS RosterConverges

SPECIFICATION MCSpec
CONSTANTS
    Requests = {r1, r2}
    Names = {admin, visitor}
    Admin = admin
    Watched = {visitor}
    Tokens = {t1}
    NoToken = noToken
    MaxUser = 1
    MaxGlobal = 2
    Window = 2
    MaxBcrypt = 2
    MaxWrites = 0
    Clients = {c1, c2}
    Bearers = {b1}
    Keys = {k1}
    Nothing = nothing
    HealthTTL = 1
    TicketLife = 2
    SessionLife = 3
    MaxPing = 1
    MaxTime = 4
INVARIANTS GuessesBounded
PROPERTIES
    LimitsEnd
    GateIsSound
CHECK_DEADLOCK FALSE

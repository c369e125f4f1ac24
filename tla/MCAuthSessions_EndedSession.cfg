SPECIFICATION Spec
CONSTANTS
    Requests = {r1, r2}
    Names = {admin}
    Admin = admin
    Watched = {}
    Tokens = {t1, t2}
    NoToken = noToken
    MaxUser = 1
    MaxGlobal = 1
    Window = 1
    MaxBcrypt = 1
    MaxWrites = 2
PROPERTY EndedSessionChangesNothing

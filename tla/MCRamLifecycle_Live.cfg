SPECIFICATION FairSpec
CONSTANTS
    Requests = {r1, r2}
    Startup = startup
    Procs = {p1}
    NoProc = noProc
    NoActor = noActor
    MaxRules = 1
    MaxCrash = 0
PROPERTIES
    LockReleased
    StaleRulesResolve

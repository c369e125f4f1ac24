SPECIFICATION Spec
CONSTANTS
    Requests = {r1, r2}
    Startup = startup
    Procs = {p1, p2}
    NoProc = noProc
    NoActor = noActor
    MaxRules = 2
    MaxCrash = 1
SYMMETRY Symmetry
INVARIANTS
    SingleOwner
    FreshRules
    NoLeakedProcess
    RefusalIsTruthful

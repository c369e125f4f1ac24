SPECIFICATION MCSpec
CONSTANTS
    Editors = {e1}
    Background = background
    Hands = {}
    Slots = {w1}
    None = none
    Survivors = FALSE
    Faults = TRUE
    MaxVersion = 2
    Processes = {p1, p2}
    Characters = {"n", "x", "message", "truncated"}
    Outputs = {}
    MaxOutput = 3
    Chunk = 2
    Retention = 1
    MaxJobs = 2
    MaxStarts = 2
    MaxTime = 3
    MaxWork = 3
CHECK_DEADLOCK FALSE
PROPERTIES
    
    HistoryIsTrue
    TailIsShown

SPECIFICATION MCSpec
CONSTANTS
    Requests = {r1, r2}
    Hosts = {s1, s2, p1}
    Sunshine = {s1, s2}
    NoHost = noHost
    NoRequest = noRequest
    MaxEdits = 3
    m1 = m1
    m2 = m2
    service = service
    once = once
    other = other
    Interval = 3
    SlowInterval = 5
    Jitter = 33
    Timeout = 1
    Warmup = 1
    MaxBackoff = 2
    Batch = 2
    Queue = 1
    Shortest = 1
    Longest = 5
    Early = 1
    Least = 1
    OnlineFor = 2
    StaleFor = 5
    MaxTime = 8
    MaxReports = 3
    Traffic = {1}
    Clocks = {0, 2}
    Readings <- MCReadings
    MaxLaunches = 2
    Machines = {m1, m2}
    Processes = {service, once, other}
    MachineOf <- MCMachineOf
    MaxFresh = 4
    Servers = {"first", "second"}
    Databases = {"new", "restored"}
    NoUrl = "none"
    Versions = {1, 2}
    Builds <- MCBuilds
    Deployments <- MCDeployments
    Restored = {"restored"}
    Legacy = {"restored"}
    Nobody = "nobody"
    MaxStarts = 3
INVARIANTS
    AckedEditsSurvive
    HostBelongsToOne
    ProofIsKept
    KeptTokenIsAccepted
    
    
PROPERTIES CopiesGoForward 
CHECK_DEADLOCK FALSE

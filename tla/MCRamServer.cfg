SPECIFICATION MCSpec
CONSTANTS
    pathA = pathA
    pathB = pathB
    uploader = uploader
    member = member
    manager = manager
    Users = {member}
    Admin = manager
    Management = management
    Everyone = everyone
    NoName = noname
    MaxUpdates = 2
    Paths = {pathA, pathB}
    Uploaders = {uploader}
    Target <- OneTarget
    Length = 3
    Small = 2
    Tasks = {t1, t2}
    Inodes = {i1, i2, i3, i4}
    AllowDelete = TRUE
    Old = {pathA}
    Nobody = nobody
    None = none
    MaxTries = 2
    MaxOthers = 2
    MaxRequests = 3
    Parts = 2
    Second = 2
    MaxVersion = 3
    MaxTime = 2
    PathNames <- ANames
    Files <- AFiles
    Links <- ALinks
    Absent <- AMissing
    Hidden = {"h"}
    IndexPage = "index.html"
    Scopes <- AScopes
    Options <- AOptions
    Tokens <- LTokens
    Anyone = anyone
    RuleRequests <- LRequests
    Settings <- LSettings
    Flags = {{}, {"all", "cert"}}
    Told <- LTold
    Escaped = {"quote"}
    Known <- LKnown
    Least = 2
    MaxSaves = 2
INVARIANTS AnswersFollowRules CopiesAreTrue AppliedIsServed RulesArriveWhole
PROPERTIES LoneTasksAreWhole UpdatesAreSound

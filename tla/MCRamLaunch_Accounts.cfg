SPECIFICATION LaunchSpec
CONSTANTS
    Tokens <- MCTokens
    Anyone = anyone
    RuleRequests <- MCRequests
    Settings <- MCSettings
    Flags = {{}}
    Told <- NothingElse
    Escaped = {}
    Known = {}
    Least = 2
    MaxSaves = 2
INVARIANT AccountsAreServed
CHECK_DEADLOCK FALSE

SPECIFICATION Spec
CONSTANTS
    a = a
    b = b
    m = m
    i1 = i1
    i2 = i2
    x = x
    y = y
    c = c
    d = d
    Requests = {r1, r2}
    Paths = {a, b, m}
    Ids = {i1, i2}
    IdOf <- WithTwin
    Tags = {x, y}
    Categories = {c, d}
    Inputs <- AllRequests
    Orphans <- OneOrphan
    Seeds <- OneSeed
    None = none
    Faults = TRUE
    MaxRequests = 3
SYMMETRY Symmetry
INVARIANTS
    NamesFollowPosts
PROPERTIES
    ExportsAreComplete
    PostsGoWhenAsked
    LoneBulkIsComplete

SPECIFICATION Spec
CONSTANTS
    w1 = w1
    w2 = w2
    p1 = p1
    Ids = {1, 2}
    Profiles = {p1}
    Hired = {1, 2}
    InitialExternal <- FirstSwapped
    Statuses = {"true", "false", "nil"}
    MaxLag = 0
    MaxLead = 0
    Unstamped = FALSE
    Retention = FALSE
    MaxClock = 5
    MaxChanges = 2
    Known = {2}
    FirstID = 2
    Workers = {w1}
    Kinds = {"inc"}
    PageSize = 1
    PageSlack = 2
    Overlap = 3
    Grain = 1
    MaxMalformed = 1
    FutureSkew = 1
    LocalSkew <- OnTime
    DryRun = FALSE
    CycleTimeout = 1
    MaxFaults = 0
INVARIANTS ConflictIsReRead

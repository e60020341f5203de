SPECIFICATION Spec
CONSTANTS
    w1 = w1
    w2 = w2
    p1 = p1
    Ids = {1, 2, 3}
    Profiles = {p1}
    Hired = {1, 2}
    InitialExternal <- NoneBound
    Statuses = {"true", "false", "nil"}
    MaxLag = 0
    MaxLead = 0
    Unstamped = FALSE
    Retention = TRUE
    MaxClock = 6
    MaxChanges = 2
    Known = {}
    FirstID = 3
    Workers = {w1}
    Kinds = {"inc"}
    PageSize = 1
    PageSlack = 2
    Overlap = 2
    Grain = 1
    MaxMalformed = 1
    FutureSkew = 1
    LocalSkew <- OnTime
    DryRun = FALSE
    CycleTimeout = 1
    MaxFaults = 0
INVARIANTS NoLostUpdate

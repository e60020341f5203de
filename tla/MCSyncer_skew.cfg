SPECIFICATION Spec
CONSTANTS
    w1 = w1
    w2 = w2
    p1 = p1
    Ids = {1, 2, 3}
    Profiles = {p1}
    Hired = {2, 3}
    InitialExternal <- ThirdUnbound
    Statuses = {"true", "nil"}
    MaxLag = 0
    MaxLead = 3
    Unstamped = TRUE
    Retention = FALSE
    MaxClock = 4
    MaxChanges = 2
    Known = {2}
    FirstID = 3
    Workers = {w1}
    Kinds = {"inc"}
    PageSize = 1
    PageSlack = 1
    Overlap = 3
    Grain = 2
    MaxMalformed = 1
    FutureSkew = 2
    LocalSkew <- Slow
    DryRun = FALSE
    CycleTimeout = 1
    MaxFaults = 0
INVARIANTS NoLostUpdate RepairNotMissed

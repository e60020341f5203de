SPECIFICATION Spec
CONSTANTS
    w1 = w1
    w2 = w2
    p1 = p1
    Ids = {1, 2}
    Profiles = {p1}
    Hired = {1}
    InitialExternal <- NoneBound
    Statuses = {"true", "false", "nil"}
    MaxLag = 1
    MaxLead = 0
    Unstamped = FALSE
    Retention = TRUE
    MaxClock = 5
    MaxChanges = 2
    Known = {2}
    FirstID = 2
    Workers = {w1}
    Kinds = {"inc", "full"}
    PageSize = 2
    PageSlack = 2
    Overlap = 3
    Grain = 1
    MaxMalformed = 1
    FutureSkew = 1
    LocalSkew <- OnTime
    DryRun = FALSE
    CycleTimeout = 1
    MaxFaults = 1
INVARIANTS TypeOK IInv BindingNotLost DriftIsWarranted
PROPERTIES CheckpointNeverRegresses OnlyOnItsWord

SPECIFICATION DaemonSpec
CONSTANTS
    w1 = w1
    p1 = p1
    Ids = {1, 2}
    Profiles = {p1}
    Hired = {1, 2}
    InitialExternal <- SecondBound
    Statuses = {"true", "false", "nil"}
    MaxLag = 0
    MaxLead = 2
    Unstamped = FALSE
    Retention = FALSE
    MaxClock = 2
    MaxChanges = 1
    Known = {}
    FirstID = 0
    Workers = {w1}
    Kinds = {"inc", "full"}
    PageSize = 2
    PageSlack = 2
    Overlap = 1
    Grain = 1
    MaxMalformed = 0
    FutureSkew = 1
    LocalSkew <- OnTime
    DryRun = TRUE
    CycleTimeout = 1
    MaxFaults = 0
    Configs = {"ok", "error", "rejected", "noFilter", "noPatch"}
    MaxRestarts = 1
PROPERTIES DryRunWritesNothing Terminates
CHECK_DEADLOCK FALSE

SPECIFICATION DaemonSpec
CONSTANTS
    w1 = w1
    p1 = p1
    Ids = {1, 2}
    Profiles = {p1}
    Hired = {1, 2}
    InitialExternal <- SecondBound
    Statuses = {"true", "false"}
    MaxLag = 0
    MaxLead = 0
    Unstamped = FALSE
    Retention = FALSE
    MaxClock = 3
    MaxChanges = 1
    Known = {}
    FirstID = 0
    Workers = {w1}
    Kinds = {"inc", "full"}
    PageSize = 2
    PageSlack = 2
    Overlap = 2
    Grain = 1
    MaxMalformed = 0
    FutureSkew = 1
    LocalSkew <- OnTime
    DryRun = FALSE
    CycleTimeout = 1
    MaxFaults = 1
    Configs = {"ok", "error", "rejected", "noFilter", "noPatch"}
    MaxRestarts = 1
INVARIANTS DaemonTypeOK WrongBindingIsKnown
PROPERTIES RealIdsSurvive Settles
CHECK_DEADLOCK FALSE

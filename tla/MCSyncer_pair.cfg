SPECIFICATION Spec
CONSTANTS
    w1 = w1
    w2 = w2
    p1 = p1
    Ids = {1, 2}
    Profiles = {p1}
    Hired = {1, 2}
    InitialExternal <- NoneBound
    Statuses = {"true", "false"}
    MaxLag = 0
    MaxLead = 0
    Unstamped = FALSE
    Retention = FALSE
    MaxClock = 4
    MaxChanges = 1
    Known = {2}
    FirstID = 2
    Workers = {w1, w2}
    Kinds = {"inc"}
    PageSize = 1
    PageSlack = 2
    Overlap = 3
    Grain = 1
    MaxMalformed <- NoLimit
    FutureSkew = 1
    LocalSkew <- OnTime
    DryRun = FALSE
    CycleTimeout = 1
    MaxFaults = 0
INVARIANTS NoLostUpdate BindingNotLost WriteBackIsOurs RaceMakesNoConflict
PROPERTIES KeepsStoreContract
SYMMETRY WorkerSymmetry

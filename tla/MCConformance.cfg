SPECIFICATION Spec
CONSTANTS
    p1 = p1
    Ids = {1, 2, 3}
    Profiles = {p1}
    Hired = {}
    InitialExternal <- NoneBound
    Statuses = {"true", "false"}
    MaxLag = 0
    MaxLead = 0
    Unstamped = FALSE
    Retention = TRUE
    MaxClock = 1
    MaxChanges = 2
    PageSize = 2
    Probe = 9
    Reserved = 2
INVARIANTS ConformanceTypeOK Thorough Blame OneProblem LeavesAsFound

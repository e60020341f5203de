SPECIFICATION ReplicasSpec
CONSTANTS
    m1 = m1
    m2 = m2
    q1 = q1
    q2 = q2
    c1 = c1
    c2 = c2
    c3 = c3
    p1 = p1
    Procs = {m1, m2}
    MaxFaults = 1
    Ids = {1}
    Profiles = {p1}
    Callers = {c1, c2, c3}
    ProcessOf <- Processes
    PartnerOf <- Serving
    PoolSize = 3
    MaxSeq = 2
    MaxStamp = 3
INVARIANTS ReplicasTypeOK LockIsInside PoolBalanced OneAtATime
PROPERTIES CheckpointMonotone TablesKeepContract CyclesComplete

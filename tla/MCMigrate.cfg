SPECIFICATION FairSpec
CONSTANTS
    m1 = m1
    m2 = m2
    m3 = m3
    Procs = {m1, m2, m3}
    NumFiles = 3
    MaxFaults = 3
INVARIANTS OnceEach InOrder NoCollision DoneMeansMigrated
PROPERTIES EveryoneMigrates
CHECK_DEADLOCK FALSE

SPECIFICATION FairSpec
CONSTANTS
    c1 = c1
    c2 = c2
    Calls = {c1, c2}
    MaxRetries = 1
    Interval = 2
    Unit = 2
    Cap = 3
    Hints = {4}
    Patience = {2, 6}
    MaxClock = 7
INVARIANTS ClientTypeOK NotTooSoon
PROPERTIES Throttled ExpiredReturns
CHECK_DEADLOCK FALSE

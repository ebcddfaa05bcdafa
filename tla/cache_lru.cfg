CONSTANTS
    Keys = {k1, k2, k3, k4}
    MaxSessions = 3
    Ttl = 3
    Pauses = {1, 2}
    MaxClock = 9
SPECIFICATION Spec
INVARIANTS TypeOK RecentlyUsedKept
CHECK_DEADLOCK FALSE

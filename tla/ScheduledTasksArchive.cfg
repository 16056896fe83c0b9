SPECIFICATION Spec
CONSTANTS
    t1 = t1
    p1 = p1
    p2 = p2
    None = None
    Task = {t1}
    Runner = {p1, p2}
    MaxFire = 2
    MaxRequests = 1
    MaxFaults = 1
INVARIANT ArchiveCancelsOccurrences
CHECK_DEADLOCK FALSE

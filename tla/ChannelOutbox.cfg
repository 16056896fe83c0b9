SPECIFICATION FairSpec
CONSTANTS
    p1 = p1
    p2 = p2
    None = None
    Row = {1, 2}
    Expiring = {2}
    Process = {p1, p2}
    ReceiptAttempts = 2
    MaxFaults = 3
INVARIANTS
    TypeOK
    TransmittedAtMostOnce
    ReceiptIsTrue
    ArchivedSessionIsQuiet
PROPERTIES
    SettledIsFinal
    PendingIsResolved
CHECK_DEADLOCK FALSE

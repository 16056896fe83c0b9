SPECIFICATION FairSpec
CONSTANTS
    r1 = r1
    r2 = r2
    d1 = d1
    d2 = d2
    None = None
    Request = {r1, r2}
    KeyOf <- OneStream
    Malformed = {r2}
    Daemon = {d1, d2}
    Slot = {1}
    TTL = 2
    RetryAfter = 1
    MaxFaults = 1
INVARIANTS
    TypeOK
    OwnershipHoldsUnlessCut
    StreamHasOneOwnerUnlessCut
    FreeStreamIsClaimable
PROPERTIES
    EveryRequestSettles
    StaleHandlerChangesNothing
    DeliversInOrder

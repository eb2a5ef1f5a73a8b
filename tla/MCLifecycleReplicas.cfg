SPECIFICATION Spec
CONSTANTS
    c1 = c1
    c2 = c2
    r1 = r1
    r2 = r2
    Contracts <- OneContract
    OpenOffer <- NoOpenOffer
    Clashes = {}
    Booked = {}
    Replicas <- TwoReplicas
    MaxFailures = 1
INVARIANTS
    TypeOK
    SettlementMatchesAnswer
    CompletedForAReason
    AnnouncedOnce
CHECK_DEADLOCK FALSE

SPECIFICATION FairSpec
CONSTANTS
    c1 = c1
    c2 = c2
    r1 = r1
    r2 = r2
    Contracts <- TwoContracts
    OpenOffer <- MCOpenOffer
    Clashes = {}
    Booked = {}
    Replicas <- OneReplica
    MaxFailures = 1
PROPERTIES
    DealKept
    InviteIsClosed
    JobIsSettled
CHECK_DEADLOCK FALSE

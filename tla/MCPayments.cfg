SPECIFICATION HistorySpec
CONSTANTS
    c1 = c1
    c2 = c2
    g1 = g1
    g2 = g2
    e1 = e1
    e2 = e2
    s1 = s1
    s2 = s2
    None = None
    Contracts <- OneContract
    OpenOffer <- NoOpenOffer
    Charges <- MCCharges
    Events <- MCEvents
    Sessions <- MCSessions
    Total <- TotalOfOne
    OpeningBalance = 1
SYMMETRY Symmetry
INVARIANTS
    TypeOK
    NothingOwedUnfunded
    PaidIsConfirmed
    CreditDebitedOnce
PROPERTY KeptUnlessCrossed
CHECK_DEADLOCK FALSE

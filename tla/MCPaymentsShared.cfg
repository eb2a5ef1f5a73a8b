SPECIFICATION HistorySpec
CONSTANTS
    c1 = c1
    c2 = c2
    g1 = g1
    g2 = g2
    e1 = e1
    e2 = e2
    s1 = s1
    s2 = s2
    None = None
    Contracts <- TwoContracts
    OpenOffer <- SecondIsOpenOffer
    Charges <- MCCharges
    Events <- OneEvent
    Sessions <- MCSessions
    Total <- TotalOfTwo
    OpeningBalance = 2
SYMMETRY Symmetry
INVARIANTS
    NoOverdraft
    ChargedContractSaysPaid
CHECK_DEADLOCK FALSE

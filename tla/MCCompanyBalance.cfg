SPECIFICATION HistorySpec
CONSTANTS
    c1 = c1
    p1 = p1
    p2 = p2
    r1 = r1
    r2 = r2
    s1 = s1
    s2 = s2
    NoRefund = NoRefund
    Companies <- MCCompanies
    Payments <- MCPayments
    Refunds <- MCRefunds
    Sessions <- MCSessions
    Owner <- MCOwner
    Total <- MCTotal
    Applied <- MCApplied
    Amounts <- MCAmounts
    MaxCredit <- MCMaxCredit
SYMMETRY Symmetry
INVARIANTS
    TypeOK
    LedgerExplainsBalance
    BalanceWithinLimits
    CreditedExactlyWhenConverted
    RefundsKeptUnlessCrossed
CHECK_DEADLOCK FALSE

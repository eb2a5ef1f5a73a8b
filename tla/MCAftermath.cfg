SPECIFICATION MCSpec
CONSTANTS
    c1 = c1
    c2 = c2
    k1 = k1
    k2 = k2
    p1 = p1
    pay1 = pay1
    a1 = a1
    a2 = a2
    Contracts = {c1, c2}
    Creators = {k1}
    Company = company
    CreatorOf <- OneCreator
    Gross <- Amounts
    Rate = 10
    Referred = {k1}
    Payouts = {p1}
    PaymentOf <- PaymentsOf
    ContractOf <- ContractsOf
    Admins = {a1, a2}
    News <- Visible
    Repeats = 2
    MaxEvents = 2
    Reviewers = {"company"}
    Editors = {k1}
    Tokens = {t1}
SYMMETRY Symmetry
INVARIANTS
    TypeOK
    PushedOnce
    CommissionPerReferral
    ReputationLagsOnlyByCrossing
    SummaryFollowsPayout
PROPERTIES
    ReadUndoneByItsPush
CHECK_DEADLOCK FALSE

SPECIFICATION Spec
CONSTANTS
    o1 = o1
    i1 = i1
    b1 = b1
    b2 = b2
    b3 = b3
    b4 = b4
    k1 = k1
    k2 = k2
    Offers <- OneOffer
    Invites <- OneInvite
    Bookings <- FourBookings
    Creators <- TwoCreators
    CreatorOf <- AgendaOf
    From <- AgendaFrom
    To <- AgendaTo
    ExpiresAt <- OfferExpiresAt
    Gross <- OfferGross
    Fees <- OneFee
    Windows <- AgendaWindows
    Second = 1
    Minute = 2
    Hour = 4
    Day = 12
    Midnight = 6
    DescriptionMissing = FALSE
    Racing <- OnlyK1
    Horizon = 0
INVARIANTS
    NoDoubleBooking
PROPERTIES
    BookedInsideWindow
CHECK_DEADLOCK FALSE

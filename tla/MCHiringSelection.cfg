SPECIFICATION Spec
CONSTANTS
    o1 = o1
    i1 = i1
    b1 = b1
    b2 = b2
    b3 = b3
    b4 = b4
    k1 = k1
    k2 = k2
    Offers <- OneOffer
    Invites <- OneInvite
    Bookings <- NoBookings
    Creators <- TwoCreators
    CreatorOf <- InviteOfK1
    From <- OfferFrom
    To <- OfferTo
    ExpiresAt <- OfferExpiresAt
    Gross <- OfferGross
    Fees <- TwoFees
    Windows <- Inactive
    Second = 1
    Minute = 2
    Hour = 4
    Day = 12
    Midnight = 6
    DescriptionMissing = TRUE
    Racing <- TwoCreators
    Horizon = 1
PROPERTIES
    SelectionHires
CHECK_DEADLOCK FALSE

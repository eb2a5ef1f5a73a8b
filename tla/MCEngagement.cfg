SPECIFICATION EngagementSpec
CONSTANTS
    c1 = c1
    c2 = c2
    c3 = c3
    r1 = r1
    Contracts <- ThreeContracts
    OpenOffer <- SelectedContract
    Clashes <- InviteClashes
    Booked <- BookedInvite
    Replicas <- OneReplica
    MaxFailures = 0
    MaxMessages = 3
    Milli = 2
CONSTRAINT Bounded
INVARIANTS
    EngagementTypeOK
    ConversationFollowsContract
    CountedUntilPassed
    HubOffersWhatWorks
    HubsAgree
CHECK_DEADLOCK FALSE

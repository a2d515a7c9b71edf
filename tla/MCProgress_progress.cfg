SPECIFICATION ProgressSpec
CONSTANTS
    Devices = {d1}
    Conns = {c1, c2}
    None = None
    MaxTickets = 1
    MaxSubscribers = 2
    MaxDeviceSubscribers = 2
    Resolvers = {k1, k2}
    MaxReviews = 3
INVARIANTS
    RevokedIsSilent
    ReviewMatchesDecision
PROPERTIES
    CallsReturn
    ClosedSubscriberLeaves
    BoundaryIsReviewable

SPECIFICATION Spec
CONSTANTS
    Apps = {a1, a2}
    Calls = {b1, b2}
    CeremonyIds = {c1, c2}
    NoApp = NoApp
    MaxCeremonies = 2
    MaxLogins = 1
    MaxUnknownLogins = 1
    AppBurst = 1
    GlobalBurst = 1
    Handsets = {a1, a2}
    Families = {c1, c2}
    Txs = {b1, b2}
    MaxPairs = 3
    Bootstraps = {x1, x2, x3}
    Passkeys = {y1, y2, y3}
    Requests = {b1, b2}
    MaxPasskeys = 2
    Routes = {r1}
    Handhelds = {d1}
    Visits = {b1, b2}
    MaxTickets = 2
    MaxActive = 2
    MaxForwards = 1
    PushDevices = {d1}
    PushTokens = {c1, c2}
    Registrations = {b1, b2}
    QueueCapacity = 1
    MaxAttempts = 2
SYMMETRY Symmetry
INVARIANTS
    RegistrationsKeepTheirReserve
    RevokedMeansDead
    OwnerKeepsAccess
    RevokedPreviewIsGone
    EndpointsFollowDevices

\* One session at a time: a founder, two colleagues and a provider, two open invitations.
CONSTANTS
    ana = ana
    ben = ben
    cleo = cleo
    dan = dan
    Handlers = {h1}
    Members = {ana, ben, cleo}
    Providers = {dan}
    Founder = ana
    Slots = {s1, s2}
    TrialSeats = 2
    Included = 1
    ProviderCap = 1
    MaxOffered = 1
    MaxPool = 2
SPECIFICATION Spec
INVARIANTS TypeOK PaddleIsDerived KeepsManager PhantomIsInvited
PROPERTIES PoolFollowsOccupancy TrialCapHolds
SYMMETRY Symmetry
CHECK_DEADLOCK FALSE

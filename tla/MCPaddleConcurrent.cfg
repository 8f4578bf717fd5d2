\* Deliveries fail, conflict and are retried.
CONSTANTS
    Handlers = {h1, h2}
    NoHandler = NoHandler
    Admins = {}
    Subs = {s1, s2}
    NoSub = NoSub
    Plans = {p}
    NoPlan = NoPlan
    OnSale = {p}
    Tagged = {s1, s2}
    Taken = {s2}
    Diverging = FALSE
    Dates = {}
    MaxOpen = 2
    MaxEvents = 4
    MaxFaults = 1
SPECIFICATION FairSpec
INVARIANT SignalOnce
PROPERTY EventuallyStored
CHECK_DEADLOCK FALSE

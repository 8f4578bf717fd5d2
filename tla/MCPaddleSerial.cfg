\* One session at a time; events in any order, with every detour.
CONSTANTS
    Handlers = {h1}
    NoHandler = NoHandler
    Admins = {a}
    Subs = {s1, s2}
    NoSub = NoSub
    Plans = {p, q}
    NoPlan = NoPlan
    OnSale = {p, NoPlan}
    Tagged = {s1}
    Taken = {s2}
    Diverging = TRUE
    Dates = {1, 6}
    MaxOpen = 1
    MaxEvents = 5
    MaxFaults = 1
SPECIFICATION Spec
INVARIANT StatusIsNewest
INVARIANT AnchorFollowsStatus
PROPERTY NeverBack
PROPERTY DateMovesByHandOnly
PROPERTY ManualIsProtected
CHECK_DEADLOCK FALSE

\* Two handlers that interleave: two clients who sign together, a cancellation and a second request.
CONSTANTS
    Handlers = {h1, h2}
    NoTx = NoTx
    Requests = {r1,r2}
    Purchases = {p1}
    Pack = 2
    MaxGrants = 0
    Persons = {ana,bob}
    InitialPeople = {ana,bob}
    Countersigner = {}
    Roles = 2
    NoRequest = NoRequest
    NoSeat = NoSeat
    MaxFaults = 0
SPECIFICATION Spec
INVARIANTS TypeOK SignaturesAreReal CompletedIsAnswered
PROPERTY LedgerSpec
CHECK_DEADLOCK FALSE
SYMMETRY FullSymmetry

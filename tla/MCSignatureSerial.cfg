\* One handler at a time: a client and the agency's countersignature, and a person who joins late.
CONSTANTS
    Handlers = {h1}
    NoTx = NoTx
    Requests = {r1, r2}
    Purchases = {p1}
    Pack = 2
    MaxGrants = 0
    Persons = {ana, bob}
    InitialPeople = {ana}
    Countersigner = {agency}
    Roles = 1
    NoRequest = NoRequest
    NoSeat = NoSeat
    MaxFaults = 1
SPECIFICATION Spec
INVARIANTS LiveHoldsCredit NoDoubleSeat
SYMMETRY Symmetry
CHECK_DEADLOCK FALSE

\* One handler at a time, every delivery retried until it is answered.
CONSTANTS
    Handlers = {h1}
    NoTx = NoTx
    Requests = {r1}
    Purchases = {p1}
    Pack = 1
    MaxGrants = 0
    Persons = {ana, bob}
    InitialPeople = {ana, bob}
    Countersigner = {agency}
    Roles = 2
    NoRequest = NoRequest
    NoSeat = NoSeat
    MaxFaults = 1
SPECIFICATION FairSpec
PROPERTY EndedRequestSettles
CHECK_DEADLOCK FALSE

\* The agency: one run of the job, which may die once; two cases share a client whose address is refused,
\* who may be corrected on the first; the second has a spouse.  The family: a muted case, on which two sessions overlap.
CONSTANTS
    ana = ana
    bob = bob
    wife = wife
    eve = eve
    leo = leo
    c1 = c1
    c2 = c2
    family = family
    x = x
    y = y
    h1 = h1
    h2 = h2
    Handlers = {h1, h2}
    Runs = {j}
    Cases = {c1, c2, family}
    Persons = {ana, bob, wife, eve, leo}
    CaseOf <- CaseOfAll
    Principals = {ana, bob, eve}
    Accounts = {x, y}
    MayUse <- MayUseAll
    Muted = {family}
    Refused = {x}
    MaxInvitations = 3
    MaxCrashes = 1
SPECIFICATION BothSpec
INVARIANTS RemindedOnce DoorStaysOpen
PROPERTY DueReminderLeaves
CHECK_DEADLOCK FALSE

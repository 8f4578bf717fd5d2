\* One handler at a time: two steps, two persons, a document and a signed document.  Before that, the
\* search for a cycle on every template of four steps.
CONSTANTS
    a = a
    b = b
    id = id
    visa = visa
    ana = ana
    bob = bob
    Handlers = {h1}
    Steps = {a, b}
    InitialSteps = {a}
    InitialBefore <- NoOrder
    Definitions = {id, visa}
    InitialDefinitions = {id}
    StepOf <- PaperOf
    PrincipalOnly = {id}
    Signable = {visa}
    Persons = {ana, bob}
    Principal = ana
    Validators = {"none", "expat"}
    SearchedSteps = {s1, s2, s3, s4}
SPECIFICATION BothSpec
INVARIANTS TypeOK NoOrphanRow VerdictIsRight
PROPERTIES LockHolds StatusFollowsSteps ProvidedCloses
SYMMETRY Symmetry
CHECK_DEADLOCK FALSE

\* One run that may crash, one handler; the scheduler keeps ticking.
CONSTANTS
    r1 = r1
    r2 = r2
    step = step
    Runs = {j1}
    NoRun = NoRun
    Agents = {a1}
    Reminders = {r1, r2}
    Steps = {step}
    NoStep = NoStep
    StepOf <- Pinned
    Rejected = {r2}
    MaxEdits = 1
    MaxFaults = 1
SPECIFICATION FairSpec
INVARIANTS TypeOK ApprovedOnly OneMailPerApproval
PROPERTY DueLeaves
CHECK_DEADLOCK FALSE

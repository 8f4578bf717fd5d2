\* One recompute at a time, one of them may be lost.
CONSTANTS
    Handlers = {h1}
    Godchildren = {g1, g2, g3}
    Life = 5
    Cycles = {1, 3}
    MaxFaults = 1
SPECIFICATION FairSpec
INVARIANTS NeverOverDiscounted PosedIsEarned
PROPERTY LostIsMadeGood
CHECK_DEADLOCK FALSE

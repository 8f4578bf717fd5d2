\* Two concurrent transactions, two requests, one pack of two credits and one gift.
CONSTANTS
    Txs = {t1, t2}
    NoTx = NoTx
    Requests = {r1, r2}
    Purchases = {p1, p2}
    Pack = 2
    MaxGrants = 1
SPECIFICATION Spec
INVARIANT PaidIsCredited
SYMMETRY Symmetry
CHECK_DEADLOCK FALSE

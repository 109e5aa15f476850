SPECIFICATION Spec
CONSTANTS
    t1 = t1
    t2 = t2
    t3 = t3
    t4 = t4
    a1 = a1
    a2 = a2
    p1 = p1
    p2 = p2
    NoTx = NoTx
    Tx = {t1, t2, t3}
    Queued = {t2}
    Account = {a1}
    AccountOf <- mcAccountOf
    Recent = {t1, t2, t3}
    Patch = {p1}
    Threshold = 2
    Text <- mcText
    Upper <- mcUpper
    Number = {0, 1, 2}
    NaN = NaN
    MaxFailures = 0
INVARIANT
    ConsumedIsStored
CHECK_DEADLOCK FALSE

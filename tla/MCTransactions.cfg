SPECIFICATION mcSpec
CONSTANTS
    t1 = t1
    t2 = t2
    t3 = t3
    t4 = t4
    a1 = a1
    a2 = a2
    p1 = p1
    p2 = p2
    NoTx = NoTx
    Tx = {t1, t2, t4}
    Queued = {t4}
    Account = {a1, a2}
    AccountOf <- mcAccountOf
    Recent = {t1, t2}
    Patch = {p1, p2}
    Threshold = 2
    Text <- mcText
    Upper <- mcUpper
    Number = {0, 1, 2}
    NaN = NaN
    MaxFailures = 1
INVARIANTS
    TypeOK
    BurstIsDetected
    LastSeesAll
    FiredIsJustified
    OperatorsSplit
PROPERTIES
    StoredIsAnswered
    FiredIsPublished
    FlagsChangeAsAsked
CHECK_DEADLOCK FALSE

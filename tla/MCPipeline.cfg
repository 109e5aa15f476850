SPECIFICATION mcSpec
CONSTANTS
    s1 = s1
    s2 = s2
    g1 = g1
    r1 = r1
    r2 = r2
    x1 = x1
    acc = acc
    NaN = NaN
    NoAlert = NoAlert
    HoursPerDay = 4
    DaysPerWeek = 2
    Calendar <- mcCalendar
    Eval = {s1, s2, g1}
    Submitted = {s1, s2}
    Single = {g1}
    Rule = {r1, r2}
    Target <- mcTarget
    NamedIn <- mcNamedIn
    Versions <- mcVersions
    ClientTx = {x1}
    TxOf <- mcTxOf
    AccountOf <- mcAccountOf
    At <- mcAt
    WindowOf <- mcWindowOf
    Req = {}
    MaxAttempts = 1
    Redelivered = {}
    MaxFailures = 1
INVARIANTS
    TypeOK
    FailureIsIsolated
    EmittedIsAnswered
    RetryIsAbsorbed
    WindowsAreBuckets
    NothingIsForgotten
PROPERTY
    FiredIsAlerted
CHECK_DEADLOCK FALSE

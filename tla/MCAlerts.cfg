SPECIFICATION mcSpec
CONSTANTS
    e1 = e1
    e2 = e2
    e3 = e3
    e4 = e4
    k1 = k1
    k2 = k2
    u1 = u1
    u2 = u2
    q1 = q1
    NoAlert = NoAlert
    Msg = {e1, e2, e3, e4}
    Key = {k1, k2}
    Rule = {u1, u2}
    KeyOf <- mcKeyOf
    RuleOf <- mcRuleOf
    Malformed = {e3}
    Req = {q1}
    MaxAttempts = 2
    Redelivered = {e1}
    MaxFailures = 1
INVARIANTS
    TypeOK
    UniqueUnlessRaced
    ExactUnlessRaced
    AckedIsAccountedFor
    OneOutstandingDelivery
PROPERTIES
    EventuallyAcked
    DecisionsStick
    KeepsTheBook
CHECK_DEADLOCK FALSE

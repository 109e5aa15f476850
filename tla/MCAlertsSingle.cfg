SPECIFICATION Spec
CONSTANTS
    e1 = e1
    e2 = e2
    e3 = e3
    e4 = e4
    k1 = k1
    k2 = k2
    u1 = u1
    u2 = u2
    q1 = q1
    NoAlert = NoAlert
    Msg = {e1, e2}
    Key = {k1}
    Rule = {u1}
    KeyOf <- mcKeyOf
    RuleOf <- mcRuleOf
    Malformed = {}
    Req = {}
    MaxAttempts = 1
    Redelivered = {}
    MaxFailures = 0
INVARIANT
    SingleActiveAlertPerKey
CHECK_DEADLOCK FALSE

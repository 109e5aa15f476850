SPECIFICATION Spec
CONSTANTS
    o1 = o1
    o2 = o2
    v1 = v1
    c1 = c1
    c2 = c2
    c3 = c3
    c4 = c4
    r1 = r1
    r2 = r2
    l1 = l1
    Never = Never
    NoEntry = NoEntry
    Org = {o1, o2}
    Value = {v1}
    OrgOf <- mcOrgOf
    ValueOf <- mcValueOf
    ExpiresAt <- mcExpiresAt
    Create = {c2}
    Remove = {}
    Lookup = {l1}
    MaxTime = 1
    MaxFailures = 0
PROPERTY
    ExpiredIsNotListed
CHECK_DEADLOCK FALSE

SPECIFICATION Spec
CONSTANTS
    i1 = i1
    i2 = i2
    e1 = e1
    e2 = e2
    w1 = w1
    w2 = w2
    o1 = o1
    o2 = o2
    Org = {o1, o2}
    Instance = {i1, i2}
    Eval = {e1, e2}
    Write = {w1}
    At <- mcAt
    conditions = conditions
    event = event
    null = null
    value = value
    Depth = 2
    Names <- mcNames
    Leaf = {null, value}
    None = None
    MaxFailures = 0
    MaxCrashes = 0
INVARIANT
    TemplateUpdatesPropagate
CHECK_DEADLOCK FALSE

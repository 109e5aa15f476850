SPECIFICATION mcSpec
CONSTANTS
    o1 = o1
    o2 = o2
    r1 = r1
    r2 = r2
    v1 = v1
    v2 = v2
    t1 = t1
    t2 = t2
    n1 = n1
    n2 = n2
    p1 = p1
    p2 = p2
    d1 = d1
    d2 = d2
    None = None
    Absent = Absent
    Org = {o1}
    Tenant = {o1, o2}
    Rule = {r1}
    Override = {v1, v2}
    Template = {t1, t2}
    Initial = {r1, o1, t1}
    Name = {n1, n2}
    FirstName <- mcFirstName
    TemplateOf <- mcTemplateOf
    Patch = {p1, p2}
    Delete = {d1, d2}
    OrgOf <- mcOrgOf
    MaxFailures = 1
INVARIANTS
    TypeOK
    LinksExist
    GoneStaysGone
PROPERTIES
    LinkStays
    OverridesAtOnce
    TenantsAreApart
SYMMETRY mcSymmetry
CHECK_DEADLOCK FALSE

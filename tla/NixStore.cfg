SPECIFICATION Spec
CONSTANTS
    c1 = c1
    c2 = c2
    p1 = p1
    g1 = g1
    g2 = g2
    t1 = t1
    t2 = t2
    None = None
    m1 = m1
    m2 = m2
    Cells = {c1, c2}
    Commands = {m1, m2}
    Profiles = {p1}
    Generations = {g1, g2}
    ProfileOf <- MCProfileOf
    KindsOf <- MCKindsOf
    Wants <- MCWants
    TagOf <- MCTagOf
    Tags = {t1, t2}
    MaxLaunches = 1
PROPERTY KeepsCollected
CHECK_DEADLOCK FALSE

SPECIFICATION Spec
CONSTANTS
    r1 = r1
    r2 = r2
    Unreleased = Unreleased
    m1 = m1
    m2 = m2
    e1 = e1
    t1 = t1
PROPERTIES
    WorkEnds
    StateCatchesUp
CHECK_DEADLOCK FALSE

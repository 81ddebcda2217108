SPECIFICATION Spec
CONSTANTS
    p1 = p1
    m1 = m1
    m2 = m2
    l1 = l1
    y1 = y1
    y2 = y2
    r1 = r1
    t1 = t1
    t2 = t2
    Objects = {l1, y1, y2, r1}
    Kind <- MCKind
    Parent <- MCParent
    Plans <- MCPolicies
    Errors = FALSE
    Timeouts = FALSE
    Failures = FALSE
    Missing = FALSE
    Slow = FALSE
    None = None
INVARIANTS
    FailsOnTimeoutOnly
CHECK_DEADLOCK FALSE

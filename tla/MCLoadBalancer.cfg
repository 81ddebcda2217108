SPECIFICATION FairSpec
CONSTANTS
    p1 = p1
    m1 = m1
    m2 = m2
    l1 = l1
    y1 = y1
    y2 = y2
    r1 = r1
    t1 = t1
    t2 = t2
    Objects = {p1, m1, l1, y1, r1, t1, t2}
    Kind <- MCKind
    Parent <- MCParent
    Plans <- MCChanges
    Errors = TRUE
    Timeouts = TRUE
    Failures = TRUE
    Missing = TRUE
    Slow = TRUE
    None = None
INVARIANTS
    TypeOK
    FailuresHaveACause
    SuccessIsTrue
    BusyHasAnOwner
    Recorded
PROPERTIES
    HandlersReturn
    Converges
CHECK_DEADLOCK FALSE

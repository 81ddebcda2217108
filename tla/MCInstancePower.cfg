SPECIFICATION FairSpec
CONSTANTS
    Plans <- MCPlans
    Starting = {"running", "stopped"}
    Recovery = {TRUE, FALSE}
    Faults = {TRUE, FALSE}
    MaxHangs = 1
INVARIANTS
    TypeOK
    OutcomeIsTrue
    ChangesStopped
PROPERTIES
    ReturnsUnaided
CHECK_DEADLOCK FALSE

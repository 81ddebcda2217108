SPECIFICATION FairSpec
CONSTANTS
    Plans <- MCPlans
    MaxFaults = 2
INVARIANTS
    TypeOK
    FailuresHaveACause
    PowerIsKnown
PROPERTIES
    Converges
CHECK_DEADLOCK FALSE

SPECIFICATION FairSpec
CONSTANTS
    a = a
    b = b
    e = e
    Kinds = {"global", "plain", "framework"}
    Tags <- MCTags
    Environments <- MCEnvironments
    MaxPlans = 1
    MaxEdits = 1
    MaxFaults = 1
INVARIANTS TypeOK SuccessIsTrue
PROPERTIES TimesOutForACause Converges Idempotent

SPECIFICATION FairSpec
CONSTANTS
    g1 = g1
    g2 = g2
    Groups = {g1, g2}
    Wanted <- MCWanted
    MaxEdits = 1
    MaxFaults = 1
INVARIANTS TypeOK FailuresHaveACause SuccessIsTrue Recorded
PROPERTIES NoBlindOverwrite Converges

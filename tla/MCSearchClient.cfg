CONSTANTS
    Threshold = 2
    Cooldown = 2
    Searches = {s1, s2}
    Queries <- MCQueries
    Window = 1000
    Int32Max = 2047
    None = None
SPECIFICATION FairSpec
INVARIANTS ProbeHasOwner
PROPERTIES FailSoft EverySearchEnds RecoveryNoticed

SPECIFICATION FairSpec
CONSTANTS
    MaxSockets = 2
    MaxRecords = 4
    Matching <- MCMatching
    Cap = 2
    Patient = TRUE
    MayVanish = TRUE
    None = None
CHECK_DEADLOCK FALSE
INVARIANTS TypeOK TableIsTrue HookKnowsSocket
PROPERTY TailEnds

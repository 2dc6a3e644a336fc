SPECIFICATION FairSpec
CONSTANTS
    MaxMsg = 2
    MaxCycles = 2
    MAX_RETRIES = 2
INVARIANTS
    HeardInOrder
    YoungDropNeedsOutage
PROPERTIES
    EveryMessageSettles

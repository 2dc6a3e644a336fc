SPECIFICATION Spec
CONSTANTS
    Job = {j1, j2, j3}
    Daemon = {d1, d2}
    NoDaemon = NoDaemon
    MaxConcurrentAgents = 2
    SharedDb = FALSE
    DbFaults = TRUE
SYMMETRY Symmetry
INVARIANTS
    
    CapacityRespected
    
    RecoveryComplete
PROPERTIES
    TerminalIsFinal

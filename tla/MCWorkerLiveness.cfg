SPECIFICATION FairSpec
CONSTANTS
    Job = {j1, j2}
    Daemon = {d1, d2}
    NoDaemon = NoDaemon
    MaxConcurrentAgents = 2
    SharedDb = FALSE
    DbFaults = FALSE
PROPERTIES
    JobSettles

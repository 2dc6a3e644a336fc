SPECIFICATION TasksSpec
CONSTANTS
    Job = {j1, j2}
    Daemon = {d1, d2}
    NoDaemon = NoDaemon
    Task = {t1, t2}
    NoTask = NoTask
    MaxConcurrentAgents = 1
    SharedDb = FALSE
    DbFaults = FALSE
SYMMETRY Symmetry
PROPERTIES
    CancelledUnheard

SPECIFICATION FairSpec
CONSTANTS
    Task = {t1}
    MaxTimers = 1
PROPERTIES
    
    WaitingTaskGetsOrchestrator
    OrphanedTaskSettles
    QuietOrchestratorStops

SPECIFICATION Spec
CONSTANTS
    Task = {t1}
    Worker = {w1}
    Plan = {p1, p2}
    Null = Null
    Absent = Absent
    MaxRetries = 1
    SpawnMayFail = TRUE
SYMMETRY Symmetry
PROPERTIES
    SettledIsFinal
    ApprovedPlanWasShown
    RecoverableWorkKept

SPECIFICATION Spec
CONSTANTS
  Parts = {"scheduler", "timers", "wedge"}
  Core = {core}
  Jobs = {job}
  CronTasks = {core}
  Subprocesses = {}
  SessionTasks = {job}
  IdleTasks = {job}
  Versions = {v1, v2, bad}
  Broken = {bad}
  MaxRuns = 3
  MaxOps = 3
  Timers = {t1}
  Cycles = {1, 2, 3}
  MaxFailures = 2
  MaxSnoozes = 2
  MaxTimerRestarts = 1
  WTasks = {w1, w2}
  Debounce = 2
  Cap = 2
  MaxUpsets = 1
PROPERTIES SchedulerKeepsTime AlarmIsKept WedgeIsJudged
CHECK_DEADLOCK FALSE

SPECIFICATION Spec
CONSTANTS
  Tiers = {1, 2}
  MaxSwaps = 3
  HbWorkers = {w1, w2}
  MaxCommsSwaps = 4
  MaxHbRestarts = 1
  WdRuns = {r1, r2}
  MaxAlerts = 3
  RetroTasks = {"t1"}
  GenerateRetro <- MCGenerateRetro
  Items = {"l1", "l2", "l3", "bad"}
  Valid = {"l1", "l2", "l3"}
  Prefix <- MCPrefix
  Results <- MCResults
  Backfills = {b1, b2}
  FreeThread = FreeThread
  Vectors = TRUE
  MaxLearnings = 2
  MaxEvents = 2
  MaxRetros = 2
  MaxRetroRestarts = 1
  MaxSpeech = 2
  MaxRetries = 1
  MaxTtsFaults = 2
INVARIANTS RetroLearns
PROPERTIES TiersAreTold HeartbeatReaches  SpeechIsServed
CHECK_DEADLOCK FALSE

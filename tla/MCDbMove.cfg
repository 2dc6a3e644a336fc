SPECIFICATION Spec
CONSTANTS
  m1 = m1
  m2a = m2a
  m2b = m2b
  m3 = m3
  Reqs = {r1, r2}
  MaxForks = 3
  QueueMax = 1
  RapidMax = 2
  SqlFiles = {m1, m2a, m2b, m3}
  VersionOf <- Versions
  MaxBoots = 3
  MaxBindRetries = 1
  MaxRuns = 2
  MaxEdits = 2
  Files = {"f", "g", "h"}
  NameIn <- PluginNames
  DeclaredIn <- PluginRoutes
  AddedIn <- PluginOwnRoutes
  MaxOps = 3
INVARIANTS NoDataLoss
CHECK_DEADLOCK FALSE

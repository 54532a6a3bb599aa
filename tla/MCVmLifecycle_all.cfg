SPECIFICATION FairSpec
CONSTANTS
  v1 = v1
  v2 = v2
  t1 = t1
  t2 = t2
  Vms = {v1, v2}
  Threads = {t1, t2}
  Units = {1, 2}
  Pids = {1, 2}
  Scenarios <- AllScenarios
INVARIANTS Inv NoOrphanTap AtMostOneBhyve SettledVm ConsoleNotStale
PROPERTIES ExitedIsReaped LifeSpec

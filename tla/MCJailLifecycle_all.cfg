SPECIFICATION Spec
CONSTANTS
  j1 = j1
  j2 = j2
  t1 = t1
  t2 = t2
  Jails = {j1, j2}
  Threads = {t1, t2}
  Units = {1, 2}
  Jids = {1, 2, 3, 4}
  MaxMounts = 2
  Scenarios <- AllScenarios
INVARIANTS Inv NoOrphanEpair SettledJail
PROPERTIES FailedStartLeavesNoJail

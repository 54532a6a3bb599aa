SPECIFICATION Spec
CONSTANTS
  t1 = t1
  t2 = t2
  Threads = {t1, t2}
  Dirs = {"projects", "elsewhere"}
  AdminLines = {"admin"}
  MaxMounts = 3
  Scenarios <- OneFamilyScenarios
INVARIANTS OneFamilySuffices
CHECK_DEADLOCK FALSE

SPECIFICATION FairSpec
CONSTANTS
  t1 = t1
  t2 = t2
  Threads = {t1, t2}
  Dirs = {"projects", "elsewhere"}
  AdminLines = {"admin"}
  MaxMounts = 3
  Scenarios <- NetworkScenarios
INVARIANTS Inv KeysAgree
PROPERTIES InitDelivers RetryCompletes
CHECK_DEADLOCK FALSE

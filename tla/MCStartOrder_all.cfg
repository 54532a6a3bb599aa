SPECIFICATION FairSpec
CONSTANTS
  a = a
  b = b
  c = c
  p = p
  q = q
  Main = main
  Names = {a, b, c}
  Threads = {p, q}
  Scenarios <- AllScenarios
INVARIANTS Inv EnabledAreStarted
PROPERTIES OrderSpec FailsWithReason StartsEnd
CHECK_DEADLOCK FALSE

SPECIFICATION Spec
CONSTANTS
  a = a
  b = b
  c = c
  p = p
  q = q
  Main = main
  Names = {a, b, c}
  Threads = {p, q}
  Scenarios <- ClashScenario
PROPERTIES StartedFirst
CHECK_DEADLOCK FALSE

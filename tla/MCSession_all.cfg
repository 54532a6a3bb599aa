SPECIFICATION FairSpec
CONSTANTS
  s1 = s1
  s2 = s2
  vm = vm
  pty = pty
  Sessions = {s1, s2}
  Consoles = {vm, pty}
  SocketSize = 2
  PipeSize = 1
  Scenarios <- AllScenarios
CHECK_DEADLOCK FALSE
INVARIANTS Inv OutputComplete
PROPERTIES RequestsEnd ExchangeSpec

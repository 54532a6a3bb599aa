SPECIFICATION Spec
CONSTANTS
  a = a
  b = b
  p = p
  q = q
  Names = {a, b}
  Threads = {p, q}
  MaxMounts = 2
  Scenarios <- AllScenarios
INVARIANTS Inv FlagHonest MountsBalanced
PROPERTIES ProvisionedOnce UpDelivers

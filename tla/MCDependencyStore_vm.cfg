SPECIFICATION Spec
CONSTANTS
  a = a
  b = b
  c = c
  v = v
  p = p
  q = q
  Jails = {a, b, c}
  Vms = {v}
  Clients = {p, q}
  Scenarios <- VmScenarios
PROPERTIES RejectsOnlyInvalid

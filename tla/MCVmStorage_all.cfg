SPECIFICATION Spec
CONSTANTS
  v1 = v1
  v2 = v2
  t1 = t1
  t2 = t2
  Vms = {v1, v2}
  Threads = {t1, t2}
  Instances = {1, 2}
  Devices <- HostDevices
  Scenarios <- StorageScenarios
INVARIANTS Inv StartNotRefused DestroyedIsGone CreateDelivers
PROPERTIES ListChangesByOne
CHECK_DEADLOCK FALSE

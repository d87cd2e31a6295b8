SPECIFICATION Spec
CONSTANTS
  c1 = c1
  Clients = {c1}
  ShmEnabled = TRUE
INVARIANTS
  DevicePointersSet

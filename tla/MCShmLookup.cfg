SPECIFICATION Spec
CONSTANTS
  r1 = r1
  r2 = r2
  h1 = h1
  h2 = h2
  h3 = h3
  h4 = h4
  h5 = h5
  NoHandle = NoHandle
  Readers = {r1, r2}
  Handles = {h1, h2, h3, h4, h5}
  Singleton = FALSE
  MaxMessageCount = 3
  MaxTrash = 1
  Limited = FALSE
  AllocFails = TRUE
  MaxPublish = 3
SYMMETRY Symmetry
INVARIANTS
  LookupHolds

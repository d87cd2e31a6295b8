SPECIFICATION Spec
CONSTANTS
  r1 = r1
  r2 = r2
  h1 = h1
  h2 = h2
  h3 = h3
  h4 = h4
  h5 = h5
  h6 = h6
  NoHandle = NoHandle
  Readers = {r1, r2}
  Handles = {h1, h2, h3, h4, h5, h6}
  Singleton = FALSE
  MaxMessageCount = 3
  MaxTrash = 1
  Limited = FALSE
  AllocFails = FALSE
  MaxPublish = 5
SYMMETRY Symmetry
INVARIANTS
  IInv
PROPERTIES
  ImplementsFeed

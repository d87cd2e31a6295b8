SPECIFICATION LaserSpec
CONSTANTS
  r1 = r1
  r2 = r2
  h1 = h1
  h2 = h2
  h3 = h3
  NoHandle = NoHandle
  Readers = {r1, r2}
  Handles = {h1, h2, h3}
  Singleton = TRUE
  MaxMessageCount = 3
  MaxTrash = 1
  Limited = FALSE
  AllocFails = FALSE
  MaxPublish = 3
  ShmEnabled = TRUE
  MaxRanges = 1
SYMMETRY Symmetry
INVARIANTS
  ReaderSeesOneScan
PROPERTIES
  ScansNeverGoBack
  ImplementsFeed

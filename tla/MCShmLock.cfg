SPECIFICATION FairSpec
CONSTANTS
  p1 = p1
  p2 = p2
  p3 = p3
  Procs = {p1, p2, p3}
  Wait = 2
  Timeout = 2
INVARIANTS
  MutualExclusion
PROPERTIES
  AbandonedIsRecovered

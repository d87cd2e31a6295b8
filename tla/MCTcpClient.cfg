SPECIFICATION FairSpec
CONSTANTS
  s1 = s1
  s2 = s2
  x = x
  y = y
  Senders = {s1, s2}
  Bytes <- MCBytes
  Messages <- MCMessages
  MaxSent = 4
  MaxEndpoints = 3
INVARIANTS
  IInv
PROPERTIES
  ImplementsStream
  ConnectSettles
  EverythingIsSent
  ThreadEnds
CHECK_DEADLOCK FALSE

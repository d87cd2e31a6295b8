SPECIFICATION FairSpec
CONSTANTS
  s1 = s1
  s2 = s2
  x = x
  y = y
  Senders = {s1, s2}
  Bytes <- MCBytes
  Messages <- MCMessages
  MaxSent = 3
INVARIANTS
  IInv
PROPERTIES
  ImplementsStream
  EverythingIsSent
  ClosedIsReleased
CHECK_DEADLOCK FALSE

SPECIFICATION USpec
CONSTANTS
  c1 = c1
  c2 = c2
  c3 = c3
  Callers = {c1, c2, c3}
  r1 = r1
  r2 = r2
  r3 = r3
  u1 = u1
  u2 = u2
  Requests = {r1, r2, r3}
  Curls = {u1, u2}
  NoCurl = NoCurl
  NoRequest = NoRequest
  MaxStarts = 2
  w1 = w1
  w2 = w2
  w3 = w3
  Waiters = {w1, w2, w3}
  Trying = {w3}
  a1 = a1
  a2 = a2
  Answers = {a1, a2}
  NoAnswer = NoAnswer
  Timeout = Timeout
  p1 = p1
  p2 = p2
  p3 = p3
  Sleepers = {p1, p2, p3}
  Timed = {p3}
  n1 = n1
  n2 = n2
  Notifiers = {n1, n2}
  e1 = e1
  e2 = e2
  Emitters = {e1, e2}
  MaxTokens = 3
  MaxPending = 3
  s1 = s1
  s2 = s2
  x = x
  y = y
  UdpSenders = {s1, s2}
  Payloads <- MCPayloads
  MaxAccepted = 4
  t1 = t1
  t2 = t2
  Clients = {t1, t2}
  k1 = k1
  k2 = k2
  Names = {k1, k2}
  q1 = q1
  q2 = q2
  Places = {q1, q2}
  NoTopic = NoTopic
  NoName = NoName
  l1 = l1
  l2 = l2
  Listeners = {l1, l2}
  MaxUpdates = 3
  d1 = d1
  d2 = d2
  DynReaders = {d1, d2}
  MaxDispatches = 3
INVARIANTS
  StatusTellsWork
  HalfWayIsUnmade
  HttpsIInv
  AnswerStands
  EachNotificationReleasesOne
  ChangesAreKept
  EmissionCallsThoseConnected
  TopicsAreReached
  NoUpdateIsMissed
  NewestIsShown
PROPERTIES
  EndedIsAnswered
  HttpsStopReturns
  AnswerWakesAll
  FlagIsTaken
  DatagramsInOrder
  DatagramsAreSent
CHECK_DEADLOCK FALSE

\* Two clients with ids of their own, one request each, two launches.
SPECIFICATION System
CONSTANTS
  c1 = c1
  c2 = c2
  m1 = m1
  s1 = s1
  s2 = s2
  Conn = {c1, c2}
  Main = {m1}
  Process = {c1, c2, m1}
  ClientId = {c1, c2}
  SessionId = {s1, s2}
  MayClaim <- OwnId
  MaxListed = 1
  MaxLaunches = 2
  MaxSent = 1
  NoClient = NoClient
  NoSession = NoSession
SYMMETRY Symmetry
INVARIANTS
  SystemTypeOK
  ClientKnowsSession
  RunningIsListed
  NobodyIsRefused
PROPERTY ImplementsHandshake
CHECK_DEADLOCK FALSE

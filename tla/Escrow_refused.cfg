\* What a failed start_session() says.
SPECIFICATION System
CONSTANTS
  c1 = c1
  c2 = c2
  m1 = m1
  s1 = s1
  s2 = s2
  Conn = {c1, c2}
  Main = {m1}
  Process = {c1, c2, m1}
  ClientId = {c1, c2}
  SessionId = {s1, s2}
  MayClaim <- OwnId
  MaxListed = 1
  MaxLaunches = 1
  MaxSent = 0
  NoClient = NoClient
  NoSession = NoSession
INVARIANT RefusedIsConnected
CHECK_DEADLOCK FALSE

\* Liveness: two connections that claim one client id.  No symmetry.
SPECIFICATION FairSpec
CONSTANTS
  c1 = c1
  c2 = c2
  m1 = m1
  u1 = u1
  s1 = s1
  s2 = s2
  Conn = {c1, c2}
  Main = {m1}
  Process = {c1, c2, m1}
  ClientId = {u1}
  SessionId = {s1, s2}
  MayClaim <- AnyClaim
  MaxListed = 1
  MaxLaunches = 1
  NoClient = NoClient
  NoSession = NoSession
PROPERTY DisconnectCleansUp
CHECK_DEADLOCK FALSE

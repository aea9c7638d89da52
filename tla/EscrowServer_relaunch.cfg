\* Two instances of the accepting process; every peer has an id of its own.
SPECIFICATION FairSpec
CONSTANTS
  c1 = c1
  c2 = c2
  m1 = m1
  m2 = m2
  s1 = s1
  s2 = s2
  Conn = {c1, c2}
  Main = {m1, m2}
  Process = {c1, c2, m1, m2}
  ClientId = {c1, c2}
  SessionId = {s1, s2}
  MayClaim <- OwnClaim
  MaxListed = 1
  MaxLaunches = 2
  NoClient = NoClient
  NoSession = NoSession
PROPERTY CleanSparesRunning
CHECK_DEADLOCK FALSE

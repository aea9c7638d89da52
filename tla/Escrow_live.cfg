\* One client, and two launches of the accepting process, whose statements meet
\* those of the server's process.
SPECIFICATION FairSystem
CONSTANTS
  c1 = c1
  m1 = m1
  m2 = m2
  s1 = s1
  Conn = {c1}
  Main = {m1, m2}
  Process = {c1, m1, m2}
  ClientId = {c1}
  SessionId = {s1}
  MayClaim <- OwnId
  MaxListed = 1
  MaxLaunches = 2
  MaxSent = 1
  NoClient = NoClient
  NoSession = NoSession
PROPERTIES
  StartSessionEnds
  ClientsAreForgotten
CHECK_DEADLOCK FALSE

\* Three connections that claim one client id: the third meets what the refusal
\* of the second leaves behind.
SPECIFICATION Spec
CONSTANTS
  c1 = c1
  c2 = c2
  c3 = c3
  m1 = m1
  u1 = u1
  s1 = s1
  s2 = s2
  s3 = s3
  Conn = {c1, c2, c3}
  Main = {m1}
  Process = {c1, c2, c3, m1}
  ClientId = {u1}
  SessionId = {s1, s2, s3}
  MayClaim <- AnyClaim
  MaxListed = 1
  MaxLaunches = 1
  NoClient = NoClient
  NoSession = NoSession
SYMMETRY Symmetry
INVARIANTS
  OneRowPerClient
  RejectionNamesAnother
  DuplicatesFollowRefusal
CHECK_DEADLOCK FALSE

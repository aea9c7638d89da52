\* Two connections that may claim the same two client ids, two launches of the
\* accepting process; a list of one partner overflows its frame.
SPECIFICATION Spec
CONSTANTS
  c1 = c1
  c2 = c2
  m1 = m1
  u1 = u1
  u2 = u2
  s1 = s1
  s2 = s2
  Conn = {c1, c2}
  Main = {m1}
  Process = {c1, c2, m1}
  ClientId = {u1, u2}
  SessionId = {s1, s2}
  MayClaim <- AnyClaim
  MaxListed = 0
  MaxLaunches = 2
  NoClient = NoClient
  NoSession = NoSession
SYMMETRY Symmetry
INVARIANTS
  TypeOK
  RowsHaveOwners
  PartnersAreOthers
  StalePartnersHaveLeft
  ServedAreListed
  LocksAreStatements
PROPERTIES
  SessionIsKept
  ImplementsRegistry
CHECK_DEADLOCK FALSE

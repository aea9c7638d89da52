--------------------------- MODULE RegistryProofs ---------------------------
(***************************************************************************)
(* EscrowServer implements SessionRegistry, for every value of the         *)
(* constants: initial states map to initial states, and every step of the  *)
(* server maps to a step of the registry or leaves it unchanged.           *)
(***************************************************************************)
EXTENDS EscrowServerProofs

-----------------------------------------------------------------------------
(* The phase and the holder of a session id, read off its process.         *)

PhaseLaw ==
  \A s \in SessionId :
    /\ Started(s) = {} => PhaseOf(s) = "unused" /\ HolderOf(s) = NoClient
    /\ \A c \in Conn : m_session_id[c] = s =>
         /\ HolderOf(s) = m_client_id[c]
         /\ OwnRow(c) \in sessions => PhaseOf(s) = "registered"
         /\ OwnRow(c) \notin sessions /\ pc[c] = "insert" => PhaseOf(s) = "issued"
         /\ OwnRow(c) \notin sessions /\ pc[c] # "insert" => PhaseOf(s) = "retired"

\* A session id is that of one process, and of that process's row if of any.
LEMMA PhaseLawHolds == ShapeInv /\ OwnerInv => PhaseLaw
<1> SUFFICES ASSUME ShapeInv, OwnerInv, NEW s \in SessionId
             PROVE  /\ Started(s) = {} => PhaseOf(s) = "unused" /\ HolderOf(s) = NoClient
                    /\ \A c \in Conn : m_session_id[c] = s =>
                         /\ HolderOf(s) = m_client_id[c]
                         /\ OwnRow(c) \in sessions => PhaseOf(s) = "registered"
                         /\ OwnRow(c) \notin sessions /\ pc[c] = "insert" => PhaseOf(s) = "issued"
                         /\ OwnRow(c) \notin sessions /\ pc[c] # "insert" => PhaseOf(s) = "retired"
  BY DEF PhaseLaw
<1>1. \A r \in sessions : r.session_id = s =>
        \E c \in Started(s) : r = OwnRow(c) /\ pc[c] # "insert"
  BY DEF OwnerInv, RowsHaveOwners, OwnRow, Started
<1>2. ASSUME Started(s) = {} PROVE PhaseOf(s) = "unused" /\ HolderOf(s) = NoClient
  <2>1. ~ \E r \in sessions : r.session_id = s
    BY <1>1, <1>2
  <2> QED
    BY <1>2, <2>1 DEF PhaseOf, HolderOf
<1>3. ASSUME NEW c \in Conn, m_session_id[c] = s
      PROVE  /\ HolderOf(s) = m_client_id[c]
             /\ OwnRow(c) \in sessions => PhaseOf(s) = "registered"
             /\ OwnRow(c) \notin sessions /\ pc[c] = "insert" => PhaseOf(s) = "issued"
             /\ OwnRow(c) \notin sessions /\ pc[c] # "insert" => PhaseOf(s) = "retired"
  <2>1. Started(s) = {c}
    BY <1>3, ServerAssumption DEF OwnerInv, SessionsDistinct, Started
  <2>2. HolderOf(s) = m_client_id[c]
    BY <2>1 DEF HolderOf
  <2>3. (\E r \in sessions : r.session_id = s) <=> OwnRow(c) \in sessions
    BY <1>1, <1>3, <2>1 DEF OwnRow
  <2>4. OwnRow(c) \in sessions => pc[c] # "insert"
    BY <1>1, <1>3, <2>1 DEF OwnRow
  <2> QED
    BY <2>1, <2>2, <2>3, <2>4 DEF PhaseOf
<1> QED
  BY <1>2, <1>3

LEMMA PhaseLawNext == ShapeInv' /\ OwnerInv' => PhaseLaw'
BY PhaseLawHolds, PTL

-----------------------------------------------------------------------------
(* The steps of one session.                                               *)

SameSession(s) == PhaseOf(s)' = PhaseOf(s) /\ HolderOf(s)' = HolderOf(s)

\* A step after which a session has its process, its client, its row or none,
\* and its place at the INSERT as before, does not touch the session.
LEMMA SessionUntouched ==
  ASSUME PhaseLaw, PhaseLaw', NEW s \in SessionId,
         \A c \in Conn : m_session_id'[c] = s <=> m_session_id[c] = s,
         \A c \in Conn : m_session_id[c] = s =>
           /\ m_client_id'[c] = m_client_id[c]
           /\ OwnRow(c)' \in sessions' <=> OwnRow(c) \in sessions
           /\ pc'[c] = "insert" <=> pc[c] = "insert"
  PROVE  SameSession(s)
<1>1. CASE Started(s) = {}
  <2>1. Started(s)' = {}
    BY <1>1 DEF Started
  <2> QED
    BY <1>1, <2>1 DEF PhaseLaw, SameSession
<1>2. ASSUME NEW c \in Conn, m_session_id[c] = s PROVE SameSession(s)
  <2>1. m_session_id'[c] = s
    BY <1>2
  <2>2. HolderOf(s) = m_client_id[c] /\ HolderOf(s)' = m_client_id'[c]
    BY <1>2, <2>1 DEF PhaseLaw
  <2>3. PhaseOf(s)' = PhaseOf(s)
    BY <1>2, <2>1 DEF PhaseLaw
  <2> QED
    BY <1>2, <2>2, <2>3 DEF SameSession
<1> QED
  BY <1>1, <1>2 DEF Started

LEMMA RegistryUnchanged ==
  ASSUME \A s \in SessionId : SameSession(s)
  PROVE  UNCHANGED Registry!registryVars
BY DEF SameSession, Registry!registryVars

LEMMA IssueStep ==
  ASSUME NEW s \in SessionId, NEW id \in ClientId,
         PhaseOf(s) = "unused", PhaseOf(s)' = "issued", HolderOf(s)' = id,
         \A t \in SessionId \ {s} : SameSession(t)
  PROVE  Registry!Next
<1>1. Registry!Issue(s, id)
  BY DEF SameSession, Registry!Issue
<1> QED
  BY <1>1 DEF Registry!Next

LEMMA RegisterStep ==
  ASSUME NEW s \in SessionId,
         PhaseOf(s) = "issued", PhaseOf(s)' = "registered", HolderOf(s)' = HolderOf(s),
         \A t \in SessionId : PhaseOf(t) = "registered" => HolderOf(t) # HolderOf(s),
         \A t \in SessionId \ {s} : SameSession(t)
  PROVE  Registry!Next
<1>1. Registry!Register(s)
  BY DEF SameSession, Registry!Register, Registry!Registered
<1> QED
  BY <1>1 DEF Registry!Next

LEMMA RetireStep ==
  ASSUME NEW s \in SessionId,
         PhaseOf(s) \in {"issued", "registered"}, PhaseOf(s)' = "retired",
         HolderOf(s)' = HolderOf(s),
         \A t \in SessionId \ {s} : SameSession(t)
  PROVE  Registry!Next
<1>1. Registry!Retire(s)
  BY DEF SameSession, Registry!Retire
<1> QED
  BY <1>1 DEF Registry!Next

LEMMA RetireAllStep ==
  ASSUME \A s \in SessionId :
           /\ PhaseOf(s)' = IF PhaseOf(s) = "registered" THEN "retired" ELSE PhaseOf(s)
           /\ HolderOf(s)' = HolderOf(s)
  PROVE  Registry!Next
<1>1. Registry!RetireAll
  BY DEF Registry!RetireAll, Registry!Registered
<1> QED
  BY <1>1 DEF Registry!Next

-----------------------------------------------------------------------------
(* The steps of the server.                                                *)

LEMMA SessionsAreTheirs ==
  ASSUME ShapeInv, OwnerInv, NEW c \in Conn, m_connected[c]
  PROVE  /\ m_session_id[c] \in SessionId /\ m_client_id[c] \in ClientId
         /\ \A d \in Conn : m_session_id[d] = m_session_id[c] => d = c
         /\ pc[c] = "insert" => OwnRow(c) \notin sessions
<1>1. m_session_id[c] \in SessionId /\ m_session_id[c] # NoSession /\ m_client_id[c] \in ClientId
  BY DEF ShapeInv, Shape, TypeOK, SessionOrNone
<1>2. \A d \in Conn : m_session_id[d] = m_session_id[c] => d = c
  BY <1>1 DEF OwnerInv, SessionsDistinct
<1>3. OwnRow(c) \in sessions => pc[c] # "insert"
  BY <1>2 DEF OwnerInv, RowsHaveOwners, OwnRow
<1> QED
  BY <1>1, <1>2, <1>3

\* A process that leaves its INSERT without a row retires its session; the
\* other quiet steps leave the registry alone.
LEMMA QuietSteps ==
  ASSUME ShapeInv, OwnerInv, PhaseLaw, PhaseLaw', QuietForOwners,
         NEW c \in Conn, \A d \in Conn \ {c} : pc'[d] = pc[d]
  PROVE  [Registry!Next]_(Registry!registryVars)
<1>1. UNCHANGED <<sessions, m_connected, m_client_id, m_session_id>>
  BY DEF QuietForOwners, sessionVars
<1>2. \A d \in Conn : OwnRow(d)' = OwnRow(d)
  BY <1>1 DEF OwnRow
<1>3. CASE pc[c] = "insert" /\ pc'[c] # "insert"
  <2>1. m_connected[c]
    BY <1>3 DEF ShapeInv, Shape
  <2>2. PICK s \in SessionId : s = m_session_id[c] /\ OwnRow(c) \notin sessions
    BY <1>3, <2>1, SessionsAreTheirs
  <2>3. ASSUME NEW t \in SessionId \ {s} PROVE SameSession(t)
    <3>1. \A d \in Conn : m_session_id[d] = t => d # c
      BY <2>2
    <3> QED
      BY <1>1, <1>2, <3>1, SessionUntouched
  <2>4. PhaseOf(s) = "issued"
    BY <1>3, <2>2 DEF PhaseLaw
  <2>5. PhaseOf(s)' = "retired"
    BY <1>1, <1>2, <1>3, <2>2 DEF PhaseLaw
  <2>6. HolderOf(s)' = HolderOf(s)
    BY <1>1, <2>2 DEF PhaseLaw
  <2> QED
    BY <2>2, <2>3, <2>4, <2>5, <2>6, RetireStep
<1>4. CASE ~(pc[c] = "insert" /\ pc'[c] # "insert")
  <2>1. ASSUME NEW d \in Conn PROVE pc'[d] = "insert" <=> pc[d] = "insert"
    <3>1. CASE d = c
      BY <1>4, <3>1 DEF QuietForOwners
    <3>2. CASE d # c
      BY <3>2
    <3> QED
      BY <3>1, <3>2
  <2>2. \A s \in SessionId : SameSession(s)
    BY <1>1, <1>2, <2>1, SessionUntouched
  <2> QED
    BY <2>2, RegistryUnchanged
<1> QED
  BY <1>3, <1>4

LEMMA StartFirstSteps ==
  ASSUME ShapeInv, OwnerInv, PhaseLaw, PhaseLaw',
         NEW c \in Conn, ChildStep(c) \/ Environment(c), RecvStartFirst(c)
  PROVE  [Registry!Next]_(Registry!registryVars)
<1>1. sessions' = sessions
  BY DEF RecvStartFirst, Goto, ChildStep, Environment, Receive, Statement, StatementFails, Opened,
         PollHangup, PollInput, RecvClosed, RecvError, RecvIgnored, RecvEchoRequest,
         RecvPartnersRequest, RecvSessionStartRequest, FoundDuplicate, StartSession, RecordSession,
         ListPartners, WriteResponse, WriteFatal, Cleanup, PeerCloses, PeerResets, Kill, Die,
         Abandon, dbVars, Shared, Reserve, EndRead
<1>2. m_session_id[c] \notin SessionId
  BY ServerAssumption DEF RecvStartFirst, ShapeInv, Shape
<1>3. m_session_id' = m_session_id
  BY DEF RecvStartFirst
<1>4. ASSUME NEW d \in Conn, d # c
      PROVE  m_client_id'[d] = m_client_id[d] /\ pc'[d] = pc[d] /\ OwnRow(d)' = OwnRow(d)
  BY <1>3, <1>4 DEF RecvStartFirst, Goto, ShapeInv, TypeOK, OwnRow
<1>5. \A s \in SessionId : SameSession(s)
  BY <1>1, <1>2, <1>3, <1>4, SessionUntouched
<1> QED
  BY <1>5, RegistryUnchanged

LEMMA StartSessionIssues ==
  ASSUME ShapeInv, OwnerInv, ShapeInv', OwnerInv', PhaseLaw, PhaseLaw',
         NEW c \in Conn, StartSession(c)
  PROVE  Registry!Next
<1>1. PICK s \in FreshSession : m_session_id' = [m_session_id EXCEPT ![c] = s]
  BY DEF StartSession
<1>2. s \in SessionId /\ \A d \in Conn : m_session_id[d] # s
  BY DEF FreshSession
<1>3. pc[c] = "check" /\ pc' = [pc EXCEPT ![c] = "insert"] /\ UNCHANGED <<sessions, m_client_id>>
  BY DEF StartSession, Goto, EndRead
<1>4. m_session_id'[c] = s /\ \A d \in Conn \ {c} : m_session_id'[d] = m_session_id[d]
  BY <1>1 DEF ShapeInv, TypeOK
<1>5. pc'[c] = "insert" /\ \A d \in Conn \ {c} : pc'[d] = pc[d]
  BY <1>3 DEF ShapeInv, TypeOK
<1>6. m_session_id[c] \notin SessionId
  BY <1>3, ServerAssumption DEF ShapeInv, Shape
<1>7. ASSUME NEW t \in SessionId \ {s} PROVE SameSession(t)
  <2>1. \A d \in Conn : m_session_id'[d] = t <=> m_session_id[d] = t
    BY <1>4, <1>6
  <2>2. \A d \in Conn : m_session_id[d] = t => d # c
    BY <1>6
  <2>3. \A d \in Conn \ {c} : OwnRow(d)' = OwnRow(d)
    BY <1>3, <1>4 DEF OwnRow
  <2> QED
    BY <1>3, <1>5, <2>1, <2>2, <2>3, SessionUntouched
<1>8. PhaseOf(s) = "unused"
  BY <1>2 DEF PhaseLaw, Started
<1>9. OwnRow(c)' \notin sessions'
  BY <1>2, <1>3, <1>4 DEF OwnRow, OwnerInv, RowsHaveOwners
<1>10. PhaseOf(s)' = "issued" /\ HolderOf(s)' = m_client_id[c]
  BY <1>2, <1>3, <1>4, <1>5, <1>9 DEF PhaseLaw
<1>11. m_client_id[c] \in ClientId
  BY <1>3 DEF ShapeInv, Shape
<1> QED
  BY <1>2, <1>7, <1>8, <1>10, <1>11, IssueStep

LEMMA RecordSessionRegisters ==
  ASSUME ShapeInv, OwnerInv, PhaseLaw, PhaseLaw', NEW c \in Conn, RecordSession(c)
  PROVE  Registry!Next
<1>1. /\ pc[c] = "insert" /\ UNCHANGED <<m_connected, m_client_id, m_session_id>>
      /\ RowsOf(m_client_id[c]) = {} /\ sessions' = sessions \cup {OwnRow(c)}
  BY DEF RecordSession, Goto, Insert, Commit, OwnRow, sessionVars
<1>2. \A d \in Conn \ {c} : pc'[d] = pc[d]
  BY DEF RecordSession, Goto, ShapeInv, TypeOK
<1>3. m_connected[c]
  BY <1>1 DEF ShapeInv, Shape
<1>4. PICK s \in SessionId :
        /\ s = m_session_id[c] /\ OwnRow(c) \notin sessions
        /\ \A d \in Conn : m_session_id[d] = s => d = c
  BY <1>1, <1>3, SessionsAreTheirs
<1>5. \A d \in Conn : OwnRow(d)' = OwnRow(d)
  BY <1>1 DEF OwnRow
<1>6. ASSUME NEW t \in SessionId \ {s} PROVE SameSession(t)
  <2>1. ASSUME NEW d \in Conn, m_session_id[d] = t PROVE d # c /\ OwnRow(d) # OwnRow(c)
    BY <1>4, <2>1 DEF OwnRow
  <2> QED
    BY <1>1, <1>2, <1>5, <2>1, SessionUntouched
<1>7. PhaseOf(s) = "issued" /\ HolderOf(s) = m_client_id[c]
  BY <1>1, <1>4 DEF PhaseLaw
<1>8. PhaseOf(s)' = "registered" /\ HolderOf(s)' = m_client_id[c]
  BY <1>1, <1>4, <1>5 DEF PhaseLaw
<1>9. ASSUME NEW t \in SessionId, PhaseOf(t) = "registered" PROVE HolderOf(t) # HolderOf(s)
  <2>1. PICK d \in Conn : m_session_id[d] = t
    BY <1>9 DEF PhaseLaw, Started
  <2>2. HolderOf(t) = m_client_id[d] /\ OwnRow(d) \in sessions
    BY <1>9, <2>1 DEF PhaseLaw
  <2> QED
    BY <1>1, <1>7, <2>2 DEF RowsOf, OwnRow
<1> QED
  BY <1>4, <1>6, <1>7, <1>8, <1>9, RegisterStep

\* The DELETE of a process takes at most one row, which may be another's.
LEMMA CleanupRetires ==
  ASSUME ShapeInv, OwnerInv, PhaseLaw, PhaseLaw', NEW c \in Conn, Cleanup(c)
  PROVE  [Registry!Next]_(Registry!registryVars)
<1>1. /\ UNCHANGED <<m_connected, m_client_id, m_session_id>>
      /\ sessions' = sessions \ RowsOf(m_client_id[c])
  BY DEF Cleanup, Delete, Commit, sessionVars
<1>2. \A d \in Conn : pc'[d] = "insert" <=> pc[d] = "insert"
  BY DEF Cleanup, Goto, ShapeInv, TypeOK
<1>3. \A d \in Conn : OwnRow(d)' = OwnRow(d)
  BY <1>1 DEF OwnRow
<1>4. CASE RowsOf(m_client_id[c]) = {}
  <2>1. \A s \in SessionId : SameSession(s)
    BY <1>1, <1>2, <1>3, <1>4, SessionUntouched
  <2> QED
    BY <2>1, RegistryUnchanged
<1>5. ASSUME NEW r \in RowsOf(m_client_id[c])
      PROVE  Registry!Next
  <2>1. PICK d \in Conn : m_connected[d] /\ r = OwnRow(d) /\ pc[d] # "insert"
    BY <1>5 DEF RowsOf, OwnerInv, RowsHaveOwners
  <2>2. PICK s \in SessionId :
          s = m_session_id[d] /\ \A e \in Conn : m_session_id[e] = s => e = d
    BY <2>1, SessionsAreTheirs
  <2>3. OwnRow(d) \in sessions
    BY <1>5, <2>1 DEF RowsOf
  <2>4. RowsOf(m_client_id[c]) = {OwnRow(d)}
    BY <1>5, <2>1 DEF RowsOf, OwnerInv, RowsUnique
  <2>5. ASSUME NEW t \in SessionId \ {s} PROVE SameSession(t)
    <3>1. ASSUME NEW e \in Conn, m_session_id[e] = t PROVE OwnRow(e) # OwnRow(d)
      BY <2>2, <3>1 DEF OwnRow
    <3> QED
      BY <1>1, <1>2, <1>3, <2>4, <3>1, SessionUntouched
  <2>6. PhaseOf(s) = "registered" /\ HolderOf(s) = m_client_id[d]
    BY <2>2, <2>3 DEF PhaseLaw
  <2>7. PhaseOf(s)' = "retired" /\ HolderOf(s)' = m_client_id[d]
    BY <1>1, <1>2, <1>3, <2>1, <2>2, <2>4 DEF PhaseLaw
  <2> QED
    BY <2>2, <2>5, <2>6, <2>7, RetireStep
<1> QED
  BY <1>4, <1>5

\* Only clean() retires every registered session.
LEMMA MainSteps ==
  ASSUME ShapeInv, OwnerInv, PhaseLaw, PhaseLaw', NEW m \in Main, MainStep(m)
  PROVE  [Registry!Next]_(Registry!registryVars)
<1>1. UNCHANGED <<pc, m_connected, m_client_id, m_session_id>>
  BY MainKeepsChildren DEF childVars, sessionVars
<1>2. sessions' = sessions \/ sessions' = {}
  BY DEF MainStep, Launch, MainStatement, MainStatementFails, MainOpened, Clean, Bind, StopMain,
         dbVars, Shared, Reserve, EndRead, DeleteAll, Commit, Abandon
<1>3. \A d \in Conn : OwnRow(d)' = OwnRow(d)
  BY <1>1 DEF OwnRow
<1>4. CASE sessions' = sessions
  <2>1. \A s \in SessionId : SameSession(s)
    BY <1>1, <1>3, <1>4, SessionUntouched
  <2> QED
    BY <2>1, RegistryUnchanged
<1>5. CASE sessions' = {}
  <2>1. ASSUME NEW s \in SessionId
        PROVE  /\ PhaseOf(s)' = IF PhaseOf(s) = "registered" THEN "retired" ELSE PhaseOf(s)
               /\ HolderOf(s)' = HolderOf(s)
    <3>1. CASE Started(s) = {}
      <4>1. Started(s)' = {}
        BY <1>1, <3>1 DEF Started
      <4> QED
        BY <3>1, <4>1 DEF PhaseLaw
    <3>2. ASSUME NEW c \in Conn, m_session_id[c] = s
          PROVE  /\ PhaseOf(s)' = IF PhaseOf(s) = "registered" THEN "retired" ELSE PhaseOf(s)
                 /\ HolderOf(s)' = HolderOf(s)
      <4>1. m_connected[c]
        BY <3>2, ServerAssumption DEF ShapeInv, Shape
      <4>2. pc[c] = "insert" => OwnRow(c) \notin sessions
        BY <4>1, SessionsAreTheirs
      <4>3. HolderOf(s)' = HolderOf(s)
        BY <1>1, <3>2 DEF PhaseLaw
      <4>4. PhaseOf(s)' = IF pc[c] = "insert" THEN "issued" ELSE "retired"
        BY <1>1, <1>5, <3>2 DEF PhaseLaw
      <4>5. PhaseOf(s) = IF OwnRow(c) \in sessions THEN "registered"
                         ELSE IF pc[c] = "insert" THEN "issued" ELSE "retired"
        BY <3>2 DEF PhaseLaw
      <4> QED
        BY <4>2, <4>3, <4>4, <4>5
    <3> QED
      BY <3>1, <3>2 DEF Started
  <2> QED
    BY <2>1, RetireAllStep
<1> QED
  BY <1>2, <1>4, <1>5

LEMMA RegistryInit == Init => Registry!Init
<1> SUFFICES ASSUME Init PROVE Registry!Init
  OBVIOUS
<1>1. ASSUME NEW s \in SessionId PROVE PhaseOf(s) = "unused" /\ HolderOf(s) = NoClient
  <2>1. Started(s) = {}
    BY ServerAssumption DEF Init, Started
  <2>2. sessions = {}
    BY DEF Init, DbInit
  <2> QED
    BY <2>1, <2>2 DEF PhaseOf, HolderOf
<1> QED
  BY <1>1 DEF Registry!Init

LEMMA RegistryStep ==
  ShapeInv /\ OwnerInv /\ ShapeInv' /\ OwnerInv' /\ [Next]_vars
    => [Registry!Next]_(Registry!registryVars)
<1> SUFFICES ASSUME ShapeInv, OwnerInv, ShapeInv', OwnerInv', [Next]_vars
             PROVE  [Registry!Next]_(Registry!registryVars)
  OBVIOUS
<1>0. PhaseLaw /\ PhaseLaw'
  BY PhaseLawHolds, PhaseLawNext
<1>1. CASE UNCHANGED vars
  <2>1. UNCHANGED <<sessions, pc, m_client_id, m_session_id>>
    BY <1>1 DEF vars, dbVars, childVars, sessionVars
  <2>2. \A s \in SessionId : SameSession(s)
    BY <1>0, <2>1, SessionUntouched DEF OwnRow
  <2> QED
    BY <2>2, RegistryUnchanged
<1>2. ASSUME NEW m \in Main, NEW c \in Conn, Accept(m, c)
      PROVE  [Registry!Next]_(Registry!registryVars)
  <2>1. QuietForOwners /\ \A d \in Conn \ {c} : pc'[d] = pc[d]
    BY <1>2 DEF Accept, QuietForOwners, ShapeInv, TypeOK, dbVars
  <2> QED
    BY <1>0, <2>1, QuietSteps
<1>3. ASSUME NEW c \in Conn, ChildStep(c) \/ Environment(c)
      PROVE  [Registry!Next]_(Registry!registryVars)
  <2>1. CASE RecvStartFirst(c)
    BY <1>0, <1>3, <2>1, StartFirstSteps
  <2>2. CASE StartSession(c)
    BY <1>0, <2>2, StartSessionIssues
  <2>3. CASE RecordSession(c)
    BY <1>0, <2>3, RecordSessionRegisters
  <2>4. CASE Cleanup(c)
    BY <1>0, <2>4, CleanupRetires
  <2>5. CASE ~RecvStartFirst(c) /\ ~StartSession(c) /\ ~RecordSession(c) /\ ~Cleanup(c)
    <3>1. QuietForOwners
      BY <1>3, <2>5, OtherStepsAreQuiet
    <3>2. \A d \in Conn \ {c} : pc'[d] = pc[d]
      BY <1>3, OwnCounterOnly
    <3> QED
      BY <1>0, <3>1, <3>2, QuietSteps
  <2> QED
    BY <2>1, <2>2, <2>3, <2>4, <2>5
<1> QED
  BY <1>0, <1>1, <1>2, <1>3, MainSteps DEF Next

\* The server implements SessionRegistry: a session id is issued once, its row
\* is inserted at most once and while no other session of its client has one,
\* and a session that lost its row, or never got it, never comes back; whatever
\* the processes, clients and statements that run at the same time.
THEOREM ServerImplementsRegistry == Spec => ImplementsRegistry
<1>1. Spec => [](ShapeInv /\ OwnerInv)
  BY OwnerAlways
<1> QED
  BY <1>1, RegistryInit, RegistryStep, PTL DEF Spec, ImplementsRegistry, Registry!Spec
=============================================================================

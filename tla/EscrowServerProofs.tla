------------------------- MODULE EscrowServerProofs -------------------------
(***************************************************************************)
(* Proofs about EscrowServer for every value of its constants.             *)
(*                                                                         *)
(* The invariants are proved in layers, each from the ones before it: the  *)
(* shape of one process's state, then who owns the rows of the table, then *)
(* what the responses say, then when a served client is missing.           *)
(***************************************************************************)
EXTENDS EscrowServer, TLAPS

-----------------------------------------------------------------------------
(* The inductive invariants.                                               *)

\* How the members of a process, its program counter and its pending response
\* fit together.
Shape(c) ==
  /\ m_connected[c] <=> m_session_id[c] # NoSession
  /\ pc[c] \in {"idle", "open", "check"} => ~m_connected[c]
  /\ pc[c] = "insert" => m_connected[c]
  /\ m_connected[c] \/ pc[c] = "check" => m_client_id[c] \in ClientId
  /\ pc[c] \notin {"insert", "write"} => response[c] = NoResponse

ShapeInv == TypeOK /\ \A c \in Conn : Shape(c)

\* No session id is given out twice.
SessionsDistinct ==
  \A c, d \in Conn :
    m_session_id[c] # NoSession /\ m_session_id[c] = m_session_id[d] => c = d

\* The UNIQUE constraint.
RowsUnique == \A r, t \in sessions : r.client_id = t.client_id => r = t

OwnerInv == SessionsDistinct /\ RowsUnique /\ RowsHaveOwners

AnswerInv == RejectionNamesAnother /\ PartnersAreOthers

\* Before a second launch, no connection exists until clean() is done.
FirstLaunch ==
  /\ launches = 0 => \A m \in Main : main[m] = "down"
  /\ launches = 0 => \A c \in Conn : pc[c] = "idle"
  /\ \A m \in Main :
       launches <= 1 /\ main[m] \in {"open", "clean", "bind"} =>
         /\ \A n \in Main \ {m} : main[n] = "down"
         /\ \A c \in Conn : pc[c] = "idle"

ListedInv == FirstLaunch /\ ServedAreListed

-----------------------------------------------------------------------------
(* Messages and rows.                                                      *)

LEMMA AnswersAreResponses ==
  /\ NoResponse \in Response
  /\ EchoResponse \in Response
  /\ \A e \in SessionStartError, s \in SessionId : SessionAnswer(e, s) \in Response
  /\ \A ids \in SUBSET ClientId : [kind |-> "partners", client_ids |-> ids] \in Response
BY DEF Response, NoResponse, EchoResponse, SessionAnswer, SessionStartResponse, PartnersResponse

LEMMA OtherClientsAreClients ==
  ASSUME DbTypeOK, NEW c \in Conn
  PROVE  OtherClients(c) \subseteq ClientId
BY DEF DbTypeOK, OtherClients, Row

LEMMA ShapeInit == Init => ShapeInv
<1> SUFFICES ASSUME Init PROVE ShapeInv
  OBVIOUS
<1>1. TypeOK
  BY ServerAssumption, AnswersAreResponses
  DEF Init, DbInit, TypeOK, DbTypeOK, Row, LockState, MainState, ChildState, ClientOrNone, SessionOrNone
<1>2. \A c \in Conn : Shape(c)
  BY DEF Init, DbInit, Shape
<1> QED
  BY <1>1, <1>2 DEF ShapeInv

\* A step of main() changes nothing that Shape speaks of.
LEMMA ShapeMainStep ==
  ASSUME ShapeInv, NEW m \in Main, MainStep(m)
  PROVE  ShapeInv'
<1> USE DEF GotoMain, LockState
<1>1. UNCHANGED childVars
  BY DEF MainStep, Launch, MainStatement, MainStatementFails, MainOpened, Clean, Bind, StopMain
<1>2. sessions' \subseteq Row
  BY DEF ShapeInv, TypeOK, DbTypeOK, dbVars, MainStep, Launch, MainStatement, MainStatementFails,
         MainOpened, Clean, Bind, StopMain, Shared, Reserve, EndRead, DeleteAll, Commit, Abandon
<1>3. lock' \in [Process -> LockState]
  BY DEF ShapeInv, TypeOK, DbTypeOK, dbVars, MainStep, Launch, MainStatement, MainStatementFails,
         MainOpened, Clean, Bind, StopMain, Shared, Reserve, EndRead, DeleteAll, Commit, Abandon
<1>4. main' \in [Main -> MainState] /\ launches' \in Nat
  BY DEF ShapeInv, TypeOK, mainVars, MainState, MainStep, Launch, MainStatement, MainStatementFails,
         MainOpened, Clean, Bind, StopMain
<1>5. TypeOK'
  BY <1>1, <1>2, <1>3, <1>4 DEF ShapeInv, TypeOK, DbTypeOK, childVars, sessionVars
<1>6. \A c \in Conn : Shape(c)'
  BY <1>1 DEF ShapeInv, Shape, childVars, sessionVars
<1> QED
  BY <1>5, <1>6 DEF ShapeInv

LEMMA ShapeAccept ==
  ASSUME ShapeInv, NEW m \in Main, NEW c \in Conn, Accept(m, c)
  PROVE  ShapeInv'
BY DEF ShapeInv, Shape, TypeOK, DbTypeOK, Accept, dbVars, mainVars, sessionVars, ChildState

LEMMA ShapeDie ==
  ASSUME ShapeInv, NEW c \in Conn, Die(c)
  PROVE  ShapeInv'
BY AnswersAreResponses
DEF ShapeInv, Shape, TypeOK, DbTypeOK, Die, Prepare, Abandon, mainVars, sessionVars, ChildState, LockState

LEMMA ShapeEnvironment ==
  ASSUME ShapeInv, NEW c \in Conn, Environment(c)
  PROVE  ShapeInv'
<1>1. CASE PeerCloses(c) \/ PeerResets(c)
  BY <1>1 DEF ShapeInv, Shape, TypeOK, DbTypeOK, PeerCloses, PeerResets, dbVars, mainVars, sessionVars
<1>2. CASE Kill(c)
  BY <1>2, ShapeDie DEF Kill
<1> QED
  BY <1>1, <1>2 DEF Environment

LEMMA ShapeReceive ==
  ASSUME ShapeInv, NEW c \in Conn, Receive(c)
  PROVE  ShapeInv'
<1> USE DEF ShapeInv, Shape, TypeOK, DbTypeOK, Goto, Prepare, dbVars, mainVars, sessionVars, ChildState
<1>1. CASE RecvClosed(c) \/ RecvIgnored(c) \/ RecvPartnersRequest(c)
  BY <1>1 DEF RecvClosed, RecvIgnored, RecvPartnersRequest
<1>2. CASE RecvError(c)
  BY <1>2, ShapeDie DEF RecvError
<1>3. CASE RecvEchoRequest(c)
  BY <1>3, AnswersAreResponses DEF RecvEchoRequest
<1>4. CASE RecvSessionStartRequest(c) /\ RecvStartAgain(c)
  <2>1. SessionAnswer("SESSION_STARTED", m_session_id[c]) \in Response
    BY <1>4, AnswersAreResponses DEF RecvStartAgain, SessionStartError, SessionOrNone
  <2> QED
    BY <1>4, <2>1 DEF RecvSessionStartRequest, RecvStartAgain
<1>5. CASE RecvSessionStartRequest(c) /\ RecvStartFirst(c)
  <2>1. PICK id \in MayClaim[c] : m_client_id' = [m_client_id EXCEPT ![c] = id]
    BY <1>5 DEF RecvStartFirst
  <2>2. id \in ClientId
    BY ServerAssumption
  <2> QED
    BY <1>5, <2>1, <2>2 DEF RecvSessionStartRequest, RecvStartFirst, ClientOrNone
<1> QED
  BY <1>1, <1>2, <1>3, <1>4, <1>5 DEF Receive, RecvSessionStartRequest

LEMMA ShapeChildStep ==
  ASSUME ShapeInv, NEW c \in Conn, ChildStep(c)
  PROVE  ShapeInv'
<1> USE DEF ShapeInv, Shape, TypeOK, DbTypeOK, Goto, Prepare, dbVars, mainVars, sessionVars,
            ChildState, LockState, EndRead
<1>1. CASE Statement(c)
  BY <1>1 DEF Statement, Shared, Reserve, childVars
<1>2. CASE StatementFails(c) \/ WriteFatal(c)
  BY <1>2, ShapeDie DEF StatementFails, WriteFatal
<1>3. CASE Opened(c) \/ PollHangup(c) \/ PollInput(c)
  BY <1>3 DEF Opened, PollHangup, PollInput
<1>4. CASE Receive(c)
  BY <1>4, ShapeReceive
<1>5. CASE FoundDuplicate(c)
  <2>1. PICK r \in RowsOf(m_client_id[c]) :
          response' = [response EXCEPT ![c] = SessionAnswer("CLIENT_ALREADY_CONNECTED", r.session_id)]
    BY <1>5 DEF FoundDuplicate
  <2>2. r.session_id \in SessionId
    BY DEF RowsOf, Row
  <2>3. SessionAnswer("CLIENT_ALREADY_CONNECTED", r.session_id) \in Response
    BY <2>2, AnswersAreResponses DEF SessionStartError
  <2> QED
    BY <1>5, <2>1, <2>3 DEF FoundDuplicate
<1>6. CASE StartSession(c)
  <2>1. PICK s \in FreshSession :
          /\ m_session_id' = [m_session_id EXCEPT ![c] = s]
          /\ response' = [response EXCEPT ![c] = SessionAnswer("OK", s)]
    BY <1>6 DEF StartSession
  <2>2. s \in SessionId /\ SessionAnswer("OK", s) \in Response
    BY AnswersAreResponses DEF FreshSession, SessionStartError
  <2> QED
    BY <1>6, <2>1, <2>2, ServerAssumption DEF StartSession, SessionOrNone
<1>7. CASE RecordSession(c)
  <2>1. [client_id |-> m_client_id[c], session_id |-> m_session_id[c]] \in Row
    BY <1>7 DEF RecordSession, Row, SessionOrNone
  <2> QED
    BY <1>7, <2>1 DEF RecordSession, Insert, Commit
<1>8. CASE ListPartners(c)
  <2>1. [kind |-> "partners", client_ids |-> OtherClients(c)] \in Response
    BY AnswersAreResponses, OtherClientsAreClients
  <2> QED
    BY <1>8, <2>1 DEF ListPartners
<1>9. CASE WriteResponse(c)
  BY <1>9, AnswersAreResponses DEF WriteResponse
<1>10. CASE Cleanup(c)
  BY <1>10 DEF Cleanup, Delete, Commit
<1> QED
  BY <1>1, <1>2, <1>3, <1>4, <1>5, <1>6, <1>7, <1>8, <1>9, <1>10 DEF ChildStep

LEMMA ShapeStep == ShapeInv /\ [Next]_vars => ShapeInv'
<1> SUFFICES ASSUME ShapeInv, [Next]_vars PROVE ShapeInv'
  OBVIOUS
<1>1. CASE UNCHANGED vars
  BY <1>1 DEF ShapeInv, Shape, TypeOK, DbTypeOK, vars, dbVars, mainVars, childVars, sessionVars
<1>2. CASE Next
  BY <1>2, ShapeMainStep, ShapeAccept, ShapeChildStep, ShapeEnvironment DEF Next
<1> QED
  BY <1>1, <1>2

\* The members of every process fit its program counter.
THEOREM ShapeAlways == Spec => []ShapeInv
BY ShapeInit, ShapeStep, PTL DEF Spec

\* The state of server.cpp's main() and of every ServerProcess keeps its types.
THEOREM TypeCorrect == Spec => []TypeOK
<1>1. ShapeInv => TypeOK
  BY DEF ShapeInv
<1> QED
  BY <1>1, ShapeAlways, PTL

-----------------------------------------------------------------------------
(* Which steps touch a session.                                            *)

\* The steps that leave the members of every process alone.
LEMMA SessionVarsKept ==
  ASSUME NEW c \in Conn, ChildStep(c) \/ Environment(c),
         ~RecvStartFirst(c), ~StartSession(c)
  PROVE  UNCHANGED sessionVars
BY DEF ChildStep, Environment, Receive, Statement, StatementFails, Opened, PollHangup, PollInput,
       RecvClosed, RecvError, RecvIgnored, RecvEchoRequest, RecvPartnersRequest, RecvStartAgain,
       RecvSessionStartRequest, FoundDuplicate, RecordSession, ListPartners, WriteResponse,
       WriteFatal, Cleanup, Kill, PeerCloses, PeerResets, Die, childVars, sessionVars

LEMMA MainKeepsChildren ==
  ASSUME NEW m \in Main, MainStep(m)
  PROVE  UNCHANGED childVars
BY DEF MainStep, Launch, MainStatement, MainStatementFails, MainOpened, Clean, Bind, StopMain

\* No message a client sends changes a session once it is started.
THEOREM SessionsAreKept == Spec => SessionIsKept
<1>1. ASSUME ShapeInv, [Next]_vars, NEW c \in Conn, m_connected[c]
      PROVE  m_connected'[c] /\ m_client_id'[c] = m_client_id[c] /\ m_session_id'[c] = m_session_id[c]
  <2>1. CASE UNCHANGED vars
    BY <1>1, <2>1 DEF vars, childVars, sessionVars
  <2>2. ASSUME NEW m \in Main, MainStep(m) PROVE UNCHANGED sessionVars
    BY <2>2, MainKeepsChildren DEF childVars
  <2>3. ASSUME NEW m \in Main, NEW d \in Conn, Accept(m, d) PROVE UNCHANGED sessionVars
    BY <2>3 DEF Accept
  <2>4. ASSUME NEW d \in Conn, ChildStep(d) \/ Environment(d), RecvStartFirst(d)
        PROVE  m_connected'[c] /\ m_client_id'[c] = m_client_id[c] /\ m_session_id'[c] = m_session_id[c]
    BY <1>1, <2>4 DEF RecvStartFirst, ShapeInv, TypeOK
  <2>5. ASSUME NEW d \in Conn, ChildStep(d) \/ Environment(d), StartSession(d)
        PROVE  m_connected'[c] /\ m_client_id'[c] = m_client_id[c] /\ m_session_id'[c] = m_session_id[c]
    BY <1>1, <2>5 DEF StartSession, Goto, ShapeInv, Shape, TypeOK
  <2> QED
    BY <1>1, <2>1, <2>2, <2>3, <2>4, <2>5, SessionVarsKept DEF Next, sessionVars
<1>2. ShapeInv /\ [Next]_vars =>
        [\A c \in Conn : m_connected[c] =>
           /\ m_connected'[c]
           /\ m_client_id'[c] = m_client_id[c]
           /\ m_session_id'[c] = m_session_id[c]]_vars
  BY <1>1
<1> QED
  BY <1>2, ShapeAlways, PTL DEF Spec, SessionIsKept

-----------------------------------------------------------------------------
(* Who owns the rows.                                                      *)

\* Steps that start no session, end none and leave the table alone.
QuietForOwners ==
  /\ UNCHANGED <<sessions, sessionVars>>
  /\ \A c \in Conn : pc'[c] = pc[c] \/ pc'[c] \notin {"insert", "exit"}

LEMMA QuietKeepsOwners ==
  ASSUME OwnerInv, QuietForOwners
  PROVE  OwnerInv'
BY DEF OwnerInv, SessionsDistinct, RowsUnique, RowsHaveOwners, OwnRow, QuietForOwners, sessionVars

LEMMA OwnerMainStep ==
  ASSUME ShapeInv, OwnerInv, NEW m \in Main, MainStep(m)
  PROVE  OwnerInv'
<1>1. UNCHANGED childVars
  BY MainKeepsChildren
<1>2. sessions' = sessions \/ sessions' = {}
  BY DEF MainStep, Launch, MainStatement, MainStatementFails, MainOpened, Clean, Bind, StopMain,
         dbVars, Shared, Reserve, EndRead, DeleteAll, Commit, Abandon
<1> QED
  BY <1>1, <1>2 DEF OwnerInv, SessionsDistinct, RowsUnique, RowsHaveOwners, OwnRow, childVars, sessionVars

\* Every step of a process but the four that handle its session.
LEMMA OtherStepsAreQuiet ==
  ASSUME ShapeInv, NEW c \in Conn, ChildStep(c) \/ Environment(c),
         ~RecvStartFirst(c), ~StartSession(c), ~RecordSession(c), ~Cleanup(c)
  PROVE  QuietForOwners
<1> USE DEF QuietForOwners, ShapeInv, TypeOK, Goto, Die, dbVars, childVars, Abandon, EndRead
<1>1. UNCHANGED sessionVars
  BY SessionVarsKept
<1>2. CASE Statement(c) \/ StatementFails(c) \/ WriteFatal(c) \/ Environment(c)
  BY <1>1, <1>2 DEF Statement, StatementFails, WriteFatal, Environment, Kill, PeerCloses,
                    PeerResets, Shared, Reserve
<1>3. CASE Opened(c) \/ PollHangup(c) \/ PollInput(c) \/ FoundDuplicate(c) \/ ListPartners(c) \/ WriteResponse(c)
  BY <1>1, <1>3 DEF Opened, PollHangup, PollInput, FoundDuplicate, ListPartners, WriteResponse
<1>4. CASE Receive(c)
  BY <1>1, <1>4 DEF Receive, RecvClosed, RecvError, RecvIgnored, RecvEchoRequest,
                    RecvPartnersRequest, RecvSessionStartRequest, RecvStartAgain
<1> QED
  BY <1>2, <1>3, <1>4 DEF ChildStep

LEMMA OwnerStartSteps ==
  ASSUME ShapeInv, OwnerInv, NEW c \in Conn, ChildStep(c),
         RecvStartFirst(c) \/ StartSession(c) \/ RecordSession(c) \/ Cleanup(c)
  PROVE  OwnerInv'
<1> USE DEF OwnerInv, ShapeInv, Shape, TypeOK, DbTypeOK
<1>1. CASE RecvStartFirst(c)
  <2>1. sessions' = sessions
    BY <1>1 DEF RecvStartFirst, Goto, ChildStep, Receive, Statement, StatementFails, Opened, PollHangup,
         PollInput, RecvClosed, RecvError, RecvIgnored, RecvEchoRequest, RecvPartnersRequest,
         RecvSessionStartRequest, FoundDuplicate, StartSession, RecordSession, ListPartners,
         WriteResponse, WriteFatal, Cleanup, Die, Abandon, dbVars, Shared, Reserve, EndRead
  <2> QED
    BY <1>1, <2>1 DEF RecvStartFirst, Goto, SessionsDistinct, RowsUnique, RowsHaveOwners, OwnRow
<1>2. CASE StartSession(c)
  <2>1. PICK s \in FreshSession : m_session_id' = [m_session_id EXCEPT ![c] = s]
    BY <1>2 DEF StartSession
  <2>2. SessionsDistinct'
    BY <2>1 DEF SessionsDistinct, FreshSession
  <2>3. UNCHANGED <<sessions, m_client_id>>
    BY <1>2 DEF StartSession, EndRead
  <2>4. RowsHaveOwners'
    BY <1>2, <2>1, <2>3 DEF StartSession, Goto, RowsHaveOwners, OwnRow
  <2> QED
    BY <2>2, <2>3, <2>4 DEF RowsUnique
<1>3. CASE RecordSession(c)
  <2>1. /\ UNCHANGED sessionVars
        /\ RowsOf(m_client_id[c]) = {}
        /\ sessions' = sessions \cup {OwnRow(c)}
    BY <1>3 DEF RecordSession, Insert, Commit, OwnRow
  <2>2. RowsUnique'
    BY <2>1 DEF RowsUnique, RowsOf, OwnRow
  <2>3. RowsHaveOwners'
    BY <1>3, <2>1 DEF RecordSession, Goto, RowsHaveOwners, OwnRow, sessionVars
  <2> QED
    BY <2>1, <2>2, <2>3 DEF SessionsDistinct, sessionVars
<1>4. CASE Cleanup(c)
  <2>1. UNCHANGED sessionVars /\ sessions' = sessions \ RowsOf(m_client_id[c])
    BY <1>4 DEF Cleanup, Delete, Commit
  <2>2. RowsHaveOwners'
    BY <1>4, <2>1 DEF Cleanup, Goto, RowsHaveOwners, OwnRow, RowsOf, sessionVars
  <2> QED
    BY <2>1, <2>2 DEF SessionsDistinct, RowsUnique, sessionVars
<1> QED
  BY <1>1, <1>2, <1>3, <1>4

LEMMA OwnerStep == ShapeInv /\ OwnerInv /\ [Next]_vars => OwnerInv'
<1> SUFFICES ASSUME ShapeInv, OwnerInv, [Next]_vars PROVE OwnerInv'
  OBVIOUS
<1>1. CASE UNCHANGED vars
  BY <1>1, QuietKeepsOwners DEF QuietForOwners, vars, dbVars, childVars
<1>2. ASSUME NEW m \in Main, NEW c \in Conn, Accept(m, c) PROVE OwnerInv'
  <2>1. QuietForOwners
    BY <1>2 DEF Accept, QuietForOwners, ShapeInv, TypeOK, dbVars
  <2> QED
    BY <2>1, QuietKeepsOwners
<1>3. ASSUME NEW c \in Conn, ChildStep(c) \/ Environment(c) PROVE OwnerInv'
  <2>1. CASE /\ ~RecvStartFirst(c) /\ ~StartSession(c)
             /\ ~RecordSession(c) /\ ~Cleanup(c)
    BY <1>3, <2>1, OtherStepsAreQuiet, QuietKeepsOwners
  <2>2. CASE RecvStartFirst(c) \/ StartSession(c) \/ RecordSession(c) \/ Cleanup(c)
    <3>1. ~PeerCloses(c) /\ ~PeerResets(c)
      BY <2>2 DEF PeerCloses, PeerResets, RecvStartFirst, StartSession, RecordSession, Cleanup, Goto, ShapeInv, TypeOK
    <3>2. ~Kill(c)
      BY <2>2 DEF Kill, Die, RecvStartFirst, StartSession, RecordSession, Cleanup, Goto, ShapeInv, TypeOK
    <3> QED
      BY <1>3, <2>2, <3>1, <3>2, OwnerStartSteps DEF Environment
  <2> QED
    BY <2>1, <2>2
<1> QED
  BY <1>1, <1>2, <1>3, OwnerMainStep DEF Next

LEMMA OwnerInit == Init => OwnerInv
BY DEF Init, DbInit, OwnerInv, SessionsDistinct, RowsUnique, RowsHaveOwners

LEMMA OwnerAlways == Spec => [](ShapeInv /\ OwnerInv)
<1>1. Spec => []OwnerInv
  BY OwnerInit, OwnerStep, ShapeAlways, PTL DEF Spec
<1> QED
  BY <1>1, ShapeAlways, PTL

\* Every row belongs to a process that started it and has not shut down.
THEOREM EveryRowHasItsOwner == Spec => []RowsHaveOwners
<1>1. OwnerInv => RowsHaveOwners
  BY DEF OwnerInv
<1> QED
  BY <1>1, OwnerAlways, PTL

\* The race of two SELECTs before two INSERTs never gives a client two rows.
THEOREM OneRowForEachClient == Spec => []OneRowPerClient
<1>1. OwnerInv /\ ShapeInv => OneRowPerClient
  BY DEF OwnerInv, SessionsDistinct, RowsUnique, ShapeInv, Shape, OneRowPerClient, OwnRow
<1> QED
  BY <1>1, OwnerAlways, PTL

-----------------------------------------------------------------------------
(* What the responses say.                                                 *)

\* A connected process keeps its client and its session.
Kept(c) ==
  m_connected[c] =>
    /\ m_connected'[c]
    /\ m_client_id'[c] = m_client_id[c]
    /\ m_session_id'[c] = m_session_id[c]

LEMMA StepsKeep ==
  ASSUME ShapeInv, NEW c \in Conn, ChildStep(c) \/ Environment(c)
  PROVE  \A d \in Conn : Kept(d)
<1>1. CASE RecvStartFirst(c)
  BY <1>1 DEF RecvStartFirst, ShapeInv, TypeOK, Kept
<1>2. CASE StartSession(c)
  BY <1>2 DEF StartSession, Goto, ShapeInv, Shape, TypeOK, Kept
<1> QED
  BY <1>1, <1>2, SessionVarsKept DEF Kept, sessionVars

\* The true answers to give to the client of c.
Truthful(c, message) ==
  /\ (message.kind = "session" /\ message.error = "CLIENT_ALREADY_CONNECTED") =>
       \E d \in Conn \ {c} :
         /\ m_connected[d]
         /\ m_client_id[d] = m_client_id[c]
         /\ m_session_id[d] = message.session_id
  /\ message.kind = "partners" =>
       \A id \in message.client_ids :
         /\ id # m_client_id[c]
         /\ \E d \in Conn \ {c} : m_connected[d] /\ m_client_id[d] = id

LEMMA AnswersAreTruthful == AnswerInv <=> \A c \in Conn : Truthful(c, response[c])
BY DEF AnswerInv, RejectionNamesAnother, PartnersAreOthers, Truthful

LEMMA PlainAnswers ==
  ASSUME NEW c \in Conn
  PROVE  /\ Truthful(c, NoResponse) /\ Truthful(c, EchoResponse)
         /\ \A s \in SessionId : Truthful(c, SessionAnswer("SESSION_STARTED", s))
         /\ \A s \in SessionId : Truthful(c, SessionAnswer("OK", s))
BY DEF Truthful, NoResponse, EchoResponse, SessionAnswer

\* A step writes nothing but a truthful answer.
LEMMA NewAnswerIsTruthful ==
  ASSUME ShapeInv, OwnerInv, NEW c \in Conn, ChildStep(c) \/ Environment(c),
         response'[c] # response[c]
  PROVE  Truthful(c, response'[c])
<1> USE DEF ShapeInv, Shape, TypeOK, DbTypeOK, Goto, Prepare, dbVars, mainVars, sessionVars, childVars
<1>1. CASE FoundDuplicate(c)
  <2>1. PICK r \in RowsOf(m_client_id[c]) :
          response'[c] = SessionAnswer("CLIENT_ALREADY_CONNECTED", r.session_id)
    BY <1>1 DEF FoundDuplicate
  <2>2. PICK d \in Conn : m_connected[d] /\ r = OwnRow(d)
    BY DEF OwnerInv, RowsHaveOwners, RowsOf
  <2>3. d # c
    BY <1>1, <2>2 DEF FoundDuplicate
  <2> QED
    BY <2>1, <2>2, <2>3 DEF Truthful, SessionAnswer, RowsOf, OwnRow
<1>2. CASE ListPartners(c)
  <2>1. response'[c] = [kind |-> "partners", client_ids |-> OtherClients(c)]
    BY <1>2 DEF ListPartners
  <2>2. ASSUME NEW id \in OtherClients(c)
        PROVE  id # m_client_id[c] /\ \E d \in Conn \ {c} : m_connected[d] /\ m_client_id[d] = id
    BY DEF OtherClients, RowsOf, OwnerInv, RowsHaveOwners, OwnRow
  <2> QED
    BY <2>1, <2>2 DEF Truthful
<1>3. CASE RecvStartAgain(c)
  BY <1>3, PlainAnswers DEF RecvStartAgain, SessionOrNone
<1>4. CASE StartSession(c)
  BY <1>4, PlainAnswers DEF StartSession, FreshSession
<1>5. CASE RecvEchoRequest(c)
  BY <1>5, PlainAnswers DEF RecvEchoRequest
<1>6. CASE Die(c) \/ WriteResponse(c)
  BY <1>6, PlainAnswers DEF Die, WriteResponse
<1>7. CASE ~(\/ FoundDuplicate(c) \/ ListPartners(c) \/ RecvStartAgain(c) \/ StartSession(c)
             \/ RecvEchoRequest(c) \/ Die(c) \/ WriteResponse(c))
  <2>1. response' = response
    BY <1>7 DEF ChildStep, Environment, Receive, Statement, StatementFails, Opened, PollHangup,
         PollInput, RecvClosed, RecvError, RecvIgnored, RecvPartnersRequest, RecvStartFirst,
         RecvSessionStartRequest, RecordSession, WriteFatal, Cleanup, Kill, PeerCloses, PeerResets
  <2> QED
    BY <2>1
<1> QED
  BY <1>1, <1>2, <1>3, <1>4, <1>5, <1>6, <1>7

\* A process that changes its client id has no answer pending.
LEMMA AnswerChildStep ==
  ASSUME ShapeInv, ShapeInv', OwnerInv, AnswerInv, NEW c \in Conn, ChildStep(c) \/ Environment(c)
  PROVE  AnswerInv'
<1>1. ASSUME NEW d \in Conn PROVE Truthful(d, response[d])
  BY AnswersAreTruthful
<1>2. \A d \in Conn : Kept(d)
  BY StepsKeep
<1>3. ASSUME NEW d \in Conn PROVE Truthful(d, response'[d])
  <2>1. d # c => response'[d] = response[d]
    BY DEF ShapeInv, TypeOK, ChildStep, Environment, Receive, Statement, StatementFails, Opened,
         PollHangup, PollInput, RecvClosed, RecvError, RecvIgnored, RecvEchoRequest,
         RecvPartnersRequest, RecvStartFirst, RecvStartAgain, RecvSessionStartRequest,
         FoundDuplicate, StartSession, RecordSession, ListPartners, WriteResponse, WriteFatal,
         Cleanup, Kill, Die, PeerCloses, PeerResets, Prepare, childVars
  <2> QED
    BY <1>1, <2>1, NewAnswerIsTruthful
<1>4. ASSUME NEW d \in Conn, m_client_id'[d] # m_client_id[d]
      PROVE  response'[d] = NoResponse
  <2>1. RecvStartFirst(c) /\ d = c
    <3>1. ~StartSession(c)
      BY <1>4 DEF StartSession
    <3> QED
      BY <1>4, <3>1, SessionVarsKept DEF RecvStartFirst, sessionVars, ShapeInv, TypeOK
  <2> QED
    BY <2>1 DEF RecvStartFirst, Goto, ShapeInv, Shape, TypeOK
<1>5. ASSUME NEW d \in Conn PROVE Truthful(d, response[d])'
  <2>1. CASE m_client_id'[d] = m_client_id[d]
    BY <1>2, <1>3, <2>1 DEF Truthful, Kept
  <2>2. CASE m_client_id'[d] # m_client_id[d]
    BY <1>4, <2>2 DEF Truthful, NoResponse
  <2> QED
    BY <2>1, <2>2
<1> QED
  BY <1>5 DEF AnswerInv, RejectionNamesAnother, PartnersAreOthers, Truthful

LEMMA AnswerStep == ShapeInv /\ ShapeInv' /\ OwnerInv /\ AnswerInv /\ [Next]_vars => AnswerInv'
<1> SUFFICES ASSUME ShapeInv, ShapeInv', OwnerInv, AnswerInv, [Next]_vars PROVE AnswerInv'
  OBVIOUS
<1>1. ASSUME UNCHANGED <<sessionVars, response>> PROVE AnswerInv'
  BY <1>1 DEF AnswerInv, RejectionNamesAnother, PartnersAreOthers, sessionVars
<1> QED
  BY <1>1, MainKeepsChildren, AnswerChildStep DEF Next, Accept, vars, childVars

LEMMA AnswerAlways == Spec => []AnswerInv
<1>1. Init => AnswerInv
  BY DEF Init, AnswerInv, RejectionNamesAnother, PartnersAreOthers, NoResponse
<1> QED
  BY <1>1, AnswerStep, OwnerAlways, PTL DEF Spec

\* A refusal names a session another process started for the same client.
THEOREM RejectionsAreTrue == Spec => []RejectionNamesAnother
<1>1. AnswerInv => RejectionNamesAnother
  BY DEF AnswerInv
<1> QED
  BY <1>1, AnswerAlways, PTL

\* The partners a client is told of are clients of other connections.
THEOREM PartnersAreTrue == Spec => []PartnersAreOthers
<1>1. AnswerInv => PartnersAreOthers
  BY DEF AnswerInv
<1> QED
  BY <1>1, AnswerAlways, PTL

-----------------------------------------------------------------------------
(* When a served client is missing from the table.                         *)

\* A process that has its session recorded and not yet deleted.
Recorded(c) == Serving(c) \/ (m_connected[c] /\ pc[c] = "cleanup")

Excused(c) ==
  \/ launches > 1
  \/ \E e \in Conn : RefusedAndLeft(e) /\ m_client_id[e] = m_client_id[c]

LEMMA ListedInit == Init => ListedInv
BY DEF Init, ListedInv, FirstLaunch, ServedAreListed, Serving

LEMMA FirstLaunchMainStep ==
  ASSUME ShapeInv, FirstLaunch, NEW m \in Main, MainStep(m)
  PROVE  FirstLaunch'
<1> USE DEF ShapeInv, TypeOK, FirstLaunch, GotoMain, mainVars, childVars
<1>1. CASE Launch(m)
  BY <1>1 DEF Launch
<1>2. CASE MainStatement(m)
  BY <1>2 DEF MainStatement
<1>3. CASE MainOpened(m) \/ Clean(m) \/ Bind(m)
  BY <1>3 DEF MainOpened, Clean, Bind
<1>4. CASE MainStatementFails(m) \/ StopMain(m)
  BY <1>4 DEF MainStatementFails, StopMain
<1> QED
  BY <1>1, <1>2, <1>3, <1>4 DEF MainStep

\* While a process has its row and launches stay at one, only a DELETE of its
\* client id can remove that row.
LEMMA ListedMainStep ==
  ASSUME ShapeInv, ListedInv, NEW m \in Main, MainStep(m)
  PROVE  ListedInv'
<1>1. UNCHANGED childVars
  BY MainKeepsChildren
<1>2. launches > 1 => launches' > 1
  BY DEF ShapeInv, TypeOK, mainVars, MainStep, Launch, MainStatement, MainStatementFails, MainOpened, Clean, Bind, StopMain
<1>3. CASE Clean(m)
  <2>1. launches > 1 \/ \A c \in Conn : pc[c] = "idle"
    BY <1>3 DEF Clean, GotoMain, ListedInv, FirstLaunch, ShapeInv, TypeOK
  <2>2. ServedAreListed'
    BY <1>1, <1>2, <2>1 DEF ServedAreListed, Serving, childVars
  <2> QED
    BY <2>2, FirstLaunchMainStep DEF ListedInv
<1>4. CASE ~Clean(m)
  <2>1. sessions' = sessions
    BY <1>4 DEF MainStep, Launch, MainStatement, MainStatementFails, MainOpened, Bind, StopMain,
                dbVars, Shared, Reserve, EndRead, Abandon
  <2>2. ServedAreListed'
    BY <1>1, <1>2, <2>1
    DEF ListedInv, ServedAreListed, Serving, OwnRow, RefusedAndLeft, childVars, sessionVars
  <2> QED
    BY <2>2, FirstLaunchMainStep DEF ListedInv
<1> QED
  BY <1>3, <1>4

LEMMA ListedAccept ==
  ASSUME ShapeInv, ListedInv, NEW m \in Main, NEW c \in Conn, Accept(m, c)
  PROVE  ListedInv'
<1>1. FirstLaunch'
  BY DEF Accept, ListedInv, FirstLaunch, ShapeInv, TypeOK, mainVars
<1>2. ServedAreListed'
  BY DEF Accept, ListedInv, ServedAreListed, Serving, OwnRow, RefusedAndLeft, ShapeInv, TypeOK,
         dbVars, mainVars, sessionVars
<1> QED
  BY <1>1, <1>2 DEF ListedInv

\* A process that runs has been accepted, stays as it is once it has shut down,
\* and moves nothing but its own program counter.
LEMMA OwnCounterOnly ==
  ASSUME ShapeInv, NEW c \in Conn, ChildStep(c) \/ Environment(c), pc' # pc
  PROVE  /\ pc[c] \notin {"idle", "exit"}
         /\ \A d \in Conn \ {c} : pc'[d] = pc[d]
BY DEF ShapeInv, TypeOK, ChildStep, Environment, Receive, Statement, StatementFails, Opened,
       PollHangup, PollInput, RecvClosed, RecvError, RecvIgnored, RecvEchoRequest,
       RecvPartnersRequest, RecvStartFirst, RecvStartAgain, RecvSessionStartRequest,
       FoundDuplicate, StartSession, RecordSession, ListPartners, WriteResponse, WriteFatal,
       Cleanup, Kill, Die, PeerCloses, PeerResets, Goto, childVars, ReadStates, WriteStates

LEMMA ChildKeepsMain ==
  ASSUME NEW c \in Conn, ChildStep(c) \/ Environment(c)
  PROVE  UNCHANGED mainVars
BY DEF ChildStep, Environment, Receive, Statement, StatementFails, Opened,
       PollHangup, PollInput, RecvClosed, RecvError, RecvIgnored, RecvEchoRequest,
       RecvPartnersRequest, RecvSessionStartRequest, FoundDuplicate, StartSession, RecordSession,
       ListPartners, WriteResponse, WriteFatal, Cleanup, Kill, Die, PeerCloses, PeerResets

\* A refused process that has left stays an excuse.
LEMMA ExcusesStay ==
  ASSUME ShapeInv, NEW c \in Conn, ChildStep(c) \/ Environment(c),
         NEW d \in Conn, Excused(d), m_client_id'[d] = m_client_id[d]
  PROVE  Excused(d)'
<1>1. UNCHANGED mainVars
  BY ChildKeepsMain
<1>2. ASSUME NEW e \in Conn, RefusedAndLeft(e)
      PROVE  RefusedAndLeft(e)' /\ m_client_id'[e] = m_client_id[e]
  <2>1. pc'[e] = pc[e]
    BY <1>2, OwnCounterOnly DEF RefusedAndLeft
  <2>2. CASE RecvStartFirst(c)
    BY <1>2, <2>1, <2>2 DEF RecvStartFirst, Goto, RefusedAndLeft, ShapeInv, TypeOK
  <2>3. CASE StartSession(c)
    BY <1>2, <2>1, <2>3 DEF StartSession, Goto, RefusedAndLeft, ShapeInv, TypeOK
  <2> QED
    BY <1>2, <2>1, <2>2, <2>3, SessionVarsKept DEF RefusedAndLeft, sessionVars
<1> QED
  BY <1>1, <1>2 DEF Excused, mainVars

LEMMA ListedChildStep ==
  ASSUME ShapeInv, OwnerInv, ListedInv, NEW c \in Conn, ChildStep(c) \/ Environment(c)
  PROVE  ListedInv'
<1>1. FirstLaunch'
  BY OwnCounterOnly, ChildKeepsMain DEF ListedInv, FirstLaunch, mainVars
<1>2. ASSUME NEW d \in Conn, Recorded(d)' PROVE OwnRow(d)' \in sessions' \/ Excused(d)'
  <2>1. CASE RecordSession(c) /\ d = c
    BY <2>1 DEF RecordSession, Insert, Commit, OwnRow, sessionVars
  <2>2. CASE ~RecordSession(c) \/ d # c
    <3>1. Recorded(d)
      BY <1>2, <2>2, SessionVarsKept
      DEF Recorded, Serving, ShapeInv, Shape, TypeOK, ChildStep, Environment, Receive, Statement,
          StatementFails, Opened, PollHangup, PollInput, RecvClosed, RecvError, RecvIgnored,
          RecvEchoRequest, RecvPartnersRequest, RecvStartFirst, RecvStartAgain,
          RecvSessionStartRequest, FoundDuplicate, StartSession, RecordSession, ListPartners,
          WriteResponse, WriteFatal, Cleanup, Kill, Die, PeerCloses, PeerResets, Goto, childVars,
          sessionVars
    <3>2. m_connected[d]
      BY <3>1 DEF Recorded, Serving
    <3>3. Kept(d)
      BY StepsKeep
    <3>4. OwnRow(d)' = OwnRow(d) /\ m_client_id'[d] = m_client_id[d]
      BY <3>2, <3>3 DEF Kept, OwnRow
    <3>5. OwnRow(d) \in sessions \/ Excused(d)
      BY <3>1 DEF Recorded, ListedInv, ServedAreListed, Excused
    <3>6. CASE Excused(d)
      BY <3>4, <3>6, ExcusesStay
    <3>7. CASE OwnRow(d) \in sessions /\ ~Cleanup(c)
      <4>1. sessions \subseteq sessions'
        BY <3>7 DEF ChildStep, Environment, Receive, Statement,
          StatementFails, Opened, PollHangup, PollInput, RecvClosed, RecvError, RecvIgnored,
          RecvEchoRequest, RecvPartnersRequest, RecvStartFirst, RecvStartAgain,
          RecvSessionStartRequest, FoundDuplicate, StartSession, RecordSession, ListPartners,
          WriteResponse, WriteFatal, Kill, Die, PeerCloses, PeerResets, dbVars, Shared, Reserve,
          EndRead, Abandon, Insert, Commit
      <4> QED
        BY <3>4, <3>7, <4>1
    <3>8. CASE OwnRow(d) \in sessions /\ Cleanup(c)
      <4>1. /\ sessions' = sessions \ RowsOf(m_client_id[c])
            /\ UNCHANGED sessionVars
            /\ pc[c] = "cleanup" /\ pc'[c] = "exit"
        BY <3>8 DEF Cleanup, Goto, Delete, Commit, ShapeInv, TypeOK
      <4>2. CASE m_client_id[d] # m_client_id[c]
        BY <3>4, <3>8, <4>1, <4>2 DEF RowsOf, OwnRow
      <4>3. CASE m_client_id[d] = m_client_id[c] /\ ~m_connected[c]
        BY <4>1, <4>3 DEF Excused, RefusedAndLeft, sessionVars
      <4>4. CASE m_client_id[d] = m_client_id[c] /\ m_connected[c]
        <5>1. d # c
          BY <1>2, <4>1 DEF Recorded, Serving
        <5>2. OwnRow(c) \notin sessions
          BY <3>2, <3>8, <4>4, <5>1
          DEF OwnerInv, RowsUnique, SessionsDistinct, OwnRow, ShapeInv, Shape
        <5>3. Excused(c)
          BY <4>1, <4>4, <5>2 DEF ListedInv, ServedAreListed, Excused
        <5> QED
          BY <3>4, <4>4, <5>3, ExcusesStay DEF Excused
      <4> QED
        BY <4>2, <4>3, <4>4
    <3> QED
      BY <3>5, <3>6, <3>7, <3>8
  <2> QED
    BY <2>1, <2>2
<1>3. ServedAreListed'
  BY <1>2 DEF ServedAreListed, Recorded, Excused
<1> QED
  BY <1>1, <1>3 DEF ListedInv

LEMMA ListedStep == ShapeInv /\ OwnerInv /\ ListedInv /\ [Next]_vars => ListedInv'
<1> SUFFICES ASSUME ShapeInv, OwnerInv, ListedInv, [Next]_vars PROVE ListedInv'
  OBVIOUS
<1>1. CASE UNCHANGED vars
  BY <1>1 DEF ListedInv, FirstLaunch, ServedAreListed, Serving, OwnRow, RefusedAndLeft,
              vars, dbVars, mainVars, childVars, sessionVars
<1> QED
  BY <1>1, ListedMainStep, ListedAccept, ListedChildStep DEF Next

LEMMA ListedAlways == Spec => []ListedInv
BY ListedInit, ListedStep, OwnerAlways, PTL DEF Spec

\* A served client is listed unless the accepting process was launched again or
\* a refused connection for the same client has left.
THEOREM ServedClientsAreListed == Spec => []ServedAreListed
<1>1. ListedInv => ServedAreListed
  BY DEF ListedInv
<1> QED
  BY <1>1, ListedAlways, PTL

\* Two connections are served for one client in no other case.
THEOREM DuplicatesOnlyAfterRefusal == Spec => []DuplicatesFollowRefusal
<1>1. ASSUME ShapeInv, OwnerInv, ListedInv, NEW c \in Conn, NEW d \in Conn, c # d,
             Serving(c), Serving(d), m_client_id[c] = m_client_id[d]
      PROVE  Excused(c)
  <2>1. OwnRow(c) \notin sessions \/ OwnRow(d) \notin sessions
    BY <1>1 DEF OwnerInv, RowsUnique, SessionsDistinct, ShapeInv, Shape, Serving, OwnRow
  <2>2. Excused(c) \/ Excused(d)
    BY <1>1, <2>1 DEF ListedInv, ServedAreListed, Excused
  <2> QED
    BY <1>1, <2>2 DEF Excused
<1>2. ShapeInv /\ OwnerInv /\ ListedInv => DuplicatesFollowRefusal
  BY <1>1 DEF DuplicatesFollowRefusal, Excused
<1> QED
  BY <1>2, ListedAlways, OwnerAlways, PTL

-----------------------------------------------------------------------------
(* Lists of partners that are stale when they are written.                 *)

\* Why a client that was listed may be gone.
MayBeGone(id) ==
  \/ launches > 1
  \/ \E e \in Conn : pc[e] = "exit" /\ m_client_id[e] = id

LEMMA StaleMainStep ==
  ASSUME ShapeInv, ListedInv, StalePartnersHaveLeft, NEW m \in Main, MainStep(m)
  PROVE  StalePartnersHaveLeft'
<1>1. UNCHANGED childVars
  BY MainKeepsChildren
<1>2. launches > 1 => launches' > 1
  BY DEF ShapeInv, TypeOK, mainVars, MainStep, Launch, MainStatement, MainStatementFails, MainOpened, Clean, Bind, StopMain
<1>3. CASE Clean(m)
  <2>1. launches > 1 \/ \A c \in Conn : pc[c] = "idle"
    BY <1>3 DEF Clean, GotoMain, ListedInv, FirstLaunch, ShapeInv, TypeOK
  <2>2. launches > 1 \/ \A c \in Conn : response[c].kind = "none"
    BY <2>1 DEF ShapeInv, Shape, NoResponse
  <2> QED
    BY <1>1, <1>2, <2>2 DEF StalePartnersHaveLeft, childVars
<1>4. CASE ~Clean(m)
  <2>1. sessions' = sessions
    BY <1>4 DEF MainStep, Launch, MainStatement, MainStatementFails, MainOpened, Bind, StopMain,
                dbVars, Shared, Reserve, EndRead, Abandon
  <2> QED
    BY <1>1, <1>2, <2>1 DEF StalePartnersHaveLeft, RowsOf, childVars, sessionVars
<1> QED
  BY <1>3, <1>4

LEMMA StaleAccept ==
  ASSUME ShapeInv, StalePartnersHaveLeft, NEW m \in Main, NEW c \in Conn, Accept(m, c)
  PROVE  StalePartnersHaveLeft'
BY DEF Accept, StalePartnersHaveLeft, RowsOf, ShapeInv, TypeOK, dbVars, mainVars, sessionVars

\* A process that has shut down keeps the id it claimed.
LEMMA ReasonsStay ==
  ASSUME ShapeInv, NEW c \in Conn, ChildStep(c) \/ Environment(c), NEW id, MayBeGone(id)
  PROVE  MayBeGone(id)'
<1>1. UNCHANGED mainVars
  BY ChildKeepsMain
<1>2. ASSUME NEW e \in Conn, pc[e] = "exit"
      PROVE  pc'[e] = "exit" /\ m_client_id'[e] = m_client_id[e]
  <2>1. pc'[e] = pc[e]
    BY <1>2, OwnCounterOnly
  <2>2. CASE RecvStartFirst(c)
    BY <1>2, <2>2 DEF RecvStartFirst, Goto, ShapeInv, TypeOK
  <2>3. CASE StartSession(c)
    BY <1>2, <2>3 DEF StartSession, Goto
  <2>4. m_client_id'[e] = m_client_id[e]
    BY <2>2, <2>3, SessionVarsKept, <1>2, <2>1 DEF sessionVars
  <2> QED
    BY <1>2, <2>1, <2>4
<1> QED
  BY <1>1, <1>2 DEF MayBeGone, mainVars

\* Where the clients of a list come from: the table, or the list it was.
LEMMA ListsGrowFromRows ==
  ASSUME ShapeInv, NEW c \in Conn, ChildStep(c) \/ Environment(c),
         NEW d \in Conn, response'[d].kind = "partners", NEW id \in response'[d].client_ids
  PROVE  \/ response[d].kind = "partners" /\ id \in response[d].client_ids
         \/ RowsOf(id) # {} /\ sessions' = sessions
<1>1. CASE ListPartners(c)
  <2>1. /\ response' = [response EXCEPT ![c] = [kind |-> "partners", client_ids |-> OtherClients(c)]]
        /\ sessions' = sessions
    BY <1>1 DEF ListPartners, Prepare, EndRead
  <2>2. CASE d = c
    <3>1. id \in OtherClients(c)
      BY <2>1, <2>2 DEF ShapeInv, TypeOK
    <3>2. RowsOf(id) # {}
      BY <3>1 DEF OtherClients, RowsOf
    <3> QED
      BY <2>1, <3>2
  <2>3. CASE d # c
    BY <2>1, <2>3 DEF ShapeInv, TypeOK
  <2> QED
    BY <2>2, <2>3
<1>2. CASE ~ListPartners(c)
  <2>1. response'[d] = response[d] \/ response'[d].kind # "partners"
    BY <1>2 DEF ShapeInv, TypeOK, ChildStep, Environment, Receive, Statement, StatementFails, Opened,
         PollHangup, PollInput, RecvClosed, RecvError, RecvIgnored, RecvEchoRequest,
         RecvPartnersRequest, RecvStartFirst, RecvStartAgain, RecvSessionStartRequest,
         FoundDuplicate, StartSession, RecordSession, WriteResponse, WriteFatal,
         Cleanup, Kill, Die, PeerCloses, PeerResets, Prepare, childVars, NoResponse, EchoResponse,
         SessionAnswer
  <2> QED
    BY <2>1
<1> QED
  BY <1>1, <1>2

\* Rows of an id that no process in its DELETE has.
LEMMA OtherRowsStay ==
  ASSUME ShapeInv, NEW c \in Conn, ChildStep(c) \/ Environment(c),
         NEW id, RowsOf(id) # {}
  PROVE  RowsOf(id)' # {} \/ (Cleanup(c) /\ m_client_id[c] = id)
<1>1. CASE Cleanup(c)
  BY <1>1 DEF Cleanup, Delete, Commit, RowsOf
<1>2. CASE ~Cleanup(c)
  <2>1. sessions \subseteq sessions'
    BY <1>2 DEF ChildStep, Environment, Receive, Statement,
      StatementFails, Opened, PollHangup, PollInput, RecvClosed, RecvError, RecvIgnored,
      RecvEchoRequest, RecvPartnersRequest, RecvStartFirst, RecvStartAgain,
      RecvSessionStartRequest, FoundDuplicate, StartSession, RecordSession, ListPartners,
      WriteResponse, WriteFatal, Kill, Die, PeerCloses, PeerResets, dbVars, Shared, Reserve,
      EndRead, Abandon, Insert, Commit
  <2> QED
    BY <2>1 DEF RowsOf
<1> QED
  BY <1>1, <1>2

LEMMA StaleChildStep ==
  ASSUME ShapeInv, StalePartnersHaveLeft, NEW c \in Conn, ChildStep(c) \/ Environment(c)
  PROVE  StalePartnersHaveLeft'
<1>1. ASSUME NEW d \in Conn, response'[d].kind = "partners", NEW id \in response'[d].client_ids
      PROVE  RowsOf(id)' # {} \/ MayBeGone(id)'
  <2>1. RowsOf(id) # {} \/ MayBeGone(id)
    BY <1>1, ListsGrowFromRows DEF StalePartnersHaveLeft, MayBeGone
  <2>2. CASE MayBeGone(id)
    BY <2>2, ReasonsStay
  <2>3. CASE Cleanup(c) /\ m_client_id[c] = id
    BY <2>3 DEF Cleanup, Goto, MayBeGone, ShapeInv, TypeOK, sessionVars
  <2> QED
    BY <2>1, <2>2, <2>3, OtherRowsStay
<1> QED
  BY <1>1 DEF StalePartnersHaveLeft, MayBeGone

\* A list of partners that is out of date when it is written names clients that
\* have left since, for any number of processes.
THEOREM StaleListsAreExplained == Spec => []StalePartnersHaveLeft
<1>1. Init => StalePartnersHaveLeft
  BY DEF Init, StalePartnersHaveLeft, NoResponse
<1>2. ShapeInv /\ ListedInv /\ StalePartnersHaveLeft /\ [Next]_vars => StalePartnersHaveLeft'
  <2> SUFFICES ASSUME ShapeInv, ListedInv, StalePartnersHaveLeft, [Next]_vars
               PROVE  StalePartnersHaveLeft'
    OBVIOUS
  <2>1. CASE UNCHANGED vars
    BY <2>1 DEF StalePartnersHaveLeft, RowsOf, vars, dbVars, mainVars, childVars, sessionVars
  <2> QED
    BY <2>1, StaleMainStep, StaleAccept, StaleChildStep DEF Next
<1> QED
  BY <1>1, <1>2, ShapeAlways, ListedAlways, PTL DEF Spec

-----------------------------------------------------------------------------
(* The file lock.                                                          *)

\* A step after which p holds no lock, and which is no other process's.
LEMMA LocksLeft ==
  ASSUME LocksAreStatements, NEW p \in Process,
         lock'[p] = "none",
         \A q \in Process \ {p} :
           /\ lock'[q] = lock[q]
           /\ q \in AtRead => q \in AtRead'
           /\ q \in AtWrite => q \in AtWrite'
  PROVE  LocksAreStatements'
BY DEF LocksAreStatements

\* A step in which p takes a lock for the statement it is at.
LEMMA LocksTaken ==
  ASSUME ShapeInv, LocksAreStatements, NEW p \in Process,
         p \in AtRead \cup AtWrite, AtRead' = AtRead, AtWrite' = AtWrite,
         Shared(p) \/ (p \in AtWrite /\ Reserve(p))
  PROVE  LocksAreStatements'
<1>1. lock \in [Process -> LockState]
  BY DEF ShapeInv, TypeOK, DbTypeOK
<1>2. CASE Shared(p)
  BY <1>1, <1>2 DEF Shared, LocksAreStatements
<1>3. CASE p \in AtWrite /\ Reserve(p)
  BY <1>1, <1>3 DEF Reserve, LocksAreStatements
<1> QED
  BY <1>2, <1>3

\* Where the processes are that a step of main() does not run.
LEMMA OthersStayAt ==
  ASSUME NEW p \in Process, NEW q \in Process \ {p},
         \A m \in Main \ {p} : main'[m] = main[m],
         \A c \in Conn \ {p} : pc'[c] = pc[c]
  PROVE  /\ q \in AtRead <=> q \in AtRead'
         /\ q \in AtWrite <=> q \in AtWrite'
BY DEF AtRead, AtWrite

LEMMA LocksMainStep ==
  ASSUME ShapeInv, LocksAreStatements, NEW m \in Main, MainStep(m)
  PROVE  LocksAreStatements'
<1>1. /\ m \in Process /\ Conn \cap Main = {} /\ UNCHANGED pc
      /\ lock \in [Process -> LockState] /\ main \in [Main -> MainState]
  BY ServerAssumption, MainKeepsChildren DEF ShapeInv, TypeOK, DbTypeOK, childVars
<1>2. CASE MainStatement(m)
  <2>1. AtRead' = AtRead /\ AtWrite' = AtWrite
    BY <1>2 DEF MainStatement, AtRead, AtWrite, mainVars, childVars
  <2> QED
    BY <1>1, <1>2, <2>1, LocksTaken DEF MainStatement, AtRead, AtWrite
<1>3. CASE ~MainStatement(m)
  <2>1. /\ \A n \in Main \ {m} : main'[n] = main[n]
        /\ \A q \in Process \ {m} : lock'[q] = lock[q]
    BY <1>1, <1>3 DEF MainStep, Launch, MainStatementFails, MainOpened, Clean, Bind, StopMain, GotoMain,
                 Abandon, EndRead, DeleteAll, Commit, dbVars
  <2>2. lock'[m] = "none"
    <3>1. m \in AtRead \cup AtWrite <=> main[m] \in {"open", "clean"}
      BY <1>1 DEF AtRead, AtWrite
    <3>2. CASE Launch(m) \/ Bind(m)
      BY <1>1, <3>1, <3>2 DEF Launch, Bind, GotoMain, LocksAreStatements, dbVars
    <3>3. CASE MainStatementFails(m) \/ MainOpened(m) \/ Clean(m) \/ StopMain(m)
      BY <1>1, <3>3 DEF MainStatementFails, MainOpened, Clean, StopMain, Abandon, EndRead, DeleteAll, Commit
    <3> QED
      BY <1>3, <3>2, <3>3 DEF MainStep
  <2> QED
    BY <1>1, <2>1, <2>2, OthersStayAt, LocksLeft
<1> QED
  BY <1>2, <1>3

LEMMA LocksChildStep ==
  ASSUME ShapeInv, LocksAreStatements, NEW c \in Conn, ChildStep(c) \/ Environment(c)
  PROVE  LocksAreStatements'
<1>1. /\ c \in Process /\ Conn \cap Main = {}
      /\ lock \in [Process -> LockState] /\ pc \in [Conn -> ChildState]
  BY ServerAssumption DEF ShapeInv, TypeOK, DbTypeOK
<1>2. c \in AtRead \cup AtWrite <=> pc[c] \in ReadStates \cup WriteStates
  BY <1>1 DEF AtRead, AtWrite
<1>3. UNCHANGED main
  BY DEF ChildStep, Environment, Receive, Statement, StatementFails, Opened, PollHangup, PollInput,
         RecvClosed, RecvError, RecvIgnored, RecvEchoRequest, RecvPartnersRequest, RecvSessionStartRequest,
         FoundDuplicate, StartSession, RecordSession, ListPartners, WriteResponse, WriteFatal, Cleanup,
         Kill, PeerCloses, PeerResets, Die, mainVars
<1>4. CASE Statement(c)
  <2>1. AtRead' = AtRead /\ AtWrite' = AtWrite
    BY <1>4 DEF Statement, AtRead, AtWrite, mainVars, childVars
  <2> QED
    BY <1>1, <1>2, <1>4, <2>1, LocksTaken DEF Statement, AtRead, AtWrite
<1>5. CASE PeerCloses(c) \/ PeerResets(c)
  BY <1>5 DEF PeerCloses, PeerResets, LocksAreStatements, AtRead, AtWrite, dbVars, mainVars
<1>6. CASE \/ StatementFails(c) \/ Opened(c) \/ FoundDuplicate(c) \/ StartSession(c) \/ RecordSession(c)
           \/ ListPartners(c) \/ WriteFatal(c) \/ Cleanup(c) \/ RecvError(c) \/ Kill(c)
  <2>1. \A d \in Conn \ {c} : pc'[d] = pc[d]
    BY <1>1, <1>6 DEF StatementFails, Opened, FoundDuplicate, StartSession, RecordSession, ListPartners,
                 WriteFatal, Cleanup, RecvError, Kill, Die, Goto
  <2>2. lock' = [lock EXCEPT ![c] = "none"]
    BY <1>6 DEF StatementFails, Opened, FoundDuplicate, StartSession, RecordSession, ListPartners,
                 WriteFatal, Cleanup, RecvError, Kill, Die, Abandon, EndRead, Insert, Delete, Commit
  <2> QED
    BY <1>1, <1>3, <2>1, <2>2, OthersStayAt, LocksLeft
<1>7. CASE \/ PollHangup(c) \/ PollInput(c) \/ WriteResponse(c)
           \/ RecvClosed(c) \/ RecvIgnored(c) \/ RecvEchoRequest(c) \/ RecvPartnersRequest(c)
           \/ RecvSessionStartRequest(c)
  <2>1. /\ UNCHANGED lock /\ pc[c] \in {"poll", "recv", "write"}
        /\ \A d \in Conn \ {c} : pc'[d] = pc[d]
    BY <1>1, <1>7 DEF PollHangup, PollInput, WriteResponse, RecvClosed, RecvIgnored, RecvEchoRequest,
         RecvPartnersRequest, RecvSessionStartRequest, RecvStartAgain, RecvStartFirst, Goto, dbVars
  <2>2. lock'[c] = "none"
    BY <1>1, <1>2, <2>1 DEF LocksAreStatements, ReadStates, WriteStates
  <2> QED
    BY <1>1, <1>3, <2>1, <2>2, OthersStayAt, LocksLeft
<1> QED
  BY <1>4, <1>5, <1>6, <1>7 DEF ChildStep, Environment, Receive

LEMMA LocksAccept ==
  ASSUME ShapeInv, LocksAreStatements, NEW m \in Main, NEW c \in Conn, Accept(m, c)
  PROVE  LocksAreStatements'
<1>1. /\ c \in Process /\ Conn \cap Main = {} /\ pc[c] = "idle"
      /\ lock \in [Process -> LockState] /\ pc \in [Conn -> ChildState]
  BY ServerAssumption DEF ShapeInv, TypeOK, DbTypeOK, Accept
<1>2. lock[c] = "none"
  BY <1>1 DEF LocksAreStatements, AtRead, AtWrite, ReadStates, WriteStates
<1>3. UNCHANGED <<lock, main>> /\ \A d \in Conn \ {c} : pc'[d] = pc[d]
  BY <1>1 DEF Accept, dbVars, mainVars
<1> QED
  BY <1>1, <1>2, <1>3, OthersStayAt, LocksLeft

LEMMA LocksStep == ShapeInv /\ LocksAreStatements /\ [Next]_vars => LocksAreStatements'
<1> SUFFICES ASSUME ShapeInv, LocksAreStatements, [Next]_vars PROVE LocksAreStatements'
  OBVIOUS
<1>1. CASE UNCHANGED vars
  BY <1>1 DEF LocksAreStatements, AtRead, AtWrite, vars, dbVars, mainVars, childVars
<1> QED
  BY <1>1, LocksMainStep, LocksAccept, LocksChildStep DEF Next

\* A process holds a lock on the file only while it is at a statement, whatever
\* ends it, and is RESERVED only at one that writes.
THEOREM LocksAreAlwaysStatements == Spec => []LocksAreStatements
<1>1. Init => LocksAreStatements
  BY DEF Init, DbInit, LocksAreStatements
<1> QED
  BY <1>1, ShapeAlways, LocksStep, PTL DEF Spec
=============================================================================

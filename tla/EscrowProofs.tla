---------------------------- MODULE EscrowProofs -----------------------------
(***************************************************************************)
(* Proofs about Escrow for every value of its constants.  The system       *)
(* implements EscrowServer, so that every invariant proved there holds of  *)
(* it; the rest follows from what one ve-client and the server's process   *)
(* it is connected to are doing.                                           *)
(***************************************************************************)
EXTENDS Escrow, EscrowServerProofs

-----------------------------------------------------------------------------
(* The system implements the server with free clients.                     *)

LEMMA ServerStepIsChildStep ==
  ASSUME NEW c \in Conn, ServerStep(c)
  PROVE  ChildStep(c)
BY DEF ServerStep, PollMessage, HandleRequest, SendAnswer, ServerInternal, ChildStep, Receive

\* The steps of ve-client leave the server alone.
LEMMA ClientLeavesServer ==
  ASSUME NEW c \in Conn,
         ClientStep(c) \/ SendRequest(c) \/ RecvAnswer(c) \/ Leave(c) \/ ClientKilled(c)
  PROVE  UNCHANGED vars
BY DEF ClientStep, SendStart, PollAnswer, HandleAnswer, StartFails, ClientFatal, SendRequest,
       RecvAnswer, Leave, ClientKilled, ClientEnds

LEMMA SystemStepIsServerStep == [SystemNext]_systemVars => [Next]_vars
<1> SUFFICES ASSUME [SystemNext]_systemVars PROVE [Next]_vars
  OBVIOUS
<1>1. CASE UNCHANGED systemVars
  BY <1>1 DEF systemVars
<1>2. ASSUME NEW m \in Main, ServerMain(m) \/ \E c \in Conn : Connect(m, c)
      PROVE  Next
  BY <1>2 DEF ServerMain, Connect, Next
<1>3. ASSUME NEW c \in Conn, ServerStep(c) \/ ServerKilled(c) \/ Closed(c) \/ Reset(c)
      PROVE  Next
  BY <1>3, ServerStepIsChildStep DEF ServerKilled, Closed, Reset, Environment, Next
<1> QED
  BY <1>1, <1>2, <1>3, ClientLeavesServer DEF SystemNext

\* Every behaviour of the system is one of EscrowServer, whose peers are free:
\* what is proved of the server with any client holds with ve-clients.
THEOREM SystemImplementsServer == System => Spec
BY SystemStepIsServerStep, PTL DEF System, SystemInit, Spec

LEMMA ServerInvariants == System => [](ShapeInv /\ OwnerInv /\ ListedInv)
BY SystemImplementsServer, OwnerAlways, ListedAlways, PTL

-----------------------------------------------------------------------------
(* One connection, from both ends.                                         *)

\* The server's process has not taken up a request.
Fresh(c) == ~m_connected[c] /\ pc[c] \notin {"check", "insert", "list", "write"}

\* While start_session() waits, its request is on the way, or being handled,
\* or its answer is on the way.
Awaiting(c) ==
  \/ toServer[c] = <<"start">> /\ toClient[c] = <<>> /\ Fresh(c)
  \/ /\ toServer[c] = <<>> /\ toClient[c] = <<>> /\ pc[c] # "list"
     /\ pc[c] = "write" => response[c].kind = "session"
  \/ /\ toServer[c] = <<>> /\ m_connected[c]
     /\ toClient[c] = <<SessionAnswer("OK", m_session_id[c])>>
     /\ pc[c] \notin {"check", "insert", "list", "write"}

Protocol(c) ==
  /\ m_client_id[c] \in MayClaim[c] \cup {NoClient}
  /\ response[c].kind = "session" =>
       m_connected[c] /\ response[c] = SessionAnswer("OK", m_session_id[c])
  /\ pc[c] = "insert" => response[c].kind = "session"
  /\ pc[c] = "write" => response[c] # NoResponse
  /\ \/ toServer[c] = <<"start">> /\ Fresh(c)
     \/ toServer[c] \in Seq({"echo", "partners"})
  /\ client[c] \in {"down", "start"} => toServer[c] = <<>> /\ toClient[c] = <<>> /\ Fresh(c)
  /\ client[c] \in {"wait", "recv"} => Awaiting(c)
  /\ client[c] = "run" => m_connected[c] /\ client_session_id[c] = m_session_id[c]

ProtocolInv == SystemTypeOK /\ \A c \in Conn : Protocol(c)

SameServer(c) ==
  /\ pc'[c] = pc[c] /\ response'[c] = response[c]
  /\ m_connected'[c] = m_connected[c] /\ m_client_id'[c] = m_client_id[c]
  /\ m_session_id'[c] = m_session_id[c]

SameClient(c) == client'[c] = client[c] /\ client_session_id'[c] = client_session_id[c]

SameWire(c) == toServer'[c] = toServer[c] /\ toClient'[c] = toClient[c]

LEMMA EmptyWire == \A S : <<>> \in Seq(S)
OBVIOUS

LEMMA KindsDiffer ==
  /\ NoResponse.kind = "none" /\ EchoResponse.kind = "echo"
  /\ \A e, s : SessionAnswer(e, s).kind = "session"
  /\ \A e, s : SessionAnswer(e, s).error = e /\ SessionAnswer(e, s).session_id = s
BY DEF NoResponse, EchoResponse, SessionAnswer

LEMMA UntouchedKeeps ==
  ASSUME NEW c \in Conn, Protocol(c), SameServer(c), SameClient(c), SameWire(c)
  PROVE  Protocol(c)'
BY DEF Protocol, Awaiting, Fresh, SameServer, SameClient, SameWire

\* Steps of the server's process that take up no request, and its end.
LEMMA CalmKeeps ==
  ASSUME NEW c \in Conn, Protocol(c), SameClient(c), SameWire(c),
         pc'[c] \notin {"check", "insert", "list", "write"},
         m_connected'[c] = m_connected[c], m_client_id'[c] = m_client_id[c],
         m_session_id'[c] = m_session_id[c], response'[c] \in {response[c], NoResponse}
  PROVE  Protocol(c)'
BY KindsDiffer DEF Protocol, Awaiting, Fresh, SameClient, SameWire

LEMMA OthersUntouched ==
  ASSUME ShapeInv, NEW c \in Conn,
         ChildStep(c) \/ Environment(c) \/ \E m \in Main : Accept(m, c)
  PROVE  \A d \in Conn \ {c} : SameServer(d)
<1> USE DEF ShapeInv, TypeOK, SameServer, Goto, Prepare, Die, childVars, sessionVars
<1>1. CASE Statement(c) \/ StatementFails(c) \/ WriteFatal(c) \/ Environment(c)
  BY <1>1 DEF Statement, StatementFails, WriteFatal, Environment, Kill, PeerCloses, PeerResets
<1>2. CASE Opened(c) \/ PollHangup(c) \/ PollInput(c) \/ Cleanup(c) \/ RecordSession(c)
  BY <1>2 DEF Opened, PollHangup, PollInput, Cleanup, RecordSession
<1>3. CASE FoundDuplicate(c) \/ ListPartners(c) \/ WriteResponse(c)
  BY <1>3 DEF FoundDuplicate, ListPartners, WriteResponse
<1>4. CASE StartSession(c)
  BY <1>4 DEF StartSession
<1>5. CASE RecvClosed(c) \/ RecvError(c) \/ RecvIgnored(c) \/ RecvEchoRequest(c) \/ RecvPartnersRequest(c)
  BY <1>5 DEF RecvClosed, RecvError, RecvIgnored, RecvEchoRequest, RecvPartnersRequest
<1>6. CASE RecvSessionStartRequest(c)
  BY <1>6 DEF RecvSessionStartRequest, RecvStartAgain, RecvStartFirst
<1>7. CASE \E m \in Main : Accept(m, c)
  BY <1>7 DEF Accept
<1> QED
  BY <1>1, <1>2, <1>3, <1>4, <1>5, <1>6, <1>7 DEF ChildStep, Receive

\* With ids of their own no process finds a row of its client's.
LEMMA NoDuplicateFound ==
  ASSUME ShapeInv, OwnerInv, \A d \in Conn : Protocol(d), NEW c \in Conn, FoundDuplicate(c)
  PROVE  FALSE
<1>1. pc[c] = "check" /\ ~m_connected[c] /\ m_client_id[c] \in ClientId
  BY DEF FoundDuplicate, Goto, ShapeInv, Shape
<1>2. PICK r \in sessions : r.client_id = m_client_id[c]
  BY DEF FoundDuplicate, RowsOf
<1>3. PICK d \in Conn : m_connected[d] /\ r = OwnRow(d)
  BY DEF OwnerInv, RowsHaveOwners
<1>4. m_client_id[d] = m_client_id[c]
  BY <1>2, <1>3 DEF OwnRow
<1>5. m_client_id[c] \in MayClaim[c] /\ m_client_id[c] \in MayClaim[d]
  BY <1>1, <1>4, ServerAssumption DEF Protocol
<1>6. c = d
  BY <1>5, ClientsAssumption
<1> QED
  BY <1>1, <1>3, <1>6

LEMMA InternalKeeps ==
  ASSUME ShapeInv, OwnerInv, \A d \in Conn : Protocol(d), NEW c \in Conn,
         ServerInternal(c) \/ PollMessage(c) \/ ServerKilled(c) \/ Closed(c)
  PROVE  Protocol(c)'
<1>1. SameClient(c) /\ SameWire(c)
  BY DEF ServerInternal, PollMessage, ServerKilled, Closed, SameClient, SameWire, clientVars, wireVars
<1>2. Protocol(c)
  OBVIOUS
<1> USE DEF ShapeInv, TypeOK, Goto, Prepare, childVars, sessionVars
<1>3. CASE Statement(c) \/ Closed(c)
  <2>1. SameServer(c)
    BY <1>3 DEF Statement, Closed, PeerCloses, SameServer
  <2> QED
    BY <1>1, <1>2, <2>1, UntouchedKeeps
<1>4. CASE StatementFails(c) \/ RecvError(c) \/ WriteFatal(c) \/ Kill(c)
  <2>1. Die(c)
    BY <1>4 DEF StatementFails, RecvError, WriteFatal, Kill
  <2>2. pc'[c] = "dead" /\ response'[c] = NoResponse /\ UNCHANGED sessionVars
    BY <2>1 DEF Die
  <2> QED
    BY <1>1, <1>2, <2>2, CalmKeeps
<1>5. CASE Opened(c) \/ PollHangup(c) \/ RecvClosed(c) \/ Cleanup(c) \/ PollInput(c)
  <2>1. pc'[c] \in {"poll", "cleanup", "exit", "recv"} /\ UNCHANGED <<sessionVars, response>>
    BY <1>5 DEF Opened, PollHangup, RecvClosed, Cleanup, PollInput
  <2> QED
    BY <1>1, <1>2, <2>1, CalmKeeps
<1>6. CASE FoundDuplicate(c)
  BY <1>6, NoDuplicateFound
<1>7. CASE StartSession(c)
  <2>1. pc[c] = "check" /\ pc'[c] = "insert" /\ m_connected'[c] /\ UNCHANGED m_client_id
    BY <1>7 DEF StartSession
  <2>2. response'[c] = SessionAnswer("OK", m_session_id'[c])
    BY <1>7 DEF StartSession
  <2>3. client[c] # "run" /\ client[c] \notin {"down", "start"}
    BY <1>2, <2>1 DEF Protocol, Fresh, Shape
  <2>4. toServer[c] \in Seq({"echo", "partners"})
    BY <1>2, <2>1 DEF Protocol, Fresh
  <2>5. Awaiting(c) => Awaiting(c)'
    BY <1>1, <2>1 DEF Awaiting, Fresh, SameWire
  <2> QED
    BY <1>1, <1>2, <2>1, <2>2, <2>3, <2>4, <2>5, KindsDiffer DEF Protocol, SameClient, SameWire
<1>8. CASE RecordSession(c)
  <2>1. pc[c] = "insert" /\ pc'[c] = "write" /\ UNCHANGED <<sessionVars, response>>
    BY <1>8 DEF RecordSession
  <2>2. response[c].kind = "session" /\ response[c] # NoResponse
    BY <1>2, <2>1, KindsDiffer DEF Protocol
  <2> QED
    BY <1>1, <1>2, <2>1, <2>2 DEF Protocol, Awaiting, Fresh, SameClient, SameWire
<1>9. CASE ListPartners(c)
  <2>1. pc[c] = "list" /\ pc'[c] = "write" /\ UNCHANGED sessionVars /\ response'[c].kind = "partners"
    BY <1>9 DEF ListPartners
  <2>2. response'[c] # NoResponse
    BY <2>1, KindsDiffer
  <2> QED
    BY <1>1, <1>2, <2>1, <2>2 DEF Protocol, Awaiting, Fresh, SameClient, SameWire
<1> QED
  BY <1>3, <1>4, <1>5, <1>6, <1>7, <1>8, <1>9 DEF ServerInternal, PollMessage, ServerKilled

-----------------------------------------------------------------------------
(* The messages.                                                           *)

\* What recv takes off the wire are the first messages, all of them or not.
LEMMA RestIsSeq ==
  ASSUME NEW S, NEW w \in Seq(S), NEW rest \in AfterRecv(w)
  PROVE  rest \in Seq(S)
<1>1. PICK k \in 2 .. Len(w) + 1 : rest = SubSeq(w, k, Len(w))
  BY DEF AfterRecv
<1>2. Len(w) \in Nat /\ k \in Nat /\ \A i \in 1 .. Len(w) : w[i] \in S
  OBVIOUS
<1>3. \A i \in k .. Len(w) : w[i] \in S
  BY <1>2
<1> QED
  BY <1>1, <1>2, <1>3

LEMMA RestOfOne ==
  ASSUME NEW x, NEW rest \in AfterRecv(<<x>>)
  PROVE  rest = <<>>
BY DEF AfterRecv

LEMMA HandleKeeps ==
  ASSUME ShapeInv, SystemTypeOK, NEW c \in Conn, Protocol(c), HandleRequest(c)
  PROVE  Protocol(c)'
<1>1. PICK rest \in AfterRecv(toServer[c]) : toServer' = [toServer EXCEPT ![c] = rest]
  BY DEF HandleRequest
<1>2. SameClient(c) /\ toClient'[c] = toClient[c] /\ toServer'[c] = rest
  BY <1>1 DEF HandleRequest, clientVars, SameClient, SystemTypeOK
<1>3. CASE toServer[c] = <<"start">> /\ Fresh(c)
  <2>1. Head(toServer[c]) = "start"
    BY <1>3
  <2>2. RecvStartFirst(c)
    BY <1>3, <2>1 DEF HandleRequest, RecvSessionStartRequest, RecvStartAgain, Fresh
  <2>3. pc'[c] = "check" /\ m_client_id'[c] \in MayClaim[c]
    BY <2>2 DEF RecvStartFirst, Goto, ShapeInv, TypeOK
  <2>4. m_connected'[c] = m_connected[c] /\ m_session_id'[c] = m_session_id[c] /\ response'[c] = response[c]
    BY <2>2 DEF RecvStartFirst
  <2>5. toServer'[c] = <<>>
    BY <1>2, <1>3, RestOfOne
  <2>6. client[c] \notin {"down", "start", "run"}
    BY <1>3 DEF Protocol, Fresh
  <2>7. client[c] \in {"wait", "recv"} => toClient[c] = <<>>
    BY <1>3 DEF Protocol, Awaiting
  <2>8. client[c] \in {"wait", "recv"} => Awaiting(c)'
    BY <1>2, <2>3, <2>5, <2>7 DEF Awaiting
  <2> QED
    BY <1>2, <2>3, <2>4, <2>5, <2>6, <2>8, EmptyWire DEF Protocol, SameClient
<1>4. CASE toServer[c] \in Seq({"echo", "partners"})
  <2>1. toServer[c] # <<>>
    BY DEF HandleRequest
  <2>2. Head(toServer[c]) \in {"echo", "partners"}
    BY <1>4, <2>1
  <2>3. toServer[c] # <<"start">>
    BY <2>2
  <2>4. client[c] \notin {"down", "start", "wait", "recv"}
    BY <2>1, <2>3 DEF Protocol, Awaiting
  <2>5. rest \in Seq({"echo", "partners"})
    BY <1>4, RestIsSeq
  <2>6. RecvEchoRequest(c) \/ RecvPartnersRequest(c)
    BY <2>2 DEF HandleRequest
  <2>7. /\ m_connected'[c] = m_connected[c] /\ m_session_id'[c] = m_session_id[c]
        /\ m_client_id'[c] = m_client_id[c]
    BY <2>6 DEF RecvEchoRequest, RecvPartnersRequest, sessionVars
  <2>8. \/ pc'[c] = "write" /\ response'[c] = EchoResponse
        \/ pc'[c] = "list" /\ response'[c] = response[c]
    BY <2>6 DEF RecvEchoRequest, RecvPartnersRequest, Goto, Prepare, ShapeInv, TypeOK
  <2>9. EchoResponse # NoResponse /\ EchoResponse.kind # "session"
    BY KindsDiffer
  <2> QED
    BY <1>2, <2>4, <2>5, <2>7, <2>8, <2>9 DEF Protocol, SameClient
<1> QED
  BY <1>3, <1>4 DEF Protocol

LEMMA AnswerKeeps ==
  ASSUME ShapeInv, SystemTypeOK, NEW c \in Conn, Protocol(c), SendAnswer(c)
  PROVE  Protocol(c)'
<1>1. SameClient(c) /\ toServer'[c] = toServer[c]
  BY DEF SendAnswer, clientVars, SameClient
<1>2. pc[c] = "write" /\ pc'[c] = "poll" /\ response'[c] = NoResponse
  BY DEF SendAnswer, WriteResponse, Goto, Prepare, ShapeInv, TypeOK
<1>3. /\ m_connected'[c] = m_connected[c] /\ m_session_id'[c] = m_session_id[c]
      /\ m_client_id'[c] = m_client_id[c]
  BY DEF SendAnswer, WriteResponse, sessionVars
<1>4. client[c] \notin {"down", "start"} /\ toServer[c] \in Seq({"echo", "partners"})
  BY <1>2 DEF Protocol, Fresh
<1>5. ASSUME client[c] \in {"wait", "recv"} PROVE Awaiting(c)'
  <2>1. toServer[c] = <<>> /\ toClient[c] = <<>> /\ response[c].kind = "session"
    BY <1>2, <1>5 DEF Protocol, Awaiting, Fresh
  <2>2. m_connected[c] /\ response[c] = SessionAnswer("OK", m_session_id[c])
    BY <2>1 DEF Protocol
  <2>3. toClient'[c] = Append(<<>>, response[c])
    BY <1>5, <2>1 DEF SendAnswer, ClientGone, SystemTypeOK
  <2>4. toClient'[c] = <<response[c]>>
    BY <2>3
  <2>5. toClient'[c] = <<SessionAnswer("OK", m_session_id'[c])>>
    BY <1>3, <2>2, <2>4 DEF SessionAnswer
  <2> QED
    BY <1>1, <1>2, <1>3, <2>1, <2>2, <2>5 DEF Awaiting, SessionAnswer
<1> QED
  BY <1>1, <1>2, <1>3, <1>4, <1>5, KindsDiffer DEF Protocol, SameClient

\* A reset empties the wire.  What was on it is no longer waited for.
LEMMA ResetKeeps ==
  ASSUME ShapeInv, SystemTypeOK, NEW c \in Conn, Protocol(c), Reset(c)
  PROVE  Protocol(c)'
<1>1. SameClient(c) /\ SameServer(c)
  BY DEF Reset, PeerResets, clientVars, sessionVars, SameClient, SameServer
<1>2. toServer'[c] = <<>> /\ toClient'[c] = <<>>
  BY DEF Reset, SystemTypeOK
<1>3. Awaiting(c) => Awaiting(c)'
  BY <1>1, <1>2 DEF Awaiting, Fresh, SameServer
<1> QED
  BY <1>1, <1>2, <1>3, EmptyWire DEF Protocol, Fresh, SameClient, SameServer

-----------------------------------------------------------------------------
(* ve-client.                                                              *)

LEMMA ConnectKeeps ==
  ASSUME ShapeInv, SystemTypeOK, NEW m \in Main, NEW c \in Conn, Protocol(c), Connect(m, c)
  PROVE  Protocol(c)'
<1>1. client[c] = "down" /\ client'[c] = "start" /\ client_session_id'[c] = client_session_id[c]
  BY DEF Connect, SystemTypeOK
<1>2. pc'[c] = "open" /\ response'[c] = response[c] /\ UNCHANGED sessionVars
  BY DEF Connect, Accept, ShapeInv, TypeOK
<1>3. SameWire(c)
  BY DEF Connect, wireVars, SameWire
<1> QED
  BY <1>1, <1>2, <1>3 DEF Protocol, Fresh, SameWire, sessionVars

LEMMA SendStartKeeps ==
  ASSUME SystemTypeOK, NEW c \in Conn, Protocol(c), SendStart(c)
  PROVE  Protocol(c)'
<1>1. client[c] = "start" /\ client'[c] = "wait"
  BY DEF SendStart, GotoClient, SystemTypeOK
<1>2. SameServer(c) /\ toClient'[c] = toClient[c]
  BY DEF SendStart, vars, childVars, sessionVars, SameServer
<1>3. toServer[c] = <<>> /\ toClient[c] = <<>> /\ Fresh(c)
  BY <1>1 DEF Protocol
<1>4. toServer'[c] = toServer[c] \/ toServer'[c] = Append(toServer[c], "start")
  BY DEF SendStart, Send, SystemTypeOK
<1>5. toServer'[c] = <<>> \/ toServer'[c] = <<"start">>
  BY <1>3, <1>4
<1>6. Awaiting(c)'
  BY <1>2, <1>3, <1>5 DEF Awaiting, Fresh, SameServer
<1> QED
  BY <1>1, <1>2, <1>3, <1>5, <1>6, EmptyWire DEF Protocol, Fresh, SameServer

\* The answer start_session() takes is that of its SessionStartRequest.
LEMMA AnswerIsOK ==
  ASSUME SystemTypeOK, NEW c \in Conn, Protocol(c), HandleAnswer(c)
  PROVE  /\ m_connected[c]
         /\ client' = [client EXCEPT ![c] = "run"]
         /\ client_session_id' = [client_session_id EXCEPT ![c] = m_session_id[c]]
<1>1. client[c] = "recv" /\ toClient[c] # <<>>
  BY DEF HandleAnswer
<1>2. m_connected[c] /\ toClient[c] = <<SessionAnswer("OK", m_session_id[c])>>
  BY <1>1 DEF Protocol, Awaiting
<1>3. Head(toClient[c]) = SessionAnswer("OK", m_session_id[c])
  BY <1>2
<1>4. Head(toClient[c]).error = "OK" /\ Head(toClient[c]).session_id = m_session_id[c]
  BY <1>3, KindsDiffer
<1> QED
  BY <1>2, <1>4 DEF HandleAnswer

LEMMA HandleAnswerKeeps ==
  ASSUME SystemTypeOK, NEW c \in Conn, Protocol(c), HandleAnswer(c)
  PROVE  Protocol(c)'
<1>1. m_connected[c] /\ client'[c] = "run" /\ client_session_id'[c] = m_session_id[c]
  BY AnswerIsOK DEF SystemTypeOK
<1>2. SameServer(c) /\ toServer'[c] = toServer[c]
  BY DEF HandleAnswer, vars, childVars, sessionVars, SameServer
<1> QED
  BY <1>1, <1>2 DEF Protocol, Fresh, SameServer

LEMMA SendRequestKeeps ==
  ASSUME SystemTypeOK, NEW c \in Conn, Protocol(c), SendRequest(c)
  PROVE  Protocol(c)'
<1>1. client[c] = "run" /\ SameClient(c)
  BY DEF SendRequest, SameClient
<1>2. SameServer(c)
  BY DEF SendRequest, vars, childVars, sessionVars, SameServer
<1>3. toServer[c] \in Seq({"echo", "partners"})
  BY <1>1 DEF Protocol, Fresh
<1>4. PICK message \in {"echo", "partners"} :
        toServer'[c] = toServer[c] \/ toServer'[c] = Append(toServer[c], message)
  BY DEF SendRequest, Send, SystemTypeOK
<1>5. toServer'[c] \in Seq({"echo", "partners"})
  BY <1>3, <1>4
<1> QED
  BY <1>1, <1>2, <1>5 DEF Protocol, SameClient, SameServer

\* The steps of ve-client after which start_session() is over, or still waits.
LEMMA QuietKeeps ==
  ASSUME SystemTypeOK, NEW c \in Conn, Protocol(c),
         \/ PollAnswer(c) \/ StartFails(c) \/ ClientFatal(c)
         \/ RecvAnswer(c) \/ Leave(c) \/ ClientKilled(c)
  PROVE  Protocol(c)'
<1>1. SameServer(c) /\ toServer'[c] = toServer[c] /\ client_session_id'[c] = client_session_id[c]
  BY DEF PollAnswer, StartFails, ClientFatal, RecvAnswer, Leave, ClientKilled, ClientEnds, vars,
         childVars, sessionVars, clientVars, wireVars, SameServer
<1>2. CASE PollAnswer(c)
  <2>1. client[c] = "wait" /\ client'[c] = "recv" /\ toClient'[c] = toClient[c]
    BY <1>2 DEF PollAnswer, GotoClient, wireVars, SystemTypeOK
  <2>2. Awaiting(c)'
    BY <1>1, <2>1 DEF Protocol, Awaiting, Fresh, SameServer
  <2> QED
    BY <1>1, <2>1, <2>2 DEF Protocol, Fresh, SameServer
<1>3. CASE RecvAnswer(c)
  <2>1. client[c] = "run" /\ client'[c] = "run"
    BY <1>3 DEF RecvAnswer, clientVars
  <2> QED
    BY <1>1, <2>1 DEF Protocol, Fresh, SameServer
<1>4. CASE StartFails(c) \/ ClientFatal(c) \/ Leave(c) \/ ClientKilled(c)
  <2>1. client'[c] \in {"refused", "done", "dead"}
    BY <1>4 DEF StartFails, ClientFatal, Leave, ClientKilled, ClientEnds, GotoClient, SystemTypeOK
  <2> QED
    BY <1>1, <2>1 DEF Protocol, Fresh, SameServer
<1> QED
  BY <1>2, <1>3, <1>4

-----------------------------------------------------------------------------
(* Types.                                                                  *)

LEMMA AppendIsSeq ==
  ASSUME NEW S, NEW wires \in [Conn -> Seq(S)], NEW c \in Conn, NEW x \in S
  PROVE  [wires EXCEPT ![c] = Append(@, x)] \in [Conn -> Seq(S)]
<1>1. Append(wires[c], x) \in Seq(S)
  OBVIOUS
<1> QED
  BY <1>1

LEMMA RestTyped ==
  ASSUME NEW S, NEW wires \in [Conn -> Seq(S)], NEW c \in Conn, NEW next,
         \E rest \in AfterRecv(wires[c]) : next = [wires EXCEPT ![c] = rest]
  PROVE  next \in [Conn -> Seq(S)]
<1>1. PICK rest \in AfterRecv(wires[c]) : next = [wires EXCEPT ![c] = rest]
  OBVIOUS
<1>2. rest \in Seq(S)
  BY RestIsSeq
<1> QED
  BY <1>1, <1>2

LEMMA EmptyTyped ==
  ASSUME NEW S, NEW wires \in [Conn -> Seq(S)], NEW c \in Conn
  PROVE  [wires EXCEPT ![c] = <<>>] \in [Conn -> Seq(S)]
BY EmptyWire

ClientTypeOK ==
  /\ client \in [Conn -> ClientState]
  /\ client_session_id \in [Conn -> SessionOrNone]
  /\ sent \in [Conn -> 0 .. MaxSent]

LEMMA ServerSideTyped ==
  ASSUME ShapeInv, SystemTypeOK, NEW c \in Conn, Protocol(c),
         \/ ServerStep(c) \/ ServerKilled(c) \/ Closed(c) \/ Reset(c)
         \/ \E m \in Main : Connect(m, c)
  PROVE  SystemTypeOK'
<1>1. ClientTypeOK'
  <2>1. CASE \E m \in Main : Connect(m, c)
    BY <2>1 DEF Connect, SystemTypeOK, ClientTypeOK, ClientState
  <2>2. CASE ServerStep(c) \/ ServerKilled(c) \/ Closed(c) \/ Reset(c)
    BY <2>2 DEF ServerStep, PollMessage, HandleRequest, SendAnswer, ServerInternal, ServerKilled,
                Closed, Reset, clientVars, SystemTypeOK, ClientTypeOK
  <2> QED
    BY <2>1, <2>2
<1>2. CASE UNCHANGED wireVars
  BY <1>1, <1>2 DEF wireVars, SystemTypeOK, ClientTypeOK
<1>3. CASE HandleRequest(c)
  <2>1. \E rest \in AfterRecv(toServer[c]) : toServer' = [toServer EXCEPT ![c] = rest]
    BY <1>3 DEF HandleRequest
  <2>2. toServer \in [Conn -> Seq(Request)]
    BY DEF SystemTypeOK
  <2>3. toServer' \in [Conn -> Seq(Request)]
    BY <2>1, <2>2, RestTyped
  <2> QED
    BY <1>1, <1>3, <2>3 DEF HandleRequest, SystemTypeOK, ClientTypeOK
<1>4. CASE SendAnswer(c)
  <2>1. response[c] \in Messages
    BY <1>4 DEF SendAnswer, WriteResponse, Goto, Protocol, Messages, ShapeInv, TypeOK
  <2>2. [toClient EXCEPT ![c] = Append(@, response[c])] \in [Conn -> Seq(Messages)]
    BY <2>1, AppendIsSeq DEF SystemTypeOK
  <2>3. toClient' \in [Conn -> Seq(Messages)]
    BY <1>4, <2>2 DEF SendAnswer, SystemTypeOK
  <2> QED
    BY <1>1, <1>4, <2>3 DEF SendAnswer, SystemTypeOK, ClientTypeOK
<1>5. CASE Reset(c)
  <2>1. toServer' \in [Conn -> Seq(Request)] /\ toClient' \in [Conn -> Seq(Messages)]
    BY <1>5, EmptyTyped DEF Reset, SystemTypeOK
  <2> QED
    BY <1>1, <2>1 DEF SystemTypeOK, ClientTypeOK
<1> QED
  BY <1>2, <1>3, <1>4, <1>5 DEF ServerStep, PollMessage, ServerInternal, ServerKilled, Closed, Connect

LEMMA ClientSideTyped ==
  ASSUME ShapeInv, SystemTypeOK, NEW c \in Conn, Protocol(c),
         ClientStep(c) \/ SendRequest(c) \/ RecvAnswer(c) \/ Leave(c) \/ ClientKilled(c)
  PROVE  SystemTypeOK'
<1>0. toClient \in [Conn -> Seq(Messages)]
  BY DEF SystemTypeOK
<1> USE DEF SystemTypeOK, GotoClient, ClientState, clientVars, wireVars
<1>1. CASE SendStart(c)
  <2>1. [toServer EXCEPT ![c] = Append(@, "start")] \in [Conn -> Seq(Request)]
    BY AppendIsSeq DEF Request
  <2>2. toServer' \in [Conn -> Seq(Request)]
    BY <1>1, <2>1 DEF SendStart, Send
  <2> QED
    BY <1>1, <2>2 DEF SendStart
<1>2. CASE PollAnswer(c) \/ StartFails(c)
  BY <1>2 DEF PollAnswer, StartFails
<1>3. CASE HandleAnswer(c)
  <2>0. \E rest \in AfterRecv(toClient[c]) : toClient' = [toClient EXCEPT ![c] = rest]
    BY <1>3 DEF HandleAnswer
  <2>1. toClient' \in [Conn -> Seq(Messages)]
    <3> HIDE DEF SystemTypeOK
    <3> QED BY <1>0, <2>0, RestTyped
  <2>2. m_session_id[c] \in SessionOrNone
    BY DEF ShapeInv, TypeOK
  <2>3. client' \in [Conn -> ClientState] /\ client_session_id' \in [Conn -> SessionOrNone]
    BY <1>3, <2>2, AnswerIsOK
  <2> QED
    BY <1>3, <2>1, <2>3 DEF HandleAnswer
<1>4. CASE ClientFatal(c) \/ ClientKilled(c) \/ Leave(c)
  <2>0. toClient' = [toClient EXCEPT ![c] = <<>>]
    BY <1>4 DEF ClientFatal, ClientKilled, Leave, ClientEnds
  <2>1. toClient' \in [Conn -> Seq(Messages)]
    <3> HIDE DEF SystemTypeOK
    <3> QED BY <1>0, <2>0, EmptyTyped
  <2> QED
    BY <1>4, <2>1 DEF ClientFatal, ClientKilled, Leave, ClientEnds
<1>5. CASE SendRequest(c)
  <2>1. PICK message \in {"echo", "partners"} : Send(c, message)
    BY <1>5 DEF SendRequest
  <2>2. [toServer EXCEPT ![c] = Append(@, message)] \in [Conn -> Seq(Request)]
    BY AppendIsSeq DEF Request
  <2>3. toServer' \in [Conn -> Seq(Request)]
    BY <2>1, <2>2 DEF Send
  <2>4. sent' \in [Conn -> 0 .. MaxSent]
    BY <1>5, ClientsAssumption DEF SendRequest
  <2> QED
    BY <1>5, <2>3, <2>4 DEF SendRequest
<1>6. CASE RecvAnswer(c)
  <2>0. \E rest \in AfterRecv(toClient[c]) : toClient' = [toClient EXCEPT ![c] = rest]
    BY <1>6 DEF RecvAnswer
  <2>1. toClient' \in [Conn -> Seq(Messages)]
    <3> HIDE DEF SystemTypeOK
    <3> QED BY <1>0, <2>0, RestTyped
  <2> QED
    BY <1>6, <2>1 DEF RecvAnswer
<1> QED
  BY <1>1, <1>2, <1>3, <1>4, <1>5, <1>6 DEF ClientStep

-----------------------------------------------------------------------------
(* Every step keeps the protocol of every connection.                      *)

LEMMA ServerSideOthers ==
  ASSUME ShapeInv, SystemTypeOK, NEW c \in Conn, NEW d \in Conn \ {c},
         \/ ServerStep(c) \/ ServerKilled(c) \/ Closed(c) \/ Reset(c)
         \/ \E m \in Main : Connect(m, c)
  PROVE  SameServer(d) /\ SameClient(d) /\ SameWire(d)
<1>1. SameServer(d)
  BY OthersUntouched, ServerStepIsChildStep DEF ServerKilled, Closed, Reset, Environment, Connect
<1>2. SameClient(d)
  BY DEF ServerStep, PollMessage, HandleRequest, SendAnswer, ServerInternal, ServerKilled, Closed,
         Reset, Connect, clientVars, SystemTypeOK, SameClient
<1>3. SameWire(d)
  <2>1. CASE HandleRequest(c) \/ SendAnswer(c) \/ Reset(c)
    BY <2>1 DEF HandleRequest, SendAnswer, Reset, SystemTypeOK, SameWire
  <2>2. CASE UNCHANGED wireVars
    BY <2>2 DEF wireVars, SameWire
  <2> QED
    BY <2>1, <2>2 DEF ServerStep, PollMessage, ServerInternal, ServerKilled, Closed, Connect
<1> QED
  BY <1>1, <1>2, <1>3

LEMMA ClientSideOthers ==
  ASSUME SystemTypeOK, NEW c \in Conn, NEW d \in Conn \ {c},
         ClientStep(c) \/ SendRequest(c) \/ RecvAnswer(c) \/ Leave(c) \/ ClientKilled(c)
  PROVE  SameServer(d) /\ SameClient(d) /\ SameWire(d)
<1>1. SameServer(d)
  BY ClientLeavesServer DEF vars, childVars, sessionVars, SameServer
<1> USE DEF SystemTypeOK, GotoClient, clientVars, wireVars, Send, ClientEnds, SameClient, SameWire
<1>2. CASE SendStart(c) \/ SendRequest(c)
  BY <1>1, <1>2 DEF SendStart, SendRequest
<1>3. CASE PollAnswer(c) \/ StartFails(c) \/ HandleAnswer(c)
  BY <1>1, <1>3 DEF PollAnswer, StartFails, HandleAnswer
<1>4. CASE ClientFatal(c) \/ ClientKilled(c) \/ Leave(c) \/ RecvAnswer(c)
  BY <1>1, <1>4 DEF ClientFatal, ClientKilled, Leave, RecvAnswer
<1> QED
  BY <1>2, <1>3, <1>4 DEF ClientStep

LEMMA ServerSideKeeps ==
  ASSUME ShapeInv, OwnerInv, ProtocolInv, NEW c \in Conn,
         \/ ServerStep(c) \/ ServerKilled(c) \/ Closed(c) \/ Reset(c)
         \/ \E m \in Main : Connect(m, c)
  PROVE  Protocol(c)'
<1>1. SystemTypeOK /\ Protocol(c) /\ \A d \in Conn : Protocol(d)
  BY DEF ProtocolInv
<1>2. CASE HandleRequest(c)
  BY <1>1, <1>2, HandleKeeps
<1>3. CASE SendAnswer(c)
  BY <1>1, <1>3, AnswerKeeps
<1>4. CASE Reset(c)
  BY <1>1, <1>4, ResetKeeps
<1>5. CASE \E m \in Main : Connect(m, c)
  BY <1>1, <1>5, ConnectKeeps
<1>6. CASE ServerInternal(c) \/ PollMessage(c) \/ ServerKilled(c) \/ Closed(c)
  BY <1>1, <1>6, InternalKeeps
<1> QED
  BY <1>2, <1>3, <1>4, <1>5, <1>6 DEF ServerStep

LEMMA ClientSideKeeps ==
  ASSUME ProtocolInv, NEW c \in Conn,
         ClientStep(c) \/ SendRequest(c) \/ RecvAnswer(c) \/ Leave(c) \/ ClientKilled(c)
  PROVE  Protocol(c)'
<1>1. SystemTypeOK /\ Protocol(c)
  BY DEF ProtocolInv
<1> QED
  BY <1>1, SendStartKeeps, HandleAnswerKeeps, SendRequestKeeps, QuietKeeps DEF ClientStep

LEMMA MainKeeps ==
  ASSUME ProtocolInv, (\E m \in Main : ServerMain(m)) \/ UNCHANGED systemVars
  PROVE  ProtocolInv'
<1>1. UNCHANGED <<childVars, clientVars, wireVars>>
  <2>1. CASE UNCHANGED systemVars
    BY <2>1 DEF systemVars, vars
  <2>2. ASSUME NEW m \in Main, ServerMain(m)
        PROVE  UNCHANGED <<childVars, clientVars, wireVars>>
    BY <2>2 DEF ServerMain, MainStep, Launch, MainStatement, MainStatementFails, MainOpened,
                Clean, Bind, StopMain
  <2> QED
    BY <2>1, <2>2
<1>2. SystemTypeOK'
  BY <1>1 DEF ProtocolInv, SystemTypeOK, clientVars, wireVars
<1>3. \A c \in Conn : SameServer(c) /\ SameClient(c) /\ SameWire(c)
  BY <1>1 DEF childVars, sessionVars, clientVars, wireVars, SameServer, SameClient, SameWire
<1> QED
  BY <1>2, <1>3, UntouchedKeeps DEF ProtocolInv

LEMMA ProtocolInit == SystemInit => ProtocolInv
<1> SUFFICES ASSUME SystemInit PROVE ProtocolInv
  OBVIOUS
<1>1. SystemTypeOK
  <2>1. 0 \in 0 .. MaxSent
    BY ClientsAssumption
  <2>2. client \in [Conn -> ClientState] /\ client_session_id \in [Conn -> SessionOrNone]
    BY DEF SystemInit, ClientState, SessionOrNone
  <2>3. sent \in [Conn -> 0 .. MaxSent]
    BY <2>1 DEF SystemInit
  <2>4. toServer \in [Conn -> Seq(Request)] /\ toClient \in [Conn -> Seq(Messages)]
    BY EmptyWire DEF SystemInit
  <2> QED
    BY <2>2, <2>3, <2>4 DEF SystemTypeOK
<1>2. ASSUME NEW c \in Conn PROVE Protocol(c)
  <2>1. client[c] = "down" /\ toServer[c] = <<>> /\ toClient[c] = <<>>
    BY DEF SystemInit
  <2>2. pc[c] = "idle" /\ ~m_connected[c] /\ m_client_id[c] = NoClient /\ response[c] = NoResponse
    BY DEF SystemInit, Init
  <2> QED
    BY <2>1, <2>2, EmptyWire, KindsDiffer DEF Protocol, Fresh
<1> QED
  BY <1>1, <1>2 DEF ProtocolInv

LEMMA ProtocolStep == ShapeInv /\ OwnerInv /\ ProtocolInv /\ [SystemNext]_systemVars => ProtocolInv'
<1> SUFFICES ASSUME ShapeInv, OwnerInv, ProtocolInv, [SystemNext]_systemVars PROVE ProtocolInv'
  OBVIOUS
<1>1. SystemTypeOK /\ \A d \in Conn : Protocol(d)
  BY DEF ProtocolInv
<1>2. ASSUME NEW c \in Conn,
             \/ ServerStep(c) \/ ServerKilled(c) \/ Closed(c) \/ Reset(c)
             \/ \E m \in Main : Connect(m, c)
      PROVE  ProtocolInv'
  <2>1. SystemTypeOK'
    BY <1>1, <1>2, ServerSideTyped
  <2>2. Protocol(c)'
    BY <1>2, ServerSideKeeps
  <2>3. ASSUME NEW d \in Conn \ {c} PROVE Protocol(d)'
    BY <1>1, <1>2, ServerSideOthers, UntouchedKeeps
  <2> QED
    BY <2>1, <2>2, <2>3 DEF ProtocolInv
<1>3. ASSUME NEW c \in Conn,
             ClientStep(c) \/ SendRequest(c) \/ RecvAnswer(c) \/ Leave(c) \/ ClientKilled(c)
      PROVE  ProtocolInv'
  <2>1. SystemTypeOK'
    BY <1>1, <1>3, ClientSideTyped
  <2>2. Protocol(c)'
    BY <1>3, ClientSideKeeps
  <2>3. ASSUME NEW d \in Conn \ {c} PROVE Protocol(d)'
    BY <1>1, <1>3, ClientSideOthers, UntouchedKeeps
  <2> QED
    BY <2>1, <2>2, <2>3 DEF ProtocolInv
<1> QED
  BY <1>2, <1>3, MainKeeps DEF SystemNext

LEMMA ProtocolAlways == System => []ProtocolInv
<1>1. System => [](ShapeInv /\ OwnerInv)
  BY ServerInvariants, PTL
<1> QED
  BY <1>1, ProtocolInit, ProtocolStep, PTL DEF System

-----------------------------------------------------------------------------
(* What follows for the system.                                            *)

\* The state of every ve-client and of the messages on the way keeps its types:
\* in particular nothing but requests is ever on the way to ServerProcess.
THEOREM SystemTypeCorrect == System => []SystemTypeOK
BY ProtocolAlways, PTL DEF ProtocolInv

\* A ve-client that shows its window (start_session() returned true) was told
\* the session that the server's process at the other end has started for it.
THEOREM ClientsKnowTheirSession == System => []ClientKnowsSession
<1>1. ProtocolInv => ClientKnowsSession
  BY DEF ProtocolInv, Protocol, ClientKnowsSession
<1> QED
  BY <1>1, ProtocolAlways, PTL

\* handle(SessionStartRequest) refuses no client while every ve-client generates
\* an id of its own, and it is told of each start_session() once.
THEOREM NobodyRefused == System => []NobodyIsRefused
<1>1. ProtocolInv => NobodyIsRefused
  <2> SUFFICES ASSUME ProtocolInv, NEW c \in Conn, response[c].kind = "session"
               PROVE  response[c].error = "OK"
    BY DEF NobodyIsRefused
  <2>1. response[c] = SessionAnswer("OK", m_session_id[c])
    BY DEF ProtocolInv, Protocol
  <2> QED
    BY <2>1, KindsDiffer
<1> QED
  BY <1>1, ProtocolAlways, PTL

\* With ids of their own no row is lost to the DELETE of a refused client.
LEMMA ListedWhileRunning == ShapeInv /\ ListedInv /\ ProtocolInv => RunningIsListed
<1> SUFFICES ASSUME ShapeInv, ListedInv, ProtocolInv,
                    NEW c \in Conn, client[c] = "run", pc[c] \in {"poll", "recv", "list", "write"},
                    launches <= 1
             PROVE  OwnRow(c) \in sessions
  BY DEF RunningIsListed, ShapeInv, TypeOK
<1>1. m_connected[c] /\ m_client_id[c] \in MayClaim[c] \cup {NoClient}
  BY DEF ProtocolInv, Protocol
<1>2. m_client_id[c] \in MayClaim[c]
  BY <1>1, ServerAssumption DEF ShapeInv, Shape
<1>3. Serving(c)
  BY <1>1 DEF Serving
<1>4. SUFFICES ASSUME NEW e \in Conn, RefusedAndLeft(e), m_client_id[e] = m_client_id[c]
               PROVE  FALSE
  BY <1>3 DEF ListedInv, ServedAreListed, ShapeInv, TypeOK
<1>5. m_client_id[e] \in MayClaim[e]
  BY <1>2, <1>4, ServerAssumption DEF ProtocolInv, Protocol
<1>6. e = c
  BY <1>2, <1>4, <1>5, ClientsAssumption
<1> QED
  BY <1>1, <1>4, <1>6 DEF RefusedAndLeft

\* While the window is shown and the server's process serves it, the client is
\* in the sessions table, unless the accepting process was launched again.
THEOREM RunningAreListed == System => []RunningIsListed
BY ListedWhileRunning, ServerInvariants, ProtocolAlways, PTL
=============================================================================

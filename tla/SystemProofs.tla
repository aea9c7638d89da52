---------------------------- MODULE SystemProofs -----------------------------
(***************************************************************************)
(* What the whole system implements: Handshake, between each ve-client and *)
(* the server's process it is connected to, and SessionRegistry, because   *)
(* the server does with whatever clients.                                  *)
(***************************************************************************)
EXTENDS EscrowProofs, RegistryProofs

\* The server with ve-clients issues, registers and retires sessions as
\* SessionRegistry says: each of them once, and one at a time for a client.
THEOREM SystemImplementsRegistry == System => ImplementsRegistry
BY SystemImplementsServer, ServerImplementsRegistry

-----------------------------------------------------------------------------
(* One step of the system, as Handshake sees it.                           *)

stages == [c \in Conn |-> StageOf(client[c])]

LEMMA StagesKept ==
  ASSUME client' = client
  PROVE  stages' = stages
BY DEF stages

LEMMA StageMoves ==
  ASSUME SystemTypeOK, NEW c \in Conn, NEW state, client' = [client EXCEPT ![c] = state]
  PROVE  stages' = [stages EXCEPT ![c] = StageOf(state)]
<1>1. client'[c] = state /\ \A d \in Conn \ {c} : client'[d] = client[d]
  BY DEF SystemTypeOK
<1>2. ASSUME NEW d \in Conn PROVE stages'[d] = [stages EXCEPT ![c] = StageOf(state)][d]
  <2>1. stages'[d] = StageOf(client'[d]) /\ stages[d] = StageOf(client[d]) /\ DOMAIN stages = Conn
    BY <1>2 DEF stages
  <2>2. StageOf(client'[d]) = IF d = c THEN StageOf(state) ELSE StageOf(client[d])
    BY <1>1, <1>2
  <2> QED
    BY <1>2, <2>1, <2>2
<1>3. stages' = [d \in Conn |-> stages'[d]] /\ DOMAIN stages = Conn
  BY DEF stages
<1> QED
  BY <1>2, <1>3

LEMMA SendAsks ==
  ASSUME SystemTypeOK, NEW c \in Conn, SendStart(c)
  PROVE  Shake!Ask(c)
<1>1. client[c] = "start" /\ client' = [client EXCEPT ![c] = "wait"]
  BY DEF SendStart, GotoClient
<1>2. stages[c] = "away" /\ stages' = [stages EXCEPT ![c] = "asking"]
  BY <1>1, StageMoves DEF StageOf, stages
<1>3. UNCHANGED <<m_session_id, client_session_id>>
  BY DEF SendStart, vars, childVars, sessionVars
<1> QED
  BY <1>2, <1>3 DEF Shake!Ask, stages

\* A process that starts a session has been asked to, and has none yet.
LEMMA StartGrants ==
  ASSUME ShapeInv, ProtocolInv, NEW c \in Conn, StartSession(c), UNCHANGED clientVars
  PROVE  \E s \in SessionId : Shake!Grant(c, s)
<1>1. PICK s \in FreshSession : m_session_id' = [m_session_id EXCEPT ![c] = s]
  BY DEF StartSession
<1>2. s \in SessionId /\ \A d \in Conn : m_session_id[d] # s
  BY DEF FreshSession
<1>3. pc[c] = "check" /\ m_session_id[c] = NoSession
  BY DEF StartSession, Goto, ShapeInv, Shape, TypeOK, SessionOrNone
<1>4. client[c] \in ClientState /\ client[c] \notin {"down", "start"}
  BY <1>3 DEF ProtocolInv, SystemTypeOK, Protocol, Fresh
<1>5. stages[c] # "away"
  BY <1>4 DEF stages, StageOf, ClientState
<1>6. stages' = stages /\ UNCHANGED client_session_id
  BY StagesKept DEF clientVars
<1>7. Shake!Grant(c, s)
  BY <1>1, <1>2, <1>3, <1>5, <1>6 DEF Shake!Grant, stages
<1> QED
  BY <1>2, <1>7

LEMMA AnswerEnters ==
  ASSUME ShapeInv, ProtocolInv, NEW c \in Conn, HandleAnswer(c)
  PROVE  Shake!Enter(c)
<1>1. SystemTypeOK /\ Protocol(c) /\ client[c] = "recv"
  BY DEF ProtocolInv, HandleAnswer
<1>2. /\ m_connected[c] /\ client' = [client EXCEPT ![c] = "run"]
      /\ client_session_id' = [client_session_id EXCEPT ![c] = m_session_id[c]]
  BY <1>1, AnswerIsOK
<1>3. stages[c] = "asking" /\ stages' = [stages EXCEPT ![c] = "in"]
  BY <1>1, <1>2, StageMoves DEF StageOf, stages
<1>4. m_session_id[c] # NoSession
  BY <1>2 DEF ShapeInv, Shape
<1>5. UNCHANGED m_session_id
  BY DEF HandleAnswer, vars, childVars, sessionVars
<1> QED
  BY <1>2, <1>3, <1>4, <1>5 DEF Shake!Enter, stages

LEMMA EndLeaves ==
  ASSUME SystemTypeOK, NEW c \in Conn,
         StartFails(c) \/ ClientFatal(c) \/ Leave(c) \/ ClientKilled(c)
  PROVE  Shake!Leave(c)
<1>1. PICK state \in {"refused", "done", "dead"} : client' = [client EXCEPT ![c] = state]
  BY DEF StartFails, GotoClient, ClientFatal, Leave, ClientKilled, ClientEnds
<1>2. stages' = [stages EXCEPT ![c] = "over"]
  BY <1>1, StageMoves DEF StageOf
<1>3. UNCHANGED <<m_session_id, client_session_id>>
  BY DEF StartFails, ClientFatal, Leave, ClientKilled, ClientEnds, vars, childVars, sessionVars
<1> QED
  BY <1>2, <1>3 DEF Shake!Leave, stages

\* The steps of the two processes that Handshake does not see.
LEMMA UnseenByHandshake ==
  ASSUME ShapeInv, SystemTypeOK, NEW c \in Conn,
         \/ (ServerStep(c) \/ ServerKilled(c) \/ Closed(c) \/ Reset(c)) /\ ~StartSession(c)
         \/ PollAnswer(c) \/ SendRequest(c) \/ RecvAnswer(c)
         \/ \E m \in Main : Connect(m, c)
  PROVE  stages' = stages /\ UNCHANGED <<m_session_id, client_session_id>>
<1>1. CASE (ServerStep(c) \/ ServerKilled(c) \/ Closed(c) \/ Reset(c)) /\ ~StartSession(c)
  <2>1. UNCHANGED clientVars
    BY <1>1 DEF ServerStep, PollMessage, HandleRequest, SendAnswer, ServerInternal, ServerKilled,
                Closed, Reset
  <2>2. ChildStep(c) \/ Environment(c)
    BY <1>1, ServerStepIsChildStep DEF ServerKilled, Closed, Reset, Environment
  <2>3. UNCHANGED m_session_id
    BY <1>1, <2>2, SessionVarsKept DEF RecvStartFirst, sessionVars
  <2> QED
    BY <2>1, <2>3, StagesKept DEF clientVars
<1>2. CASE PollAnswer(c)
  <2>1. client[c] = "wait" /\ client' = [client EXCEPT ![c] = "recv"]
    BY <1>2 DEF PollAnswer, GotoClient
  <2>2. stages' = [stages EXCEPT ![c] = "asking"] /\ stages[c] = "asking"
    BY <2>1, StageMoves DEF StageOf, stages
  <2> QED
    BY <1>2, <2>2 DEF PollAnswer, stages, vars, childVars, sessionVars
<1>3. CASE SendRequest(c) \/ RecvAnswer(c)
  BY <1>3, StagesKept DEF SendRequest, RecvAnswer, clientVars, vars, childVars, sessionVars
<1>4. CASE \E m \in Main : Connect(m, c)
  <2>1. client[c] = "down" /\ client' = [client EXCEPT ![c] = "start"]
    BY <1>4 DEF Connect
  <2>2. stages' = [stages EXCEPT ![c] = "away"] /\ stages[c] = "away"
    BY <2>1, StageMoves DEF StageOf, stages
  <2> QED
    BY <1>4, <2>2 DEF Connect, Accept, stages, sessionVars
<1> QED
  BY <1>1, <1>2, <1>3, <1>4

LEMMA MainUnseen ==
  ASSUME NEW m \in Main, ServerMain(m)
  PROVE  stages' = stages /\ UNCHANGED <<m_session_id, client_session_id>>
BY StagesKept, MainKeepsChildren DEF ServerMain, clientVars, childVars, sessionVars

LEMMA HandshakeStep ==
  ShapeInv /\ ProtocolInv /\ [SystemNext]_systemVars =>
    [Shake!Next]_<<stages, m_session_id, client_session_id>>
<1> SUFFICES ASSUME ShapeInv, ProtocolInv, [SystemNext]_systemVars
             PROVE  Shake!Next \/ UNCHANGED <<stages, m_session_id, client_session_id>>
  OBVIOUS
<1>1. SystemTypeOK
  BY DEF ProtocolInv
<1>2. CASE UNCHANGED systemVars
  BY <1>2, StagesKept DEF systemVars, clientVars, vars, childVars, sessionVars
<1>3. ASSUME NEW m \in Main, ServerMain(m)
      PROVE  UNCHANGED <<stages, m_session_id, client_session_id>>
  BY <1>3, MainUnseen
<1>4. ASSUME NEW c \in Conn, \E m \in Main : Connect(m, c)
      PROVE  UNCHANGED <<stages, m_session_id, client_session_id>>
  BY <1>1, <1>4, UnseenByHandshake
<1>5. ASSUME NEW c \in Conn, ServerStep(c) \/ ServerKilled(c) \/ Closed(c) \/ Reset(c)
      PROVE  Shake!Next \/ UNCHANGED <<stages, m_session_id, client_session_id>>
  <2>1. CASE StartSession(c)
    <3>1. UNCHANGED clientVars
      BY <1>5 DEF ServerStep, PollMessage, HandleRequest, SendAnswer, ServerInternal, ServerKilled,
                  Closed, Reset
    <3> QED
      BY <2>1, <3>1, StartGrants DEF Shake!Next
  <2>2. CASE ~StartSession(c)
    BY <1>1, <1>5, <2>2, UnseenByHandshake
  <2> QED
    BY <2>1, <2>2
<1>6. ASSUME NEW c \in Conn,
             ClientStep(c) \/ SendRequest(c) \/ RecvAnswer(c) \/ Leave(c) \/ ClientKilled(c)
      PROVE  Shake!Next \/ UNCHANGED <<stages, m_session_id, client_session_id>>
  <2>1. CASE SendStart(c)
    BY <1>1, <2>1, SendAsks DEF Shake!Next
  <2>2. CASE HandleAnswer(c)
    BY <2>2, AnswerEnters DEF Shake!Next
  <2>3. CASE StartFails(c) \/ ClientFatal(c) \/ Leave(c) \/ ClientKilled(c)
    BY <1>1, <2>3, EndLeaves DEF Shake!Next
  <2>4. CASE PollAnswer(c) \/ SendRequest(c) \/ RecvAnswer(c)
    BY <1>1, <2>4, UnseenByHandshake
  <2> QED
    BY <1>6, <2>1, <2>2, <2>3, <2>4 DEF ClientStep
<1> QED
  BY <1>2, <1>3, <1>4, <1>5, <1>6 DEF SystemNext

\* Whatever happens to the two processes, the messages and the connection: a
\* ve-client goes on with the session that the server's process started for it,
\* which no other client has, or not at all.
THEOREM SystemImplementsHandshake == System => ImplementsHandshake
<1>1. SystemInit => Shake!Init
  BY DEF SystemInit, Init, Shake!Init, StageOf
<1>2. System => [](ShapeInv /\ ProtocolInv)
  BY ServerInvariants, ProtocolAlways, PTL
<1> QED
  BY <1>1, <1>2, HandshakeStep, PTL DEF System, ImplementsHandshake, Shake!Spec, Shake!handshakeVars, stages

\* Clients that show their windows know their sessions, and each has its own.
THEOREM WindowsHaveOwnSessions == System => []Shake!OwnSessions
<1>1. ShapeInv /\ OwnerInv /\ ProtocolInv => Shake!OwnSessions
  <2> SUFFICES ASSUME ShapeInv, OwnerInv, ProtocolInv, NEW c \in Conn, NEW d \in Conn,
                      stages[c] = "in", stages[d] = "in"
               PROVE  /\ client_session_id[c] = m_session_id[c]
                      /\ client_session_id[c] = client_session_id[d] => c = d
    BY DEF Shake!OwnSessions, stages
  <2>1. \A e \in Conn : client[e] \in ClientState /\ stages[e] = "in" => client[e] = "run"
    BY DEF stages, StageOf, ClientState
  <2>2. client[c] = "run" /\ client[d] = "run"
    BY <2>1 DEF ProtocolInv, SystemTypeOK
  <2>3. \A e \in {c, d} : m_connected[e] /\ client_session_id[e] = m_session_id[e]
    BY <2>2 DEF ProtocolInv, Protocol
  <2> QED
    BY <2>3 DEF OwnerInv, SessionsDistinct, ShapeInv, Shape
<1> QED
  BY <1>1, ServerInvariants, ProtocolAlways, PTL
=============================================================================

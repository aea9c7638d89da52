------------------------------- MODULE Escrow --------------------------------
(***************************************************************************)
(* The whole system: ve-server (EscrowServer) and, at the other end of     *)
(* every connection, a ve-client: main() of client.cpp and the             *)
(* start_session() of ClientProcess, then the window, of which only the    *)
(* requests it sends and the answers it reads matter here (ClientUI has    *)
(* its threads).                                                           *)
(*                                                                         *)
(* TCP keeps the order of messages.  recv takes any number of those that   *)
(* are on the way; the first one is handled and the rest are lost.  Frames *)
(* are whole (MessageStream has the bytes).                                *)
(***************************************************************************)
EXTENDS EscrowServer, Sequences

CONSTANT MaxSent   \* bound on the requests a window sends

\* uuid_generate in the constructor of ClientProcess: each has an id of its own.
ASSUME ClientsAssumption ==
  /\ MaxSent \in Nat
  /\ \A c \in Conn : \E id \in ClientId : MayClaim[c] = {id}
  /\ \A c, d \in Conn : c # d => MayClaim[c] \cap MayClaim[d] = {}

VARIABLES
  client,             \* where main() of each ve-client is
  client_session_id,  \* its m_session_id, NoSession while m_session_set is false
  sent,               \* how many requests its window has sent
  toServer,           \* messages on the way to the server's process
  toClient            \* messages on the way to the client

clientVars == <<client, client_session_id, sent>>
wireVars   == <<toServer, toClient>>
systemVars == <<vars, clientVars, wireVars>>

ClientState ==
  {"down",     \* not connected
   "start",    \* start_session(): cmd_SessionStartRequest
   "wait",     \* start_session(): process_message, in poll without a timeout
   "recv",     \* start_session(): process_message, poll reported input
   "run",      \* the window
   "refused",  \* start_session() returned false
   "done",     \* main() returned
   "dead"}     \* Logger::fatal, or a signal

Request == {"start", "echo", "partners"}

SystemInit ==
  /\ Init
  /\ client = [c \in Conn |-> "down"]
  /\ client_session_id = [c \in Conn |-> NoSession]
  /\ sent = [c \in Conn |-> 0]
  /\ toServer = [c \in Conn |-> <<>>]
  /\ toClient = [c \in Conn |-> <<>>]

ClientGone(c) == client[c] \in {"done", "dead"}
ServerGone(c) == pc[c] \in {"exit", "dead"}

\* What recv leaves of the messages on the way.
AfterRecv(wire) == {SubSeq(wire, k, Len(wire)) : k \in 2 .. Len(wire) + 1}

-----------------------------------------------------------------------------
(* The server, with what its clients really send.                          *)

ServerMain(m) == MainStep(m) /\ UNCHANGED <<clientVars, wireVars>>

\* connect() and accept().
Connect(m, c) ==
  /\ Accept(m, c)
  /\ client[c] = "down"
  /\ client' = [client EXCEPT ![c] = "start"]
  /\ UNCHANGED <<client_session_id, sent, wireVars>>

PollMessage(c) ==
  /\ toServer[c] # <<>> \/ peer[c] = "fin"
  /\ PollInput(c)
  /\ UNCHANGED <<clientVars, wireVars>>

\* The server's recv of a message, and the handler its kind selects.
HandleRequest(c) ==
  /\ toServer[c] # <<>>
  /\ \/ Head(toServer[c]) = "start" /\ RecvSessionStartRequest(c)
     \/ Head(toServer[c]) = "echo" /\ RecvEchoRequest(c)
     \/ Head(toServer[c]) = "partners" /\ RecvPartnersRequest(c)
  /\ \E rest \in AfterRecv(toServer[c]) : toServer' = [toServer EXCEPT ![c] = rest]
  /\ UNCHANGED <<clientVars, toClient>>

\* Faulty form of SendAnswer: the message is cleared before it is written.
SendCleared(c) ==
  /\ WriteResponse(c)
  /\ toClient' = [toClient EXCEPT ![c] = Append(@, response'[c])]
  /\ UNCHANGED <<clientVars, toServer>>

SendAnswer(c) ==
  /\ WriteResponse(c)
  /\ toClient' = IF ClientGone(c) THEN toClient
                 ELSE [toClient EXCEPT ![c] = Append(@, response[c])]
  /\ UNCHANGED <<clientVars, toServer>>

\* The steps of the server's process that leave the wire alone.
ServerInternal(c) ==
  /\ \/ Statement(c) \/ StatementFails(c) \/ Opened(c)
     \/ PollHangup(c) \/ RecvClosed(c) \/ RecvError(c)
     \/ FoundDuplicate(c) \/ StartSession(c) \/ RecordSession(c)
     \/ ListPartners(c) \/ WriteFatal(c) \/ Cleanup(c)
  /\ UNCHANGED <<clientVars, wireVars>>

ServerStep(c) == PollMessage(c) \/ HandleRequest(c) \/ SendAnswer(c) \/ ServerInternal(c)

ServerKilled(c) == Kill(c) /\ UNCHANGED <<clientVars, wireVars>>

-----------------------------------------------------------------------------
(* ve-client.                                                              *)

GotoClient(c, from, to) ==
  /\ client[c] = from
  /\ client' = [client EXCEPT ![c] = to]

\* What is written to a process that has ended is lost.
Send(c, message) ==
  /\ peer[c] # "rst"
  /\ toServer' = IF ServerGone(c) THEN toServer
                 ELSE [toServer EXCEPT ![c] = Append(@, message)]

SendStart(c) ==
  /\ GotoClient(c, "start", "wait")
  /\ Send(c, "start")
  /\ UNCHANGED <<vars, client_session_id, sent, toClient>>

\* Faulty form of PollAnswer: the end of the server's process goes unnoticed.
PollAnswerOnly(c) ==
  /\ peer[c] # "rst" /\ toClient[c] # <<>>
  /\ GotoClient(c, "wait", "recv")
  /\ UNCHANGED <<vars, client_session_id, sent, wireVars>>

PollAnswer(c) ==
  /\ peer[c] # "rst" /\ (toClient[c] # <<>> \/ ServerGone(c))
  /\ GotoClient(c, "wait", "recv")
  /\ UNCHANGED <<vars, client_session_id, sent, wireVars>>

\* handle(SessionStartResponse): only OK sets m_session_id.
HandleAnswer(c) ==
  /\ client[c] = "recv" /\ toClient[c] # <<>>
  /\ IF Head(toClient[c]).error = "OK"
     THEN /\ client_session_id' =
               [client_session_id EXCEPT ![c] = Head(toClient[c]).session_id]
          /\ client' = [client EXCEPT ![c] = "run"]
     ELSE /\ client' = [client EXCEPT ![c] = "refused"]
          /\ UNCHANGED client_session_id
  /\ \E rest \in AfterRecv(toClient[c]) : toClient' = [toClient EXCEPT ![c] = rest]
  /\ UNCHANGED <<vars, sent, toServer>>

\* Faulty form of StartFails: start_session() returns true.
StartFailsUnseen(c) ==
  /\ \/ peer[c] = "rst" /\ GotoClient(c, "wait", "run")
     \/ /\ peer[c] # "rst" /\ toClient[c] = <<>> /\ ServerGone(c)
        /\ GotoClient(c, "recv", "run")
  /\ UNCHANGED <<vars, client_session_id, sent, wireVars>>

\* process_message() returned false: POLLHUP, or recv returned 0.
StartFails(c) ==
  /\ \/ peer[c] = "rst" /\ GotoClient(c, "wait", "refused")
     \/ /\ peer[c] # "rst" /\ toClient[c] = <<>> /\ ServerGone(c)
        /\ GotoClient(c, "recv", "refused")
  /\ UNCHANGED <<vars, client_session_id, sent, wireVars>>

\* The requests of the window, and the answers its socket thread takes.
SendRequest(c) ==
  /\ client[c] = "run" /\ sent[c] < MaxSent
  /\ sent' = [sent EXCEPT ![c] = @ + 1]
  /\ \E message \in {"echo", "partners"} : Send(c, message)
  /\ UNCHANGED <<vars, client, client_session_id, toClient>>

RecvAnswer(c) ==
  /\ client[c] = "run" /\ toClient[c] # <<>>
  /\ \E rest \in AfterRecv(toClient[c]) : toClient' = [toClient EXCEPT ![c] = rest]
  /\ UNCHANGED <<vars, clientVars, toServer>>

\* The end of main(), of the window or after a start_session() that failed.
Leave(c) ==
  /\ client[c] \in {"run", "refused"}
  /\ client' = [client EXCEPT ![c] = "done"]
  /\ toClient' = [toClient EXCEPT ![c] = <<>>]
  /\ UNCHANGED <<vars, client_session_id, sent, toServer>>

ClientEnds(c) ==
  /\ client' = [client EXCEPT ![c] = "dead"]
  /\ toClient' = [toClient EXCEPT ![c] = <<>>]
  /\ UNCHANGED <<vars, client_session_id, sent, toServer>>

\* SIGPIPE, or recv returned -1: a reset that start_session() met too late.
ClientFatal(c) == peer[c] = "rst" /\ client[c] \in {"start", "recv"} /\ ClientEnds(c)

\* kill, a crash; the fatal errors of the window.
ClientKilled(c) == client[c] \in {"start", "wait", "recv", "run"} /\ ClientEnds(c)

-----------------------------------------------------------------------------
(* The network.                                                            *)

\* The client's end is closed; the server reads what was sent, then the end.
Closed(c) ==
  /\ ClientGone(c) /\ toServer[c] = <<>>
  /\ PeerCloses(c)
  /\ UNCHANGED <<clientVars, wireVars>>

Reset(c) ==
  /\ PeerResets(c)
  /\ toServer' = [toServer EXCEPT ![c] = <<>>]
  /\ toClient' = [toClient EXCEPT ![c] = <<>>]
  /\ UNCHANGED clientVars

-----------------------------------------------------------------------------
ClientStep(c) ==
  \/ SendStart(c) \/ PollAnswer(c) \/ HandleAnswer(c) \/ StartFails(c) \/ ClientFatal(c)

SystemNext ==
  \/ \E m \in Main : ServerMain(m) \/ \E c \in Conn : Connect(m, c)
  \/ \E c \in Conn :
       \/ ServerStep(c) \/ ServerKilled(c)
       \/ ClientStep(c) \/ SendRequest(c) \/ RecvAnswer(c) \/ Leave(c) \/ ClientKilled(c)
       \/ Closed(c) \/ Reset(c)

System == SystemInit /\ [][SystemNext]_systemVars

\* The operating systems run both processes of a connection and bring the end
\* of one to the other.  A ve-client reads what it is sent, so that no write of
\* the server blocks for ever.  The window may stay open for ever.
SystemFairness ==
  \A c \in Conn :
    /\ WF_systemVars(ServerStep(c))
    /\ WF_systemVars(ClientStep(c))
    /\ WF_systemVars(Closed(c))

FairSystem == System /\ SystemFairness

-----------------------------------------------------------------------------
(* Properties                                                              *)

Messages == Response \ {NoResponse}

\* Types of the state of ve-client and of the messages on the way.
SystemTypeOK ==
  /\ client \in [Conn -> ClientState]
  /\ client_session_id \in [Conn -> SessionOrNone]
  /\ sent \in [Conn -> 0 .. MaxSent]
  /\ toServer \in [Conn -> Seq(Request)]
  /\ toClient \in [Conn -> Seq(Messages)]

\* A client that shows its window was told of the very session the server's
\* process has: the one answer that process_message takes in start_session()
\* is that of the SessionStartRequest, and it says OK.
ClientKnowsSession ==
  \A c \in Conn :
    client[c] = "run" => m_connected[c] /\ client_session_id[c] = m_session_id[c]

\* The answer is written after the INSERT: while the window is shown and the
\* server's process serves it, the client is listed for the others, unless the
\* server was launched again.
RunningIsListed ==
  \A c \in Conn :
    client[c] = "run" /\ pc[c] \in {"poll", "recv", "list", "write"} =>
      OwnRow(c) \in sessions \/ launches > 1

\* Between clients with ids of their own nobody is refused, and nobody is told
\* twice to start: a row another process left behind is never of one's own id.
NobodyIsRefused ==
  \A c \in Conn : response[c].kind = "session" => response[c].error = "OK"

\* "Client with this ID is already connected, disconnecting": what main() says
\* when start_session() returned false.
RefusedIsConnected ==
  \A c \in Conn : client[c] = "refused" =>
    \E d \in Conn \ {c} : m_connected[d] /\ m_client_id[d] \in MayClaim[c]

\* start_session() "blocks until we get a SessionStartResponse": it returns, or
\* the client ends, also when the server's process ends before it answers, or the
\* connection is lost or reset; the messages that arrive are whole.
StartSessionEnds ==
  \A c \in Conn : client[c] \in {"start", "wait", "recv"}
                  ~> client[c] \in {"run", "refused", "done", "dead"}

\* A client that has left, in order or not, is not listed for ever, unless the
\* server's process dies before its DELETE.
ClientsAreForgotten ==
  \A c \in Conn : (ClientGone(c) /\ m_connected[c])
                  ~> (OwnRow(c) \notin sessions \/ pc[c] = "dead")

-----------------------------------------------------------------------------
(* The clients and their sessions as Handshake sees them.                  *)

StageOf(state) ==
  CASE state \in {"down", "start"}           -> "away"
    [] state \in {"wait", "recv"}            -> "asking"
    [] state = "run"                         -> "in"
    [] state \in {"refused", "done", "dead"} -> "over"

Shake == INSTANCE Handshake WITH
           stage   <- [c \in Conn |-> StageOf(client[c])],
           granted <- m_session_id,
           known   <- client_session_id

\* start_session(), handle(SessionStartRequest) and handle(SessionStartResponse)
\* implement Handshake, whichever of the two processes ends first and whatever
\* becomes of the messages.
ImplementsHandshake == Shake!Spec
=============================================================================

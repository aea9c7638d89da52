---------------------------- MODULE EscrowServer ----------------------------
(***************************************************************************)
(* ve-server: the accepting process (server.cpp) and the process it forks  *)
(* for every connection (ServerProcess), which meet only in the sessions   *)
(* table of ServerDatabase.                                                *)
(*                                                                         *)
(* The peer at the other end of a connection is free: it may send any      *)
(* message at any time, close, or reset the connection.  What it sends is  *)
(* chosen when the server reads it, so bytes that recv merges into one     *)
(* message and loses are here bytes that were never sent.                  *)
(***************************************************************************)
EXTENDS ServerDatabase, FiniteSets

CONSTANTS
  Conn,         \* connections; also the process forked for each
  Main,         \* instances of the accepting process
  MayClaim,     \* MayClaim[c]: the client ids the peer of c may start with
  MaxListed,    \* partners that fit one frame (55 for the sizes in messageformat.h)
  MaxLaunches,  \* bound on how often the accepting process is launched
  NoClient,     \* m_client_id before it is assigned
  NoSession     \* m_session_id before it is assigned

ASSUME ServerAssumption ==
  /\ Process = Conn \cup Main
  /\ Conn \cap Main = {}
  /\ MayClaim \in [Conn -> SUBSET ClientId]
  /\ MaxListed \in Nat
  /\ MaxLaunches \in Nat
  /\ NoClient \notin ClientId
  /\ NoSession \notin SessionId

VARIABLES
  main,          \* where main() of each instance is
  launches,      \* how many instances have been launched so far
  pc,            \* where the process of each connection is
  peer,          \* the peer's end of the connection, as poll and recv report it
  m_connected,
  m_client_id,
  m_session_id,
  response       \* the message handed to socket_write_message

mainVars    == <<main, launches>>
sessionVars == <<m_connected, m_client_id, m_session_id>>
childVars   == <<pc, peer, sessionVars, response>>
vars        == <<dbVars, mainVars, childVars>>

MainState == {"down", "open", "clean", "bind", "accept"}

ChildState ==
  {"idle",     \* no connection yet
   "open",     \* run(): db.open()
   "poll",     \* process_message(): in poll
   "recv",     \* process_message(): poll reported input
   "check",    \* handle(SessionStartRequest): SELECT of a duplicate session
   "insert",   \* handle(SessionStartRequest): INSERT of the new session
   "list",     \* handle(AvailableTradePartnersRequest): SELECT of the others
   "write",    \* socket_write_message()
   "cleanup",  \* run(): DELETE of the session
   "exit",     \* run() returned
   "dead"}     \* Logger::fatal, or killed by a signal

SessionStartError == {"OK", "CLIENT_ALREADY_CONNECTED", "SESSION_STARTED"}

SessionStartResponse ==
  [kind : {"session"}, error : SessionStartError, session_id : SessionId]
PartnersResponse == [kind : {"partners"}, client_ids : SUBSET ClientId]
EchoResponse == [kind |-> "echo"]
NoResponse   == [kind |-> "none"]

Response == SessionStartResponse \cup PartnersResponse \cup {EchoResponse, NoResponse}

Init ==
  /\ DbInit
  /\ main = [m \in Main |-> "down"]
  /\ launches = 0
  /\ pc = [c \in Conn |-> "idle"]
  /\ peer = [c \in Conn |-> "none"]
  /\ m_connected = [c \in Conn |-> FALSE]
  /\ m_client_id = [c \in Conn |-> NoClient]
  /\ m_session_id = [c \in Conn |-> NoSession]
  /\ response = [c \in Conn |-> NoResponse]

-----------------------------------------------------------------------------
(* server.cpp: main()                                                      *)

GotoMain(m, from, to) ==
  /\ main[m] = from
  /\ main' = [main EXCEPT ![m] = to]

Launch(m) ==
  /\ launches < MaxLaunches
  /\ launches' = launches + 1
  /\ GotoMain(m, "down", "open")
  /\ UNCHANGED <<dbVars, childVars>>

\* The locks a statement of m takes before it takes effect.
MainStatement(m) ==
  /\ \/ main[m] \in {"open", "clean"} /\ Shared(m)
     \/ main[m] = "clean" /\ Reserve(m)
  /\ UNCHANGED <<mainVars, childVars>>

\* CREATE TABLE IF NOT EXISTS, on a file whose table exists.
MainOpened(m) ==
  /\ GotoMain(m, "open", "clean")
  /\ EndRead(m)
  /\ UNCHANGED <<launches, childVars>>

Clean(m) ==
  /\ GotoMain(m, "clean", "bind")
  /\ DeleteAll(m)
  /\ UNCHANGED <<launches, childVars>>

\* The port is an argument: bind may find it taken or free.
Bind(m) ==
  /\ \/ GotoMain(m, "bind", "accept")
     \/ GotoMain(m, "bind", "down")
  /\ UNCHANGED <<launches, dbVars, childVars>>

\* Logger::fatal out of a failed statement.
MainStatementFails(m) ==
  /\ \/ main[m] = "open" /\ ReadFails(m)
     \/ main[m] = "clean" /\ WriteFails(m)
  /\ main' = [main EXCEPT ![m] = "down"]
  /\ Abandon(m)
  /\ UNCHANGED <<launches, childVars>>

\* The accepting process is stopped, or a failed accept or fork ends it.  The
\* processes it forked go on.
StopMain(m) ==
  /\ main[m] # "down"
  /\ main' = [main EXCEPT ![m] = "down"]
  /\ Abandon(m)
  /\ UNCHANGED <<launches, childVars>>

Accept(m, c) ==
  /\ main[m] = "accept"
  /\ pc[c] = "idle"
  /\ pc' = [pc EXCEPT ![c] = "open"]
  /\ peer' = [peer EXCEPT ![c] = "open"]
  /\ UNCHANGED <<dbVars, mainVars, sessionVars, response>>

-----------------------------------------------------------------------------
(* The peer.  "fin": it closed and everything it sent has been read.       *)
(* "rst": the connection was reset.                                        *)

PeerCloses(c) ==
  /\ peer[c] = "open"
  /\ peer' = [peer EXCEPT ![c] = "fin"]
  /\ UNCHANGED <<dbVars, mainVars, pc, sessionVars, response>>

PeerResets(c) ==
  /\ peer[c] \in {"open", "fin"}
  /\ peer' = [peer EXCEPT ![c] = "rst"]
  /\ UNCHANGED <<dbVars, mainVars, pc, sessionVars, response>>

-----------------------------------------------------------------------------
(* server-process.cpp, BaseProcess.tpp: the process of connection c.       *)

Goto(c, from, to) ==
  /\ pc[c] = from
  /\ pc' = [pc EXCEPT ![c] = to]

Prepare(c, message) == response' = [response EXCEPT ![c] = message]

\* exit(1) out of Logger::fatal, or death by a signal: run() does not reach
\* its DELETE.
Die(c) ==
  /\ pc' = [pc EXCEPT ![c] = "dead"]
  /\ Prepare(c, NoResponse)
  /\ Abandon(c)
  /\ UNCHANGED <<mainVars, peer, sessionVars>>

ReadStates  == {"open", "check", "list"}
WriteStates == {"insert", "cleanup"}

\* The locks a statement of c takes before it takes effect.
Statement(c) ==
  /\ \/ pc[c] \in ReadStates \cup WriteStates /\ Shared(c)
     \/ pc[c] \in WriteStates /\ Reserve(c)
  /\ UNCHANGED <<mainVars, childVars>>

\* A process whose m_str_client_id was never assigned formats whatever bytes
\* it holds into its DELETE: the statement may be malformed.
StatementFails(c) ==
  /\ \/ pc[c] \in ReadStates /\ ReadFails(c)
     \/ pc[c] \in WriteStates /\ WriteFails(c)
     \/ pc[c] = "insert" /\ UniqueViolated(c, m_client_id[c])
     \/ pc[c] = "cleanup" /\ m_client_id[c] = NoClient
  /\ Die(c)

Opened(c) ==
  /\ Goto(c, "open", "poll")
  /\ EndRead(c)
  /\ UNCHANGED <<mainVars, peer, sessionVars, response>>

\* Faulty form of PollHangup: POLLHUP and POLLERR go unnoticed.
PollIgnoresHangup(c) == Goto(c, "poll", "poll") /\ UNCHANGED vars

PollHangup(c) ==
  /\ peer[c] = "rst"
  /\ Goto(c, "poll", "cleanup")
  /\ UNCHANGED <<dbVars, mainVars, peer, sessionVars, response>>

PollInput(c) ==
  /\ peer[c] \in {"open", "fin"}
  /\ Goto(c, "poll", "recv")
  /\ UNCHANGED <<dbVars, mainVars, peer, sessionVars, response>>

RecvClosed(c) ==
  /\ peer[c] = "fin"
  /\ Goto(c, "recv", "cleanup")
  /\ UNCHANGED <<dbVars, mainVars, peer, sessionVars, response>>

\* The connection was reset after poll reported input: recv returns -1.
RecvError(c) ==
  /\ pc[c] = "recv"
  /\ peer[c] = "rst"
  /\ Die(c)

\* An unknown message id, a body that does not parse, a response kind.
RecvIgnored(c) ==
  /\ peer[c] = "open"
  /\ Goto(c, "recv", "poll")
  /\ UNCHANGED <<dbVars, mainVars, peer, sessionVars, response>>

RecvEchoRequest(c) ==
  /\ peer[c] = "open"
  /\ Goto(c, "recv", "write")
  /\ Prepare(c, EchoResponse)
  /\ UNCHANGED <<dbVars, mainVars, peer, sessionVars>>

RecvPartnersRequest(c) ==
  /\ peer[c] = "open"
  /\ Goto(c, "recv", "list")
  /\ UNCHANGED <<dbVars, mainVars, peer, sessionVars, response>>

SessionAnswer(error, s) == [kind |-> "session", error |-> error, session_id |-> s]

\* "message out of order?": the session this connection already has is told
\* again.
RecvStartAgain(c) ==
  /\ m_connected[c]
  /\ Goto(c, "recv", "write")
  /\ Prepare(c, SessionAnswer("SESSION_STARTED", m_session_id[c]))
  /\ UNCHANGED sessionVars

\* Faulty form of RecvStartFirst: m_connected is not looked at.
RecvStartUnguarded(c) ==
  /\ Goto(c, "recv", "check")
  /\ \E id \in MayClaim[c] : m_client_id' = [m_client_id EXCEPT ![c] = id]
  /\ UNCHANGED <<m_connected, m_session_id, response>>

RecvStartFirst(c) ==
  /\ ~m_connected[c]
  /\ Goto(c, "recv", "check")
  /\ \E id \in MayClaim[c] : m_client_id' = [m_client_id EXCEPT ![c] = id]
  /\ UNCHANGED <<m_connected, m_session_id, response>>

RecvSessionStartRequest(c) ==
  /\ peer[c] = "open"
  /\ RecvStartAgain(c) \/ RecvStartFirst(c)
  /\ UNCHANGED <<dbVars, mainVars, peer>>

\* The SELECT found a row: the client is a duplicate.
FoundDuplicate(c) ==
  /\ \E r \in RowsOf(m_client_id[c]) :
       Prepare(c, SessionAnswer("CLIENT_ALREADY_CONNECTED", r.session_id))
  /\ Goto(c, "check", "write")
  /\ EndRead(c)
  /\ UNCHANGED <<mainVars, peer, sessionVars>>

\* uuid_generate: a session id no process has.
FreshSession == SessionId \ {m_session_id[d] : d \in Conn}

\* Faulty form of StartSession: the client is answered before the INSERT.
StartUnrecorded(c) ==
  /\ RowsOf(m_client_id[c]) = {}
  /\ \E s \in FreshSession :
       /\ m_session_id' = [m_session_id EXCEPT ![c] = s]
       /\ Prepare(c, SessionAnswer("OK", s))
  /\ m_connected' = [m_connected EXCEPT ![c] = TRUE]
  /\ Goto(c, "check", "write")
  /\ EndRead(c)
  /\ UNCHANGED <<mainVars, peer, m_client_id>>

\* The SELECT found none: start_session().
StartSession(c) ==
  /\ RowsOf(m_client_id[c]) = {}
  /\ \E s \in FreshSession :
       /\ m_session_id' = [m_session_id EXCEPT ![c] = s]
       /\ Prepare(c, SessionAnswer("OK", s))
  /\ m_connected' = [m_connected EXCEPT ![c] = TRUE]
  /\ Goto(c, "check", "insert")
  /\ EndRead(c)
  /\ UNCHANGED <<mainVars, peer, m_client_id>>

RecordSession(c) ==
  /\ Goto(c, "insert", "write")
  /\ Insert(c, m_client_id[c], m_session_id[c])
  /\ UNCHANGED <<mainVars, peer, sessionVars, response>>

\* Faulty forms of OtherClients: the wrong column; no WHERE clause.
OtherSessions(c) == {r.session_id : r \in sessions \ RowsOf(m_client_id[c])}
AllClients(c)    == {r.client_id : r \in sessions}

\* SELECT client_id FROM sessions WHERE client_id != own
OtherClients(c) == {r.client_id : r \in sessions \ RowsOf(m_client_id[c])}

\* Faulty form of ListPartners: the statement is left unfinished when the rows
\* have been read.
ListUnfinished(c) ==
  /\ Goto(c, "list", "write")
  /\ lock[c] = "shared"
  /\ Prepare(c, [kind |-> "partners", client_ids |-> OtherClients(c)])
  /\ UNCHANGED <<dbVars, mainVars, peer, sessionVars>>

ListPartners(c) ==
  /\ Goto(c, "list", "write")
  /\ Prepare(c, [kind |-> "partners", client_ids |-> OtherClients(c)])
  /\ EndRead(c)
  /\ UNCHANGED <<mainVars, peer, sessionVars>>

\* Bodies of up to MaxListed ids fit MessageWrapper.body.  One more id still
\* serializes into the 1024-byte buffer but is copied past the end of the
\* body, which may or may not end the process; more than that is a fatal error.
ListedIn(message) ==
  IF message.kind = "partners" THEN Cardinality(message.client_ids) ELSE 0

WriteResponse(c) ==
  /\ peer[c] \in {"open", "fin"}
  /\ ListedIn(response[c]) <= MaxListed + 1
  /\ Goto(c, "write", "poll")
  /\ Prepare(c, NoResponse)
  /\ UNCHANGED <<dbVars, mainVars, peer, sessionVars>>

\* SIGPIPE on a connection that was reset, or a frame that does not fit.
WriteFatal(c) ==
  /\ pc[c] = "write"
  /\ peer[c] = "rst" \/ ListedIn(response[c]) > MaxListed
  /\ Die(c)

\* Faulty form of Cleanup: the DELETE is inside the loop of run().
CleanupInLoop(c) ==
  /\ Goto(c, "cleanup", "poll")
  /\ Delete(c, m_client_id[c])
  /\ UNCHANGED <<mainVars, peer, sessionVars, response>>

\* With m_str_client_id never assigned, the WHERE clause matches no row.
Cleanup(c) ==
  /\ Goto(c, "cleanup", "exit")
  /\ Delete(c, m_client_id[c])
  /\ UNCHANGED <<mainVars, peer, sessionVars, response>>

\* kill, out of memory, a crash.
Kill(c) ==
  /\ pc[c] \notin {"idle", "exit", "dead"}
  /\ Die(c)

-----------------------------------------------------------------------------
MainStep(m) ==
  \/ Launch(m) \/ MainStatement(m) \/ MainStatementFails(m)
  \/ MainOpened(m) \/ Clean(m) \/ Bind(m) \/ StopMain(m)

Receive(c) ==
  \/ RecvClosed(c) \/ RecvError(c) \/ RecvIgnored(c)
  \/ RecvEchoRequest(c) \/ RecvPartnersRequest(c) \/ RecvSessionStartRequest(c)

ChildStep(c) ==
  \/ Statement(c) \/ StatementFails(c) \/ Opened(c)
  \/ PollHangup(c) \/ PollInput(c) \/ Receive(c)
  \/ FoundDuplicate(c) \/ StartSession(c) \/ RecordSession(c)
  \/ ListPartners(c) \/ WriteResponse(c) \/ WriteFatal(c) \/ Cleanup(c)

Environment(c) == PeerCloses(c) \/ PeerResets(c) \/ Kill(c)

Next ==
  \/ \E m \in Main : MainStep(m)
  \/ \E m \in Main, c \in Conn : Accept(m, c)
  \/ \E c \in Conn : ChildStep(c) \/ Environment(c)

Spec == Init /\ [][Next]_vars

\* The operating system runs every process.  A peer that stays connected and
\* does not read may block a write for ever, so progress is assumed of a
\* process only once its peer is gone.
Fairness == \A c \in Conn : WF_vars(peer[c] # "open" /\ ChildStep(c))

FairSpec == Spec /\ Fairness

-----------------------------------------------------------------------------
(* Properties                                                              *)

ClientOrNone  == ClientId \cup {NoClient}
SessionOrNone == SessionId \cup {NoSession}

\* Types of the state of server.cpp's main() and of every ServerProcess.
TypeOK ==
  /\ DbTypeOK
  /\ main \in [Main -> MainState]
  /\ launches \in Nat
  /\ pc \in [Conn -> ChildState]
  /\ peer \in [Conn -> {"none", "open", "fin", "rst"}]
  /\ m_connected \in [Conn -> BOOLEAN]
  /\ m_client_id \in [Conn -> ClientOrNone]
  /\ m_session_id \in [Conn -> SessionOrNone]
  /\ response \in [Conn -> Response]

OwnRow(c) == [client_id |-> m_client_id[c], session_id |-> m_session_id[c]]

\* The processes that are at a statement that reads, at one that writes.
AtRead  == {m \in Main : main[m] = "open"} \cup {c \in Conn : pc[c] \in ReadStates}
AtWrite == {m \in Main : main[m] = "clean"} \cup {c \in Conn : pc[c] \in WriteStates}

\* Nobody waits for a lock, so one that is kept too long ends other processes.
\* A process in poll, in recv or in write, or one that has ended in whatever
\* way, holds none: every handler is through with its statements before it
\* writes, and only a statement that writes is RESERVED.
LocksAreStatements ==
  /\ \A p \in Process : lock[p] # "none" => p \in AtRead \cup AtWrite
  /\ \A p \in Process : lock[p] = "reserved" => p \in AtWrite

\* The process has recorded its session and is serving its client.
Serving(c) == m_connected[c] /\ pc[c] \in {"poll", "recv", "list", "write"}

\* Every row of sessions is the row of a process that started that session and
\* has not shut down in order: the DELETE that run() ends with leaves nothing
\* behind, whatever other processes did in between, and a row outlives its
\* process only when the process died before that DELETE.
RowsHaveOwners ==
  \A r \in sessions : \E c \in Conn :
    m_connected[c] /\ r = OwnRow(c) /\ pc[c] \notin {"insert", "exit"}

\* The SELECT and the INSERT of handle(SessionStartRequest) are two statements:
\* whatever runs between them, no two processes own a row for one client.
OneRowPerClient ==
  \A c, d \in Conn :
    /\ c # d
    /\ m_connected[c] /\ OwnRow(c) \in sessions
    /\ m_connected[d] /\ OwnRow(d) \in sessions
    => m_client_id[c] # m_client_id[d] /\ m_session_id[c] # m_session_id[d]

\* The session named by a CLIENT_ALREADY_CONNECTED answer was started for the
\* same client by another process, never by the one that answers.
RejectionNamesAnother ==
  \A c \in Conn :
    (response[c].kind = "session" /\ response[c].error = "CLIENT_ALREADY_CONNECTED")
    => \E d \in Conn \ {c} :
         /\ m_connected[d]
         /\ m_client_id[d] = m_client_id[c]
         /\ m_session_id[d] = response[c].session_id

\* A list of trade partners names clients whose sessions were started by other
\* processes than the one that answers, and never the asking client itself.
PartnersAreOthers ==
  \A c \in Conn :
    response[c].kind = "partners" =>
      \A id \in response[c].client_ids :
        /\ id # m_client_id[c]
        /\ \E d \in Conn \ {c} : m_connected[d] /\ m_client_id[d] = id

\* Between its SELECT and the write a list of trade partners may become stale, in
\* two ways only: the accepting process was launched again, or a process that
\* claimed the missing id has shut down in order.  A list never lacks a reason
\* for naming a client that is not in the table.
StalePartnersHaveLeft ==
  \A c \in Conn :
    response[c].kind = "partners" =>
      \A id \in response[c].client_ids :
        \/ RowsOf(id) # {}
        \/ launches > 1
        \/ \E e \in Conn : pc[e] = "exit" /\ m_client_id[e] = id

\* Once a connection has a session, no later message changes its client id or
\* its session id, and it stays connected.
SessionIsKept ==
  [][\A c \in Conn : m_connected[c] =>
       /\ m_connected'[c]
       /\ m_client_id'[c] = m_client_id[c]
       /\ m_session_id'[c] = m_session_id[c]]_vars

\* A process that refused its client, and has shut down in order since.
RefusedAndLeft(e) == ~m_connected[e] /\ pc[e] = "exit"

\* While a process serves its client, and until its own DELETE, the client is
\* listed.  Its row can vanish earlier in two ways only: the accepting process
\* was launched again, or another connection claimed the same client id, was
\* refused, and on its way out deleted the row of the session that refused it.
ServedAreListed ==
  \A c \in Conn :
    (Serving(c) \/ (m_connected[c] /\ pc[c] = "cleanup")) =>
      \/ OwnRow(c) \in sessions
      \/ launches > 1
      \/ \E e \in Conn : RefusedAndLeft(e) /\ m_client_id[e] = m_client_id[c]

\* The claim of "check for duplicate session": no two connections are being
\* served a session for the same client.
NoDuplicateSession ==
  \A c, d \in Conn :
    c # d /\ Serving(c) /\ Serving(d) => m_client_id[c] # m_client_id[d]

\* What is true of that claim: two connections are served for one client only
\* after a refused one cleared the table, or the accepting process was launched
\* again; the race of two SELECTs before two INSERTs never gives two sessions.
DuplicatesFollowRefusal ==
  \A c, d \in Conn :
    c # d /\ Serving(c) /\ Serving(d) /\ m_client_id[c] = m_client_id[d] =>
      \/ launches > 1
      \/ \E e \in Conn : RefusedAndLeft(e) /\ m_client_id[e] = m_client_id[c]

\* The claim of "remove any sessions from previous runs": while a server keeps
\* accepting, no session that is being served is removed from the table.
CleanSparesRunning ==
  [][\A m \in Main, c \in Conn :
       /\ main[m] = "accept" /\ main'[m] = "accept"
       /\ Serving(c) /\ Serving(c)'
       /\ OwnRow(c) \in sessions
       => OwnRow(c) \in sessions']_vars

\* When the peer of a started session is gone, its row is removed, unless the
\* process died on the way to its DELETE.
DisconnectCleansUp ==
  \A c \in Conn :
    (m_connected[c] /\ peer[c] \in {"fin", "rst"})
    ~> (OwnRow(c) \notin sessions \/ pc[c] = "dead")

-----------------------------------------------------------------------------
(* The sessions as SessionRegistry sees them.                              *)

Started(s) == {c \in Conn : m_session_id[c] = s}

PhaseOf(s) ==
  CASE \E r \in sessions : r.session_id = s    -> "registered"
    [] \E c \in Started(s) : pc[c] = "insert" -> "issued"
    [] Started(s) = {}                        -> "unused"
    [] OTHER                                  -> "retired"

HolderOf(s) ==
  IF Started(s) = {} THEN NoClient ELSE m_client_id[CHOOSE c \in Started(s) : TRUE]

Registry == INSTANCE SessionRegistry WITH
  phase  <- [s \in SessionId |-> PhaseOf(s)],
  holder <- [s \in SessionId |-> HolderOf(s)]

\* The server implements SessionRegistry.
ImplementsRegistry == Registry!Spec
=============================================================================

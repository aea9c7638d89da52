# Verification of virtual-escrow

TLA+ models of ve-server and ve-client, TLC configurations that check them on
small instances, and TLAPS proofs of the properties that matter most for every
instance.  Paths are relative to `src/`.

    tlc -config EscrowServer_two.cfg MCEscrowServer      # a run
    tlapm EscrowProofs.tla                               # the proofs of a module

## 1. The system

ve-server accepts TCP connections and forks a process for each one.  A client
starts a *session* for its client id (a uuid); the server records it as a row of
the table `sessions` in an SQLite file, refuses a second session for the same id,
tells a client which other clients have one, and deletes the row when the client
leaves.  ve-client opens the connection, starts its session and runs a window with
two threads: one for FLTK, one for the socket.

| component | state it keeps | operations |
|---|---|---|
| accepting server process, `server.cpp` | where `main()` is; the listening socket | `clean`, `bind`, `accept`, `fork` |
| `ServerProcess`, `server/server-process.*` (one operating system process per connection) | `m_connected`, `m_client_id`, `m_str_client_id`, `m_session_id`, the socket, a connection to the database | `run`, one `handle` per message, `set_client_id`, `start_session` |
| `ServerDatabase`, `server/server-db.*` | the table `sessions`, in a file shared by all processes | `open`, `exec`, `exec_with_results`, `clean`, `close` |
| `BaseProcess`, `shared/BaseProcess.tpp` | `m_callbacks`, `m_sock_fd` | `process_message`, `message_dispatch`, `socket_write_message`, `add_callback`, `invoke_callback` |
| message framing, `shared/shared.cpp`, `shared/messageformat.h` | none | protobuf to `MessageWrapper` and back, to and from a buffer of 1024 bytes |
| `ClientUI`, `client/client-ui.*` | `m_running`, the widgets, the socket thread | `run`, `socket_thread`, callbacks of widgets and answers |
| `ClientProcess`, `client/client-process.*` | client and session id, `m_connected`, the inventory | `start_session`, `cmd_EchoRequest`, `cmd_AvailableTradePartnersRequest` |
| client main, `client.cpp` | none | connect, start a session, run the window |
| inventory, `shared/virtualitems.*` | a list of items filled once at random | generate, read |
| `Logger`, `shared/Logger.tpp` | none | `fatal` ends the process, `warn` and `info` print |

How they interact: client and server processes exchange frames over TCP; a server
process answers the requests of its client one at a time.  Server processes share
no memory: they meet only in the `sessions` table, under SQLite's file locks.  The
two threads of the client share everything: FLTK's global lock guards the widgets,
nothing guards `m_callbacks`, `m_running` or the socket.

What is hard in it:

- Every decision of a server process is *several* SQL statements, and those of
  other processes run in between.  No busy handler is installed, so statements that
  overlap make one of them fail, and `exec` turns every failure into `exit(1)`:
  a process may end between any two steps of its session.
- The cleanup of a session is at the end of `run()`, and is skipped by `exit(1)`,
  SIGPIPE and signals.  It deletes by *client id*, which a refused connection has too.
- The peer may send any message at any time, in any order, close, or be reset while
  a handler runs.
- In the client, an answer may arrive before its callback is registered; the
  connection may be lost, or the window closed, while a callback waits for the lock.

What makes each component correct:

- sessions: one row per client; a row has an owner; a served client is listed; a
  refusal is true, and so is a list of partners when it is read; a session never changes;
  who leaves is removed.
- client: only one thread at a time changes the widgets, and none while they are torn
  down; an answer finds its callback; closing the window and losing the connection
  end both threads.
- framing: what is framed fits, and is what is read back; a message is lost, or bytes
  are misread, only for a cause one can name.
- client and server together: a client that shows its window knows the session the
  server's process has, and is listed; `start_session` ends; a client that left is
  forgotten.

`PROJECT.json` lists the hazards behind these, each at its line.

## 2. Modules

| module | what it is |
|---|---|
| `ServerDatabase` | the table and the file lock; each statement as steps of the process that runs it |
| `EscrowServer` | `EXTENDS ServerDatabase`: the accepting process and a `ServerProcess` for every connection; its peers are free |
| `SessionRegistry` | abstract specification of `EscrowServer`: the life of a session id, without processes or statements |
| `Escrow` | `EXTENDS EscrowServer`: the whole system, with a ve-client and two streams of messages at every connection |
| `Handshake` | abstract specification of `Escrow`: what a client and its server's process come to agree on, without messages |
| `Framing` | the sizes of frames and of protobuf bodies, and where they overflow |
| `MessageStream` | `EXTENDS Framing`: one direction of a connection, byte for byte |
| `LossyChannel` | abstract specification of `MessageStream`: messages in order, some of them lost, without bytes |
| `ClientUI` | the two threads of ve-client, FLTK's lock, the connection |
| `Callbacks` | abstract specification of `ClientUI`: the life of a request and its callback, without threads or locks |
| `MCEscrowServer`, `MCEscrow`, `MCMessageStream` | what TLC needs to run them: who may claim which id, symmetry, sizes of lists |
| `EscrowServerProofs`, `RegistryProofs`, `EscrowProofs`, `SystemProofs` | theorems about the server and the system |
| `MessageStreamProofs` | theorems about `Framing` and `MessageStream` |
| `ClientUIProofs`, `CallbackProofs` | theorems about `ClientUI` |
| `PromiseProofs` | what follows from `SessionRegistry`, `Handshake` and `Callbacks` themselves |

### ServerDatabase

A statement is a transaction: a read takes SHARED (`Shared`) and returns it with
its result (`EndRead`); a write takes SHARED, RESERVED (`Reserve`) and commits
(`Commit`).  The values a statement reads are those at its last step, which are those
at its first too: no other process can `Commit` while one holds SHARED.  What makes
a statement fail is the lock another process holds: `SharedBusy`, `ReserveBusy`,
`CommitBusy`.  PENDING and EXCLUSIVE, which a process holds for the length of its
commit, are not states: a reader that meets them is refused, and `SharedBusy` allows
that whenever another process is RESERVED.  The code never waits for a lock: at each
step a statement goes on or fails.  `Abandon` is the kernel dropping the locks of a
process that ends, with what it had not committed.  SQLite itself is vendored code; only its locks are described.

### EscrowServer

`pc[c]` says where the process of connection `c` is.  Program text and action:

| code | actions |
|---|---|
| `main`: `clean()` (`open`, `DELETE FROM sessions`), `bind`, `accept` and `fork`; a failed statement, `bind`, `accept` or `fork` | `Launch`, `MainStatement`, `MainOpened`, `Clean`, `Bind`, `Accept`; `MainStatementFails`, `StopMain` |
| `run`: `db.open()` | `Opened` |
| `process_message`: `poll` with POLLHUP, with input; `recv` returning 0, -1 | `PollHangup`, `PollInput`, `RecvClosed`, `RecvError` |
| `message_dispatch` of what no handler answers | `RecvIgnored` |
| `handle(EchoRequest)` | `RecvEchoRequest`, `WriteResponse` |
| `handle(AvailableTradePartnersRequest)` | `RecvPartnersRequest`, `ListPartners`, `WriteResponse` |
| `handle(SessionStartRequest)` | `RecvStartAgain`, or `RecvStartFirst` then `FoundDuplicate`, or `StartSession` and `RecordSession`; `WriteResponse` |
| the end of `run`: `DELETE` | `Cleanup` |
| `Logger::fatal`, SIGPIPE, a signal | `StatementFails`, `RecvError`, `WriteFatal`, `Kill`: all `Die` |

Decisions taken:

- What a peer sends is chosen when the server reads it, from everything it could
  send.  The bytes `recv` merges into a message and loses are so bytes never sent.
  A `poll` that times out changes nothing and is a stuttering step.
- The peer here is *any* client, a stronger environment than ve-client, whose
  `start_session` sends one SessionStartRequest.  `Escrow` puts ve-client in its place.
- The table exists before the first launch and is empty.  A table with rows of an
  earlier run is reached by `StopMain` or crashes followed by `Launch`; a database
  file that does not exist yet differs only in that `open` writes.
- `m_client_id` of a process whose client never sent an id is uninitialized.  It is
  `NoClient`, which is the id of nobody: a random uuid is one the model leaves
  unused.  `m_str_client_id` of such a process is text of unknown bytes: its DELETE
  matches no row, or fails as malformed SQL (`StatementFails`).
- `uuid_generate` gives an id no process has (`FreshSession`).
- A list of more than `MaxListed` partners does not fit a frame (55 do: theorem
  `PartnersThatFit`).  With exactly one
  more, `memcpy` writes past the body (`WriteResponse` or `WriteFatal`, as the build
  has it); with more the message does not serialize and the process ends.

### SessionRegistry

A session id is `unused`, `issued`, `registered`, `retired`, in this order; it is
registered only while no other session of its client is.  `EscrowServer` maps to it
by reading the phase of an id off the table and the processes (`PhaseOf`).

### Escrow

The server of `EscrowServer`, whose peers are now real clients, and the messages on
the way (`toServer`, `toClient`).  Every step of it is a step of `EscrowServer` or
leaves that alone; what is chosen freely there (which message is received, when the
peer closes) is decided here by the client and the wire.

| code | actions |
|---|---|
| `client.cpp`: `connect`, and the server's `accept` | `Connect` |
| `start_session`: `cmd_SessionStartRequest` | `SendStart` |
| `start_session`: `process_message(this, sock, -1)` | `PollAnswer`; `HandleAnswer`, `StartFails`, `ClientFatal` |
| `main` after a `start_session` that failed; the end of the window | `Leave` |
| the window: what it sends and reads (`ClientUI` has how) | `SendRequest`, `RecvAnswer` |
| a signal, a fatal error of the window | `ClientKilled` |
| the server's `recv`, then `message_dispatch`; `socket_write_message` | `HandleRequest`, `SendAnswer` |
| the connection | `Closed`, `Reset` |

Decisions taken:

- Frames are whole, and `recv` takes the first message and any number of those behind
  it, which are lost (`AfterRecv`).
- A reset drops what is on the way in both directions.  A process that has ended
  closes its end; what is written to it is lost.
- Every client has an id of its own (`uuid_generate` in the constructor), so a row
  left by a crashed process refuses nobody.  `EscrowServer` has the clients that share
  an id.
- The client process is run once per connection; a user who starts it again is another
  connection with another id, as in the code.

`Handshake` is what the two ends promise each other: a client is `away`, `asking`, `in`
(its window) or `over`; the server grants it one session that nobody else was granted,
after it has asked; and it goes in with exactly that session.  `Escrow` maps to it by
`StageOf`, `m_session_id` and the client's own session id.

### Framing and MessageStream

`Framing` has the sizes of `messageformat.h` and what `create_wrapper_from_protobuf`
does with a body: `Fits`, `MemcpyOverflows` (it serializes into the 1024-byte buffer and
is copied past the 1000-byte body), `SerializeFails` (`Logger::fatal`).

`MessageStream` is one direction of a connection.  A byte is its position in the
stream; `Write` appends a frame, `Arrive` brings any part of what was written, and
`RecvFrame` and `RecvOther` are `recv` with what `process_message` makes of its result:
the frame at its start if that is complete, otherwise bytes that are taken for a message
and are not one (`misread`).  The code does not ask which of the two it has: it dispatches
what it got, and parses `body_size` bytes whatever `recv` returned.  Behind a part of a
frame, or behind the 1024 bytes of one that is longer, that is what the stack holds, so
`RecvOther` leaves open what comes of it: nothing, a handler that is given a message nobody
wrote (`made`), or the end of the reader.  What follows the first frame is dropped, as in
the code.

`LossyChannel` keeps of this the messages alone: those received whole are handled one at a
time and in the order they were written, any may be lost, and nothing else is handled
until the channel is `broken`, after which anything may be.  A frame is mapped to where it
starts, and the channel breaks when a `recv` ends inside a frame.  A frame that overflowed
its body is longer than the buffer, so it always breaks the channel:
`OverflowsAreMisread`.

### ClientUI

`pc["ui"]` follows `ClientUI::run` and the callback of the Echo button, `pc["sock"]`
follows `ClientUI::socket_thread`, `process_message` and the callbacks of answers.
`Write` and `Register` are the two statements of `cmd_EchoRequest` (UI thread) and of
`cmd_AvailableTradePartnersRequest` (socket thread): a request is on the wire before
its callback is in `m_callbacks`.  Request ids are numbered in the order of the writes.

`requests` and `inbox` are the buffers of the two directions, with room for `Capacity`
messages: a `Write` blocks while `requests` is full, and so does the server's write of an
answer (`ServerAnswers`) while `inbox` is.  `recv` takes all that has arrived and the first
message of it is the one that is handled, so requests and answers behind it are lost.
In `ServerAnswers` the server's `recv`, handler and answer are one step, in which the
requests from the k-th on arrived after the `recv`.

`link` is "fin" when the server's process ended and everything it sent can still be
read, "rst" after a reset.  FLTK is external: `Fl::wait` holds the lock except while
it sleeps, and wakes for an event or for `Fl::awake`.  Undefined behaviour is a choice:
with `CallbackMapRace` (a change of `m_callbacks` in one thread while the other is in it)
and `FallOffEnd` (the start routine of the socket thread has no return statement) the
process may end there, or go on as if nothing were wrong.  `EchoTooLong` is an Echo text
that does not fit a frame: framing it fails (`Logger::fatal`), or `memcpy` corrupts the
stack.  Of a process that survives that, with a frame longer than the server's buffer on
the wire, `MessageStream` says the rest; here every frame that is written fits.

`Callbacks` is the life of a request: `unused`, `sent`, `waiting` (its callback is
registered), `running`, `done`, and `gone` with the process.  A callback runs at most
once, after it was registered, never two at a time, and after those that have run.
`ClientUI` maps to it by `PhaseOf`; an answer that finds no callback changes nothing there.

## 3. Runs

| run | instance | states | shows |
|---|---|---|---|
| `server_two` | 2 connections, 2 client ids, 2 launches, frames that fit no id | 157 326 | `TypeOK`, `RowsHaveOwners`, `PartnersAreOthers`, `ServedAreListed`, `LocksAreStatements`, `SessionIsKept`, `StalePartnersHaveLeft`, `ImplementsRegistry` |
| `server_three` | 3 connections that claim one id | 356 891 | `OneRowPerClient`, `RejectionNamesAnother`, `DuplicatesFollowRefusal` |
| `server_live` | 2 connections that claim one id, fairness | 34 213 | `DisconnectCleansUp` |
| `server_duplicate` | as `server_three` | | `NoDuplicateSession` is violated |
| `server_relaunch` | 2 instances of the server, 2 connections with ids of their own, fairness | | `CleanSparesRunning` is violated |
| `escrow_safe` | 2 clients, 1 request each, 2 launches | 766 601 | `SystemTypeOK`, `ClientKnowsSession`, `RunningIsListed`, `NobodyIsRefused`, `ImplementsHandshake` |
| `escrow_live` | 1 client, 1 request, 2 launches of 2 instances of the server, fairness | 11 497 | `StartSessionEnds`, `ClientsAreForgotten` |
| `escrow_refused` | 2 clients, no requests, 1 launch | | `RefusedIsConnected` is violated |
| `stream` | 3 frames, lists of 0 to 4 partners, sizes scaled down | 652 750 | `TypeOK`, `MisreadsFollowTear`, `LossNeedsCompany`, `OverflowsAreMisread`, `ImplementsLossyChannel` |
| `client_threads` | 6 requests, buffers for 2 messages, fairness | 114 299 | `TypeOK`, `WidgetsExclusive`, `AnswersFindCallbacks`, `StuckForGood`, `ImplementsCallbacks`, `WritesReturn`, `LeavingEnds`, `LossEndsSocketThread` |
| `client_close` | 2 requests, fairness | | `ProcessMessageReturns` is violated |
| `client_loss` | as `client_close` | | `LossEndsLoop` is violated |

Bounds.

- Server.  Two connections are enough for a SELECT and an INSERT to race, for a client
  to be refused, for a lock to be busy at each kind of statement, and for a list of one
  partner.  `MaxListed` = 0 in `server_two` makes that list the one that overflows the
  frame by one id, the case with two outcomes; in the other runs every list fits.  The
  third connection is needed for what a refusal leaves behind: one is served, one is
  refused and deletes the row, one is served again.  Two launches (`MaxLaunches`) show a
  table emptied while processes of the first server still run.
- System.  Two clients with ids of their own contend for the file lock, and so end each
  other's processes at every point of `start_session`.  One request of the window
  (`MaxSent`) crosses everything that can end a connection; the answer to
  `start_session` and the window's requests never meet on the wire, which the proof
  shows for any number of them.  `escrow_live` has one client, whose process contends
  with the statements of a second server that is launched: what a client waits for never
  depends on another client, since no statement waits for a lock.
- Stream.  With a header of 4 bytes and a buffer of 13 (`IntSize` 1, `UuidSize` 2) a list
  of two partners fits, one of three overflows the body and one of four does not
  serialize: the three cases of the sizes of `messageformat.h`, which the theorems use.
  Three frames (`MaxFrames`) show a frame read after a torn one and two that wait
  together.
- Client.  Six requests with room for two in each direction (`Capacity`) fill every
  buffer with one being handled and one about to be written, which is what the Echo
  button needs to get stuck: two answers and two requests on the way, the socket thread in
  the callback of a fifth, the UI thread in the write of the sixth.  They also let both
  threads have a request in flight, one registered and one merged away.

Symmetry (connections, session ids) is used by the runs without fairness only.

Deadlock is not checked: the system may stop, with every connection ended and the
server down, with the window closed, in the hang of `client_close`, with every buffer
full (`Clogged`), or with every byte read.

Fairness.

- `EscrowServer`: a process whose peer is gone keeps running (the operating system
  schedules it).  Nothing is assumed of a process with a live peer: that peer may not
  send, or may not read and block a write.
- `Escrow`: both processes of a connection run and the end of one reaches the other
  (TCP closes the socket of a process that ends).  A write of the server's process needs
  its peer to read, which ve-client does: `start_session` while it waits for the one
  message the server sends it.  A window may stop reading (`Clogged` in `ClientUI`), but
  only with the buffers full, which the one request of `escrow_live` does not do.
  Nothing is assumed of the user, of resets or of crashes.
- `ClientUI`: both threads and the server's process run; `Lock` and a wake-up for
  `Fl::awake` are strongly fair, since a mutex that is released again and again is
  acquired by whoever waits for it.  No user or network is assumed to do anything.

### Where the code and what is said of it differ

1. `server_duplicate`.  A refused connection executes the DELETE of `run()` for the id
   it claimed (`server/server-process.cpp:124`) and so removes the row of the session
   that refused it.  The third connection is served a second session, against the
   check at `server/server-process.cpp:72`.  `DuplicatesFollowRefusal` (and its proof)
   says that this, and a relaunch, are the only ways.
2. `server_relaunch`.  `clean()` precedes `bind()` (`server.cpp:32`): starting a second
   server removes the sessions of the running one, also when the start then fails,
   where `server/server-db.cpp:65` says "from previous runs".
3. `client_close`.  `run()` joins the socket thread with FLTK's lock held
   (`client/client-ui.cpp:247`); a callback that waits for the lock waits for ever.
   `LeavingEnds` says that nothing else but clogged buffers keeps `run()` from returning,
   and `StuckForGood` that the hang never ends by itself.
4. `client_loss`.  The socket thread clears `m_running` and does not wake the UI thread
   (`client/client-ui.cpp:70`): the loop that should end when the "connection to server
   is closed" (line 242) sleeps on until the user touches the window.
5. `escrow_refused`.  `main` says "Client with this ID is already connected" (`client.cpp:68`)
   whenever `start_session` returns false.  It is false too when the connection is lost
   or the server's process ends first, which two clients that start at the same time
   bring about: one of their statements finds the file locked.  `NobodyIsRefused` says
   that this is in fact the only reason between clients with ids of their own.

## 4. Proofs

Every safety property of the passing runs is also a theorem, for every value of the
constants that satisfies the named assumptions.

`EscrowServerProofs` proves, for every set of processes, connections, clients and
sessions that satisfies `ServerAssumption` (connections and instances of the server
are different processes, "no client" is not a client, ...), the type invariant and
every safety property of `server_two` and `server_three`.  The properties of sessions
are not inductive; they are proved from four layers, each preserved by every step given
the ones below:

1. `ShapeInv`: types, and what `pc` implies of the members (a process at its INSERT is
   connected, an answer is pending only at `write`, a started session has an id no
   other process has, an id is known wherever it is used).
2. `OwnerInv`: rows have owners, and at most one row per client.  A process that is
   about to insert owns no row yet: this, with UNIQUE, is why a race ends in one row.
3. `AnswerInv`: pending answers are true.  A refusal names the owner of a row, and the
   owner's ids never change, so it stays true after the row is gone; the owner is not
   the answering process since that one is not connected.
4. `ListedInv`: a served client without a row implies a relaunch or a refused process
   of its id that has left; rows of other ids survive a DELETE.

Beside these, two invariants of their own, for any number of processes.
`LocksAreStatements`: a process holds a lock on the file only while it is at a statement,
so that none keeps others out between two statements or after its end.
`StalePartnersHaveLeft`: a list of partners is true when its SELECT returns, and may be
untrue when it is written; it is inductive with the layers above, since the only
steps that take a row out of the table are a launch's `Clean` and the DELETE of a process
that claims that very id, which is then at its end for good (`ReasonsStay`).

`RegistryProofs` proves that `EscrowServer` implements `SessionRegistry`.  `PhaseLaw`
says, from the first two layers, what the phase of a session id is in terms of the one
process that started it; each step of the server then issues (`StartSession`), registers
(`RecordSession`), retires one session (the end of a process at its INSERT, a DELETE,
which may be another process's), retires all (`Clean`), or touches none.

`EscrowProofs` proves of the whole system, with `ClientsAssumption` (every client has one
id and no two the same), that it implements `EscrowServer`, so that the layers above hold
of it, and from them the invariant `ProtocolInv`.  For each connection it says how the two
ends fit: until the client has sent its SessionStartRequest nothing is on the way; while
it waits, its request is on the way (and the server's process `Fresh`), or being
handled, or its answer is on the way and says OK with the session of that process;
afterwards only other requests are.  That nobody is refused needs both ends: a row with a
client's id belongs to a connected process, ids are of one connection each, and a process
asked to start is not connected.

`SystemProofs` proves, from `ProtocolInv` and the layers of the server, that the whole
system implements `Handshake`: `SendStart` asks, `StartSession` grants (the process has a
request to answer, so the client has asked), `HandleAnswer` enters with what was granted
(the answer it takes is the one that says so), everything that ends a client leaves, and
every other step changes nothing of it.  It implements `SessionRegistry` too, since it
implements `EscrowServer`.

`PromiseProofs` is about three abstract specifications: of `SessionRegistry`, that no
client has two registered sessions; of `Handshake`, that clients that are in agree with
the server, each on a session of its own; of `Callbacks`, that no two run at once and
none before one that has run.  What is proved to implement them has these properties as
well.  (`LossyChannel` has no theorem of its own: what it promises is its actions.)

| theorem | property |
|---|---|
| `EscrowServerProofs!TypeCorrect`, `ShapeAlways` | `TypeOK`, and the fit of state and program counter |
| `SessionsAreKept` | `SessionIsKept` |
| `EveryRowHasItsOwner`, `OneRowForEachClient` | `RowsHaveOwners`, `OneRowPerClient` |
| `RejectionsAreTrue`, `PartnersAreTrue` | `RejectionNamesAnother`, `PartnersAreOthers` |
| `ServedClientsAreListed`, `DuplicatesOnlyAfterRefusal` | `ServedAreListed`, `DuplicatesFollowRefusal` |
| `LocksAreAlwaysStatements`, `StaleListsAreExplained` | `LocksAreStatements`, `StalePartnersHaveLeft` |
| `ServerImplementsRegistry`, `SystemImplementsRegistry` | `ImplementsRegistry` of the server, and of the whole system |
| `SystemImplementsServer` | the system implements `EscrowServer` |
| `SystemTypeCorrect`, `ClientsKnowTheirSession`, `NobodyRefused`, `RunningAreListed` | `SystemTypeOK`, `ClientKnowsSession`, `NobodyIsRefused`, `RunningIsListed` |
| `SystemImplementsHandshake`, `WindowsHaveOwnSessions` | `ImplementsHandshake`; windows and the server agree, each on its own session |
| `PartnersThatFit`, `EchoesThatFit`, `StartFits` | where frames of the sizes of `messageformat.h` overflow, and that those of `start_session` do not |
| `MessageStreamProofs!TypeCorrect`, `MisreadsAreTorn` | `TypeOK`, `MisreadsFollowTear` |
| `LossesHaveCompany`, `OverflowsMisread` | `LossNeedsCompany`, `OverflowsAreMisread` |
| `StreamImplementsChannel` | `ImplementsLossyChannel` |
| `ClientUIProofs!TypeCorrect`, `WidgetsAreExclusive`, `AnswersFind` | `TypeOK`, `WidgetsExclusive`, `AnswersFindCallbacks` |
| `ClientImplementsCallbacks`, `StuckStays` | `ImplementsCallbacks`, `StuckForGood` |
| `RegisteredOncePerClient`, `SessionsAreOwn`, `CallbacksRunInOrder` | what follows from the abstract specifications |

`MessageStreamProofs` rests on `StreamInv`: frames follow each other without gaps, and
until some `recv` has ended inside a frame, `recv` starts at one.  So a `recv` that finds no
complete frame at its start ends inside one (`IncompleteTears`), and with one frame
waiting the frame that is handled is the only one that could be lost.  For the order of
messages, torn or not, one more fact is needed: every frame that was handled lies behind
what the reader has taken (`BehindInv`).  A frame that overflowed is longer than the buffer,
so a `recv` that begins with a whole frame does not get past it (`OverflowsStayAhead`), and
any other misreads.

`ClientUIProofs` proves, for any bound on the requests and any capacity, the types,
`WidgetsExclusive` from `LockInv` (who holds FLTK's lock), and
`AnswersFindCallbacks` from `FlightInv`: the requests and answers on the way are in the
order of their numbers, each later than the answer being handled, and each has its
callback or a thread about to register it; so the callback `invoke_callback` erases is
never one that is needed again.

`CallbackProofs` adds `LifeInv`, for what `FlightInv` does not say of the past: an answer
that is being handled is of a request later than all whose callback has run, so that
callbacks run in the order of the requests.  `PhaseLaw` says what the phase of each
request is; then each step of a thread sends (`Write`), registers (`Register`), runs
(`Find`, when it finds something), finishes (`Erase`), ends all (`Exit`) or changes no phase.
`StuckStays` needs only `LockInv`: in the hang the lock is the UI thread's, which waits in
`pthread_join`, and with every buffer full no write, read or answer can be done.

Only model-checked: the liveness properties (`DisconnectCleansUp`, `StartSessionEnds`,
`ClientsAreForgotten`, `WritesReturn`, `LeavingEnds`, `LossEndsSocketThread`), which are out
of the prover's reach.

## 5. Not modelled

- SQLite, protobuf and FLTK.  The SQLite amalgamation is vendored in the repository and
  is nearly all of its lines (some 169 000 of 170 000); of it only the file locks are
  described, in `ServerDatabase`, since they are all of it that this program's own
  decisions depend on.  Of protobuf the sizes of bodies are, of FLTK its lock and its wait.
- The inventory (`virtualitems.*`): filled once at random, then only read.
- Layout and wording, the option parsing of `main`, logging other than `Logger::fatal`.
- The children of the server that are never waited for.  They keep no state of the
  program; when the system's limit on processes is reached `fork` fails, which is
  `StopMain`.
- A partial write: `write` of a blocking socket writes all of a frame of this size or
  fails.  (Frames that *arrive* in parts are in `MessageStream`.)

What could still be added: `ClientUI` at the end of each connection of `Escrow` in place
of `SendRequest` and `RecvAnswer`, which would multiply the states by those of two
threads and add no path to the server's sessions; and frames in parts in `Escrow`, whose
effect on one direction `MessageStream` has.

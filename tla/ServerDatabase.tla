--------------------------- MODULE ServerDatabase ---------------------------
(***************************************************************************)
(* The file virtualescrow.db as the server processes see it through        *)
(* ServerDatabase: the sessions table, and the file lock of SQLite under   *)
(* which every statement runs.  ServerDatabase installs no busy handler,   *)
(* so a lock that is not free makes sqlite3_exec return SQLITE_BUSY at     *)
(* once, and exec turns any error into Logger::fatal.                      *)
(*                                                                         *)
(* A statement is a transaction of its own.  A read takes SHARED and gives *)
(* it back; a write takes SHARED, then RESERVED, and needs the file for    *)
(* itself (EXCLUSIVE) for the instant of its commit.  The EXCLUSIVE phase  *)
(* is part of Commit; that a reader arriving during it is refused is       *)
(* SharedBusy, possible whenever another process is RESERVED.              *)
(***************************************************************************)
EXTENDS Naturals

CONSTANTS
  Process,    \* the operating system processes that open the file
  ClientId,   \* client uuids
  SessionId   \* session uuids

VARIABLES
  sessions,   \* the rows of the table sessions
  lock        \* the lock each process holds on the file

dbVars == <<sessions, lock>>

\* CREATE TABLE sessions (client_id TEXT UNIQUE, session_id TEXT)
Row == [client_id : ClientId, session_id : SessionId]

\* Faulty form of RowsOf: the WHERE clause is lost.
AnyRows(id) == sessions

RowsOf(id) == {r \in sessions : r.client_id = id}

LockState == {"none", "shared", "reserved"}

DbTypeOK ==
  /\ sessions \subseteq Row
  /\ lock \in [Process -> LockState]

DbInit ==
  /\ sessions = {}
  /\ lock = [p \in Process |-> "none"]

HeldByOther(p, l) == \E q \in Process \ {p} : lock[q] = l

-----------------------------------------------------------------------------
(* The steps of a statement of process p.                                  *)

Shared(p) ==
  /\ lock[p] = "none"
  /\ lock' = [lock EXCEPT ![p] = "shared"]
  /\ UNCHANGED sessions

\* Refused while another process is PENDING or EXCLUSIVE in its commit.
SharedBusy(p) ==
  /\ lock[p] = "none"
  /\ HeldByOther(p, "reserved")

Reserve(p) ==
  /\ lock[p] = "shared"
  /\ ~HeldByOther(p, "reserved")
  /\ lock' = [lock EXCEPT ![p] = "reserved"]
  /\ UNCHANGED sessions

ReserveBusy(p) ==
  /\ lock[p] = "shared"
  /\ HeldByOther(p, "reserved")

EndRead(p) ==
  /\ lock[p] = "shared"
  /\ lock' = [lock EXCEPT ![p] = "none"]
  /\ UNCHANGED sessions

\* EXCLUSIVE is requested by every commit of a write, even of one that
\* changed no row.
Commit(p, rows) ==
  /\ lock[p] = "reserved"
  /\ ~HeldByOther(p, "shared")
  /\ sessions' = rows
  /\ lock' = [lock EXCEPT ![p] = "none"]

CommitBusy(p) ==
  /\ lock[p] = "reserved"
  /\ HeldByOther(p, "shared")

\* The kernel drops the locks of a process that ends; what it had not
\* committed is rolled back.
Abandon(p) ==
  /\ lock' = [lock EXCEPT ![p] = "none"]
  /\ UNCHANGED sessions

-----------------------------------------------------------------------------
(* The outcomes of the statements.                                         *)

ReadFails(p) == SharedBusy(p)

WriteFails(p) == SharedBusy(p) \/ ReserveBusy(p) \/ CommitBusy(p)

\* INSERT INTO sessions VALUES (id, s): the UNIQUE column refuses a second row.
UniqueViolated(p, id) ==
  /\ lock[p] = "reserved"
  /\ RowsOf(id) # {}

\* Faulty form of Insert: the column client_id without UNIQUE.
InsertWithoutUnique(p, id, s) ==
  Commit(p, sessions \cup {[client_id |-> id, session_id |-> s]})

Insert(p, id, s) ==
  /\ RowsOf(id) = {}
  /\ Commit(p, sessions \cup {[client_id |-> id, session_id |-> s]})

\* Faulty form of Delete: the key is one that matches no row.
DeleteNothing(p, id) == Commit(p, sessions)

\* Faulty form of Delete: the WHERE clause is lost.
DeleteEveryRow(p, id) == Commit(p, {})

\* DELETE FROM sessions WHERE client_id = id
Delete(p, id) == Commit(p, sessions \ RowsOf(id))

\* DELETE FROM sessions
DeleteAll(p) == Commit(p, {})
=============================================================================

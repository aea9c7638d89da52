----------------------------- MODULE Handshake ------------------------------
(***************************************************************************)
(* What start_session() promises both ends of a connection, without        *)
(* messages, processes or a database: the server grants a client one       *)
(* session of its own, after it has asked; the client goes on with that    *)
(* session or not at all.                                                  *)
(***************************************************************************)
CONSTANTS Conn, SessionId, NoSession

VARIABLES
  stage,    \* how far each client is
  granted,  \* the session the server has for each client
  known     \* the session each client believes it has

handshakeVars == <<stage, granted, known>>

Stage == {"away", "asking", "in", "over"}

TypeOK ==
  /\ stage \in [Conn -> Stage]
  /\ granted \in [Conn -> SessionId \cup {NoSession}]
  /\ known \in [Conn -> SessionId \cup {NoSession}]

Init ==
  /\ stage = [c \in Conn |-> "away"]
  /\ granted = [c \in Conn |-> NoSession]
  /\ known = [c \in Conn |-> NoSession]

Ask(c) ==
  /\ stage[c] = "away"
  /\ stage' = [stage EXCEPT ![c] = "asking"]
  /\ UNCHANGED <<granted, known>>

\* The client may have left in the meantime.
Grant(c, s) ==
  /\ stage[c] # "away" /\ granted[c] = NoSession
  /\ \A d \in Conn : granted[d] # s
  /\ granted' = [granted EXCEPT ![c] = s]
  /\ UNCHANGED <<stage, known>>

Enter(c) ==
  /\ stage[c] = "asking" /\ granted[c] # NoSession
  /\ stage' = [stage EXCEPT ![c] = "in"]
  /\ known' = [known EXCEPT ![c] = granted[c]]
  /\ UNCHANGED granted

Leave(c) ==
  /\ stage' = [stage EXCEPT ![c] = "over"]
  /\ UNCHANGED <<granted, known>>

Next ==
  \E c \in Conn :
    \/ Ask(c) \/ Enter(c) \/ Leave(c)
    \/ \E s \in SessionId : Grant(c, s)

Spec == Init /\ [][Next]_handshakeVars

-----------------------------------------------------------------------------
\* Clients that have gone in believe what the server does, each of its own.
OwnSessions ==
  \A c, d \in Conn : stage[c] = "in" /\ stage[d] = "in" =>
    known[c] = granted[c] /\ (known[c] = known[d] => c = d)
=============================================================================

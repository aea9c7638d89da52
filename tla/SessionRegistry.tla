-------------------------- MODULE SessionRegistry ---------------------------
(***************************************************************************)
(* What the server promises about sessions, without processes, statements  *)
(* or locks: a session id is issued once, to one client; it is registered  *)
(* at most once, and only while no other session of that client is; and    *)
(* once retired it never comes back.                                       *)
(***************************************************************************)
CONSTANTS ClientId, SessionId, NoClient

VARIABLES
  phase,   \* where each session id is in its life
  holder   \* the client each session id was issued to

registryVars == <<phase, holder>>

Phase == {"unused", "issued", "registered", "retired"}

TypeOK ==
  /\ phase \in [SessionId -> Phase]
  /\ holder \in [SessionId -> ClientId \cup {NoClient}]

Registered == {s \in SessionId : phase[s] = "registered"}

Init ==
  /\ phase = [s \in SessionId |-> "unused"]
  /\ holder = [s \in SessionId |-> NoClient]

\* start_session() draws a new id for a client.
Issue(s, id) ==
  /\ phase[s] = "unused"
  /\ phase' = [phase EXCEPT ![s] = "issued"]
  /\ holder' = [holder EXCEPT ![s] = id]

\* The row is inserted.
Register(s) ==
  /\ phase[s] = "issued"
  /\ \A t \in Registered : holder[t] # holder[s]
  /\ phase' = [phase EXCEPT ![s] = "registered"]
  /\ UNCHANGED holder

\* The row could not be inserted, or its client left.
Retire(s) ==
  /\ phase[s] \in {"issued", "registered"}
  /\ phase' = [phase EXCEPT ![s] = "retired"]
  /\ UNCHANGED holder

\* A starting server empties the table.
RetireAll ==
  /\ phase' = [s \in SessionId |-> IF s \in Registered THEN "retired" ELSE phase[s]]
  /\ UNCHANGED holder

Next ==
  \/ \E s \in SessionId :
       \/ \E id \in ClientId : Issue(s, id)
       \/ Register(s)
       \/ Retire(s)
  \/ RetireAll

Spec == Init /\ [][Next]_registryVars

-----------------------------------------------------------------------------
\* Whatever the order of steps, no client has two registered sessions.
OnePerClient == \A s, t \in Registered : holder[s] = holder[t] => s = t
=============================================================================

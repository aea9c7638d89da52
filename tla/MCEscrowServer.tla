--------------------------- MODULE MCEscrowServer ---------------------------
(* Instances of EscrowServer for TLC.                                      *)
EXTENDS EscrowServer, TLC

\* Any peer may claim any client id.
AnyClaim == [c \in Conn |-> ClientId]

\* Every peer has an id of its own, as uuid_generate gives ve-client; the ids
\* are named after the connections (ClientId = Conn).
OwnClaim == [c \in Conn |-> {c}]

Symmetry == Permutations(Conn) \cup Permutations(SessionId)
=============================================================================

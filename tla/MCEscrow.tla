------------------------------ MODULE MCEscrow ------------------------------
(* Instances of Escrow for TLC.                                            *)
EXTENDS Escrow, TLC

\* Every client has an id of its own, named after its connection.
OwnId == [c \in Conn |-> {c}]

Symmetry == Permutations(Conn) \cup Permutations(SessionId)
=============================================================================

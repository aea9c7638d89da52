-------------------------- MODULE MCMessageStream ---------------------------
(* An instance of MessageStream for TLC.                                   *)
EXTENDS MessageStream

\* Lists of none to four partners, as the server answers them.
PartnerLists == {PartnersBody(n) : n \in 0 .. 4}
=============================================================================

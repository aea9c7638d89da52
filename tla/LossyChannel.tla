---------------------------- MODULE LossyChannel ----------------------------
(***************************************************************************)
(* What a connection promises its reader, without bytes, frames or         *)
(* buffers: whole messages, one at a time, in the order they were written, *)
(* any of which may be lost, and nothing else until the channel breaks.    *)
(* From then on the reader may be given what nobody wrote.                 *)
(***************************************************************************)
EXTENDS Naturals

VARIABLES
  put,     \* the messages written; a later one has a greater number
  got,     \* those of them the reader has handled
  made,    \* the reader was given something else
  broken   \* the reader has lost its place

Init == put = {} /\ got = {} /\ made = FALSE /\ broken = FALSE

Put(m) ==
  /\ \A p \in put : p < m
  /\ put' = put \cup {m}
  /\ UNCHANGED <<got, made, broken>>

\* The channel may break behind the message.
Get(m) ==
  /\ \A g \in got : g < m
  /\ got' = got \cup {m}
  /\ broken' \in {broken, TRUE}
  /\ UNCHANGED <<put, made>>

Break ==
  /\ broken' = TRUE
  /\ made' \in {made, TRUE}
  /\ UNCHANGED <<put, got>>

Next ==
  \/ \E m \in put' : Put(m)
  \/ \E m \in put : Get(m)
  \/ Break

Spec == Init /\ [][Next]_<<put, got, made, broken>>
=============================================================================

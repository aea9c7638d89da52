----------------------------- MODULE Callbacks ------------------------------
(***************************************************************************)
(* What the client promises about its requests, without threads, buffers   *)
(* or locks: the callback of a request runs at most once, after it was     *)
(* registered, one at a time, and in the order the requests were sent.  It *)
(* may never run: its answer is lost, or came before it was registered.    *)
(***************************************************************************)
EXTENDS Naturals

CONSTANT Request   \* request ids, in the order they are sent

VARIABLE phase     \* where each request is in its life

Phase ==
  {"unused",   \* not sent
   "sent",     \* sent, its callback not registered yet
   "waiting",  \* its callback is registered
   "running",  \* its callback runs
   "done",     \* its callback has run
   "gone"}     \* the process has ended

TypeOK == phase \in [Request -> Phase]

Init == phase = [r \in Request |-> "unused"]

Advance(r, from, to) ==
  /\ phase[r] = from
  /\ phase' = [phase EXCEPT ![r] = to]

Send(r) ==
  /\ \A q \in Request : q < r => phase[q] # "unused"
  /\ Advance(r, "unused", "sent")

Register(r) == Advance(r, "sent", "waiting")

Run(r) ==
  /\ \A q \in Request : phase[q] # "running"
  /\ \A q \in Request : phase[q] = "done" => q < r
  /\ Advance(r, "waiting", "running")

Finish(r) == Advance(r, "running", "done")

End == phase' = [r \in Request |-> "gone"]

Next ==
  \/ \E r \in Request : Send(r) \/ Register(r) \/ Run(r) \/ Finish(r)
  \/ End

Spec == Init /\ [][Next]_phase

-----------------------------------------------------------------------------
\* Callbacks run one at a time, and after those that have run.
InOrder ==
  \A q, r \in Request : phase[r] = "running" =>
    /\ phase[q] = "running" => q = r
    /\ phase[q] = "done" => q < r
=============================================================================

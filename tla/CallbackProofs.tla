--------------------------- MODULE CallbackProofs ---------------------------
(***************************************************************************)
(* ClientUI implements Callbacks, for every bound on the requests and      *)
(* every capacity of the buffers.                                          *)
(***************************************************************************)
EXTENDS ClientUIProofs

-----------------------------------------------------------------------------
(* The life of a request.                                                  *)

\* The callback of r has run and was erased.
Finished(r) ==
  r <= sent /\ r \notin m_callbacks /\ \A t \in Thread : request[t] # r

\* A request is written by one thread, which registers it once; while a callback
\* runs it is in the map; and those that have run are older than every request
\* or answer that is still on its way.
Life1 ==
  /\ \A t \in Thread : request[t] # NoRequest =>
       pc[t] = "register" /\ request[t] <= sent /\ request[t] \notin m_callbacks
  /\ request["ui"] = request["sock"] => request["ui"] = NoRequest
  /\ \A r \in m_callbacks : r <= sent
  /\ InCallback => answer \in m_callbacks

Older(r) ==
  /\ \A i \in 1 .. Len(requests) : r < requests[i]
  /\ \A i \in 1 .. Len(inbox) : r < inbox[i]
  /\ Handling => r < answer

Life2 == \A r \in Request : Finished(r) => Older(r)

LifeInv == Exited \/ (Life1 /\ Life2)

\* What the steps are taken under.
AllInv == LockInv /\ TypeInv /\ FlightInv /\ LifeInv

LEMMA LifeInit == Init => LifeInv
<1> SUFFICES ASSUME Init PROVE Life1 /\ Life2
  BY DEF LifeInv
<1>1. Life1
  BY DEF Init, Life1, Thread, InCallback, NoRequest
<1>2. Len(requests) = 0 /\ Len(inbox) = 0 /\ ~Handling
  BY DEF Init, Handling, Thread
<1> QED
  BY <1>1, <1>2 DEF Life2, Older

LEMMA Numbers ==
  ASSUME AllInv
  PROVE  /\ sent \in Nat /\ answer \in Nat /\ NoRequest = 0
         /\ m_callbacks \subseteq Request /\ \A r \in Request : r \in Nat /\ 0 < r
         /\ request \in [Thread -> Nat] /\ \A t \in Thread : request[t] # 0 => request[t] \in Request
         /\ requests \in Seq(Nat) /\ inbox \in Seq(Nat)
         /\ DOMAIN pc = Thread
BY ClientAssumption DEF AllInv, TypeInv, TypeOK, FlightInv, FlightTypes, LockInv, Request, NoRequest

\* Steps that send, receive and register nothing.
LEMMA LifeMove ==
  ASSUME LifeInv, ~Exited, UNCHANGED <<callbackVars, netVars>>,
         \A t \in Thread : pc[t] = "register" => pc'[t] = "register",
         Handling' => Handling, InCallback' => InCallback \/ answer \in m_callbacks
  PROVE  LifeInv'
<1>1. Life1'
  BY DEF LifeInv, Life1, callbackVars
<1>2. Life2'
  BY DEF LifeInv, Life2, Finished, Older, callbackVars, netVars
<1> QED
  BY <1>1, <1>2 DEF LifeInv

LEMMA LifeExited ==
  ASSUME Exit
  PROVE  LifeInv'
BY DEF Exit, LifeInv, Exited, Thread

LEMMA LifeOther ==
  ASSUME AllInv, ~Exited,
         \/ Start \/ RefreshInventory \/ Sleep \/ LeaveLoop \/ Wake \/ OtherEvent
         \/ EchoButton \/ CloseWindow \/ Stop \/ Join
         \/ Check \/ Poll \/ RecvClosed \/ Find \/ Lock \/ Update \/ Timer \/ Lost
  PROVE  LifeInv'
<1> USE DEF Goto, Move, LockInv, AllInv, Thread, Handling, InCallback
<1>1. CASE Start \/ RefreshInventory \/ Sleep \/ LeaveLoop \/ Wake
  BY <1>1, LifeMove DEF Start, RefreshInventory, Sleep, LeaveLoop, Wake
<1>2. CASE OtherEvent \/ EchoButton \/ CloseWindow \/ Stop \/ Join
  BY <1>2, LifeMove DEF OtherEvent, EchoButton, CloseWindow, Stop, Join
<1>3. CASE Check \/ Poll \/ RecvClosed \/ Timer \/ Lost
  BY <1>3, LifeMove DEF Check, Poll, RecvClosed, Timer, Lost
<1>4. CASE Find
  BY <1>4, LifeMove DEF Find
<1>5. CASE Lock \/ Update
  BY <1>5, LifeMove DEF Lock, Update
<1> QED
  BY <1>1, <1>2, <1>3, <1>4, <1>5

LEMMA LifeWrite ==
  ASSUME AllInv, ~Exited, NEW t \in Thread, Write(t)
  PROVE  LifeInv'
<1>1. /\ pc[t] = "write" /\ pc' = [pc EXCEPT ![t] = "register"] /\ sent' = sent + 1
      /\ request' = [request EXCEPT ![t] = sent + 1]
      /\ requests' = requests \/ requests' = Append(requests, sent + 1)
      /\ UNCHANGED <<m_callbacks, answer, inbox>>
  BY DEF Write, Goto
<1>2. Life1 /\ Life2
  BY DEF AllInv, LifeInv
<1>3. request[t] = 0 /\ sent \in Nat /\ request \in [Thread -> Nat] /\ DOMAIN pc = Thread
  BY <1>1, <1>2, Numbers DEF Life1
<1>4. /\ Handling' => Handling
      /\ InCallback' => InCallback
      /\ \A u \in Thread : pc[u] = "register" => pc'[u] = "register"
  BY <1>1, <1>3 DEF Handling, InCallback, Thread
<1>5. Life1'
  <2>1. ASSUME NEW u \in Thread, request'[u] # 0
        PROVE  pc'[u] = "register" /\ request'[u] <= sent' /\ request'[u] \notin m_callbacks'
    BY <1>1, <1>2, <1>3, <2>1, Numbers DEF Life1
  <2>2. request'["ui"] # request'["sock"] \/ request'["ui"] = 0
    BY <1>1, <1>2, <1>3, Numbers DEF Life1, Thread
  <2>3. \A r \in m_callbacks' : r <= sent'
    BY <1>1, <1>2, <1>3, Numbers DEF Life1
  <2> QED
    BY <1>1, <1>2, <1>4, <2>1, <2>2, <2>3 DEF Life1, NoRequest
<1>6. ASSUME NEW r \in Request, Finished(r)' PROVE Older(r)'
  <2>1. Finished(r) /\ r \in Nat
    BY <1>1, <1>3, <1>6, Numbers DEF Finished
  <2>2. Older(r) /\ r <= sent
    BY <1>2, <2>1 DEF Life2, Finished
  <2>3. \A i \in 1 .. Len(requests') : r < requests'[i]
    <3>1. requests \in Seq(Nat) /\ sent \in Nat
      BY Numbers
    <3>2. CASE requests' = requests
      BY <2>2, <3>2 DEF Older
    <3>3. CASE requests' = Append(requests, sent + 1)
      BY <2>1, <2>2, <3>1, <3>3 DEF Older
    <3> QED
      BY <1>1, <3>2, <3>3
  <2> QED
    BY <1>1, <1>4, <2>2, <2>3 DEF Older
<1> QED
  BY <1>5, <1>6 DEF LifeInv, Life2

LEMMA LifeRegister ==
  ASSUME AllInv, ~Exited, NEW t \in Thread, Register(t)
  PROVE  LifeInv'
<1>1. /\ pc[t] = "register"
      /\ \E to \in {"loop", "check"} : pc' = [pc EXCEPT ![t] = to]
      /\ m_callbacks' = m_callbacks \cup {request[t]}
      /\ request' = [request EXCEPT ![t] = 0]
      /\ UNCHANGED <<sent, answer, netVars>>
  BY DEF Register, Goto, NoRequest
<1>2. Life1 /\ Life2
  BY DEF AllInv, LifeInv
<1>3. /\ request[t] \in Request /\ request[t] # 0
      /\ request \in [Thread -> Nat] /\ DOMAIN pc = Thread
  BY <1>1, Numbers DEF AllInv, TypeInv
<1>4. (Handling' => Handling) /\ (InCallback' => InCallback)
  BY <1>1, <1>3 DEF Handling, InCallback, Thread
<1>5. Life1'
  <2>1. ASSUME NEW u \in Thread, request'[u] # 0
        PROVE  pc'[u] = "register" /\ request'[u] <= sent' /\ request'[u] \notin m_callbacks'
    BY <1>1, <1>2, <1>3, <2>1, Numbers DEF Life1, Thread
  <2>2. request'["ui"] = request'["sock"] => request'["ui"] = 0
    BY <1>1, <1>3, <1>2, Numbers DEF Life1, Thread
  <2>3. \A r \in m_callbacks' : r <= sent'
    BY <1>1, <1>2, <1>3, Numbers DEF Life1
  <2> QED
    BY <1>1, <1>2, <1>4, <2>1, <2>2, <2>3, Numbers DEF Life1
<1>6. ASSUME NEW r \in Request, Finished(r)' PROVE Older(r)'
  <2>1. Finished(r)
    BY <1>1, <1>3, <1>6 DEF Finished
  <2> QED
    BY <1>1, <1>2, <1>4, <2>1 DEF Life2, Older, netVars
<1> QED
  BY <1>5, <1>6 DEF LifeInv, Life2

LEMMA LifeRecv ==
  ASSUME AllInv, ~Exited, Recv
  PROVE  LifeInv'
<1>1. /\ pc["sock"] = "recv" /\ pc' = [pc EXCEPT !["sock"] = "find"]
      /\ inbox # <<>> /\ answer' = Head(inbox) /\ inbox' = <<>>
      /\ UNCHANGED <<m_callbacks, sent, request, requests>>
  BY DEF Recv, Goto
<1>2. Life1 /\ Life2
  BY DEF AllInv, LifeInv
<1>3. pc'["sock"] = "find" /\ pc'["ui"] = pc["ui"]
  BY <1>1, Numbers DEF Thread
<1>4. answer' = inbox[1] /\ 1 \in 1 .. Len(inbox) /\ Len(inbox') = 0
  <2>1. inbox \in Seq(Nat)
    BY Numbers
  <2> QED
    BY <1>1, <2>1
<1>5. ~InCallback' /\ \A t \in Thread : pc[t] = "register" => pc'[t] = "register"
  BY <1>1, <1>3 DEF InCallback, Thread
<1>6. Life1'
  BY <1>1, <1>2, <1>5 DEF Life1
<1>7. ASSUME NEW r \in Request, Finished(r)' PROVE Older(r)'
  <2>1. Finished(r)
    BY <1>1, <1>7 DEF Finished
  <2>2. Older(r)
    BY <1>2, <2>1 DEF Life2
  <2> QED
    BY <1>1, <1>4, <2>2 DEF Older
<1> QED
  BY <1>6, <1>7 DEF LifeInv, Life2

LEMMA LifeErase ==
  ASSUME AllInv, ~Exited, Erase
  PROVE  LifeInv'
<1>1. /\ pc["sock"] = "erase" /\ pc' = [pc EXCEPT !["sock"] = "timer"]
      /\ m_callbacks' = m_callbacks \ {answer}
      /\ UNCHANGED <<sent, request, answer, netVars>>
  BY DEF Erase, Goto
<1>2. Life1 /\ Life2 /\ InFlight
  BY DEF AllInv, LifeInv, FlightInv
<1>3. pc'["sock"] = "timer" /\ pc'["ui"] = pc["ui"] /\ Handling
  BY <1>1, Numbers DEF Thread, Handling
<1>4. ~InCallback' /\ ~Handling' /\ \A t \in Thread : pc[t] = "register" => pc'[t] = "register"
  BY <1>1, <1>3 DEF InCallback, Handling, Thread
<1>5. Life1'
  BY <1>1, <1>2, <1>4 DEF Life1
<1>6. ASSUME NEW r \in Request, Finished(r)' PROVE Older(r)'
  <2>1. CASE r = answer
    BY <1>1, <1>2, <1>3, <1>4, <2>1 DEF Older, InFlight, netVars
  <2>2. CASE r # answer
    <3>1. Finished(r)
      BY <1>1, <1>6, <2>2 DEF Finished
    <3> QED
      BY <1>1, <1>2, <1>4, <3>1 DEF Life2, Older, netVars
  <2> QED
    BY <2>1, <2>2
<1> QED
  BY <1>5, <1>6 DEF LifeInv, Life2

LEMMA LifeNetwork ==
  ASSUME AllInv, ServerAnswers \/ LinkLost
  PROVE  LifeInv'
<1>1. UNCHANGED <<pc, callbackVars>>
  BY DEF ServerAnswers, LinkLost
<1>2. CASE Exited
  BY <1>1, <1>2 DEF LifeInv, Exited
<1>3. CASE ~Exited
  <2>1. Life1 /\ Life2
    BY <1>3 DEF AllInv, LifeInv
  <2>2. Life1'
    BY <1>1, <2>1 DEF Life1, InCallback, callbackVars
  <2>3. requests \in Seq(Nat) /\ inbox \in Seq(Nat)
    BY Numbers
  <2>4. ASSUME NEW r \in Request, Finished(r)' PROVE Older(r)'
    <3>1. Finished(r) /\ r \in Nat
      BY <1>1, <2>4, Numbers DEF Finished, callbackVars
    <3>2. Older(r)
      BY <2>1, <3>1 DEF Life2
    <3>3. \A i \in 1 .. Len(requests') : r < requests'[i]
      <4>1. CASE ServerAnswers
        <5>1. PICK k \in 2 .. Len(requests) + 1 : requests' = SubSeq(requests, k, Len(requests))
          BY <4>1 DEF ServerAnswers
        <5>2. \A i \in 1 .. Len(requests') :
                i + k - 1 \in 1 .. Len(requests) /\ requests'[i] = requests[i + k - 1]
          BY <2>3, <5>1
        <5> QED
          BY <3>2, <5>2 DEF Older
      <4>2. CASE LinkLost
        BY <4>2 DEF LinkLost
      <4> QED
        BY <4>1, <4>2
    <3>4. \A i \in 1 .. Len(inbox') : r < inbox'[i]
      <4>1. CASE ServerAnswers
        <5>1. /\ inbox' = Append(inbox, Head(requests)) /\ Head(requests) = requests[1]
              /\ 1 \in 1 .. Len(requests)
          BY <2>3, <4>1 DEF ServerAnswers
        <5>2. requests[1] \in Nat /\ r < requests[1]
          BY <2>3, <3>2, <5>1 DEF Older
        <5>3. \A i \in 1 .. Len(inbox') :
                (i \in 1 .. Len(inbox) /\ inbox'[i] = inbox[i]) \/ inbox'[i] = requests[1]
          BY <2>3, <5>1, <5>2
        <5> QED
          BY <3>2, <5>2, <5>3 DEF Older
      <4>2. CASE LinkLost
        BY <3>2, <4>2 DEF LinkLost, Older
      <4> QED
        BY <4>1, <4>2
    <3> QED
      BY <1>1, <3>2, <3>3, <3>4 DEF Older, Handling, callbackVars
  <2> QED
    BY <2>2, <2>4 DEF LifeInv, Life2
<1> QED
  BY <1>2, <1>3

\* Once the process has ended only the network moves.
LEMMA ExitedIsStill ==
  ASSUME LockInv, Exited, Next
  PROVE  ServerAnswers \/ LinkLost
<1> USE DEF LockInv, Exited, Goto, Move
<1>1. ~(UiStep \/ Wake)
  BY DEF UiStep, Start, RefreshInventory, Sleep, LeaveLoop, Wake, OtherEvent, EchoButton,
         CloseWindow, Write, WriteFails, Register, Stop, Join, StartFails, EchoTooLong
<1>2. ~(SockStep \/ Lock)
  BY DEF SockStep, Check, Poll, Recv, RecvClosed, RecvError, Find, Lock, Update, Erase, Timer,
         Write, WriteFails, Register, Lost
<1> QED
  BY <1>1, <1>2 DEF Next, CallbackMapRace, FallOffEnd

LEMMA LifeStep == AllInv /\ [Next]_vars => LifeInv'
<1> SUFFICES ASSUME AllInv, [Next]_vars PROVE LifeInv'
  OBVIOUS
<1>1. CASE UNCHANGED vars
  BY <1>1 DEF AllInv, LifeInv, Life1, Life2, Finished, Older, Exited, InCallback, Handling,
              vars, callbackVars, netVars
<1>2. CASE Next /\ Exited
  BY <1>2, ExitedIsStill, LifeNetwork DEF AllInv
<1>3. CASE Next /\ ~Exited
  <2>1. CASE \/ StartFails \/ EchoTooLong \/ CallbackMapRace \/ FallOffEnd
            \/ WriteFails("ui") \/ WriteFails("sock") \/ RecvError
    BY <2>1, LifeExited DEF StartFails, EchoTooLong, CallbackMapRace, FallOffEnd, WriteFails, RecvError
  <2>2. CASE \E t \in Thread : Write(t) \/ Register(t)
    BY <1>3, <2>2, LifeWrite, LifeRegister
  <2> QED
    BY <1>3, <2>1, <2>2, LifeRecv, LifeErase, LifeNetwork, LifeOther DEF Next, UiStep, SockStep, Thread
<1> QED
  BY <1>1, <1>2, <1>3

LEMMA AllAlways == Spec => []AllInv
<1>1. Init => AllInv
  BY LockInit, TypeInit, FlightInit, LifeInit DEF AllInv
<1>2. AllInv /\ [Next]_vars => AllInv'
  BY LockStep, TypeStep, FlightStep, LifeStep DEF AllInv
<1> QED
  BY <1>1, <1>2, PTL DEF Spec

-----------------------------------------------------------------------------
(* The phases.                                                             *)

Sent(r)    == \E t \in Thread : request[t] = r
Running(r) == InCallback /\ answer = r

\* What each phase means in a state the client can be in.
PhaseMeans(r) ==
  /\ Exited => PhaseOf(r) = "gone"
  /\ ~Exited =>
       /\ PhaseOf(r) \in {"unused", "sent", "waiting", "running", "done"}
       /\ PhaseOf(r) = "unused" <=> r > sent
       /\ PhaseOf(r) = "sent" <=> Sent(r)
       /\ PhaseOf(r) = "waiting" <=> r \in m_callbacks /\ ~Running(r)
       /\ PhaseOf(r) = "running" <=> Running(r)
       /\ PhaseOf(r) = "done" <=> Finished(r)

LEMMA PhaseLaw == AllInv => \A r \in Request : PhaseMeans(r)
<1> SUFFICES ASSUME AllInv, NEW r \in Request PROVE PhaseMeans(r)
  OBVIOUS
<1>1. CASE Exited
  BY <1>1 DEF PhaseMeans, PhaseOf
<1>2. CASE ~Exited
  <2>1. Life1 /\ sent \in Nat /\ r \in Nat /\ r # NoRequest
    BY <1>2, Numbers DEF AllInv, LifeInv
  <2>2. Sent(r) => r <= sent /\ r \notin m_callbacks /\ ~(r > sent)
    <3> SUFFICES ASSUME NEW t \in Thread, request[t] = r
                 PROVE  r <= sent /\ r \notin m_callbacks
      BY <2>1 DEF Sent
    <3>1. request[t] # NoRequest
      BY <2>1
    <3> QED
      BY <2>1, <3>1 DEF Life1
  <2>3. r \in m_callbacks => r <= sent /\ ~(r > sent)
    BY <2>1, Numbers DEF Life1
  <2>4. Running(r) => r \in m_callbacks
    BY <2>1 DEF Running, Life1
  <2>5. Finished(r) <=> ~(r > sent) /\ r \notin m_callbacks /\ ~Sent(r)
    BY <2>1 DEF Finished, Sent
  <2>6. PhaseOf(r) = IF Sent(r) THEN "sent" ELSE IF Running(r) THEN "running"
                     ELSE IF r \in m_callbacks THEN "waiting"
                     ELSE IF r > sent THEN "unused" ELSE "done"
    BY <1>2, <2>2, <2>3, <2>4 DEF PhaseOf, Sent, Running
  <2> QED
    BY <1>2, <2>2, <2>3, <2>4, <2>5, <2>6 DEF PhaseMeans
<1> QED
  BY <1>1, <1>2

LEMMA PhaseLawNext == AllInv' => \A r \in Request : PhaseMeans(r)'
<1>1. AllInv' => (\A r \in Request : PhaseMeans(r))'
  BY PhaseLaw, PTL
<1> QED
  BY <1>1

phase == [r \in Request |-> PhaseOf(r)]

\* Every request keeps its phase.
LEMMA PhasesKept ==
  ASSUME \A r \in Request : PhaseOf(r)' = PhaseOf(r)
  PROVE  phase' = phase
BY DEF phase

\* One request goes from one phase to another.
LEMMA PhaseAdvances ==
  ASSUME NEW r \in Request, NEW from, NEW to,
         PhaseOf(r) = from, PhaseOf(r)' = to,
         \A q \in Request \ {r} : PhaseOf(q)' = PhaseOf(q)
  PROVE  Life!Advance(r, from, to)
<1>1. phase[r] = from /\ phase' = [phase EXCEPT ![r] = to]
  BY DEF phase
<1> QED
  BY <1>1 DEF Life!Advance, phase

\* A step that changes neither the callbacks nor whose turn it is.
LEMMA SamePhases ==
  ASSUME AllInv, AllInv', Exited' <=> Exited, UNCHANGED <<m_callbacks, sent, request>>,
         \A r \in Request : Running(r)' <=> Running(r)
  PROVE  phase' = phase
<1>1. ASSUME NEW r \in Request PROVE PhaseOf(r)' = PhaseOf(r)
  <2>1. PhaseMeans(r) /\ PhaseMeans(r)'
    BY PhaseLaw, PhaseLawNext
  <2>2. Sent(r)' = Sent(r) /\ Finished(r)' = Finished(r)
    BY DEF Sent, Finished
  <2>3. CASE Exited
    BY <2>1, <2>3 DEF PhaseMeans
  <2>4. CASE ~Exited
    BY <2>1, <2>2, <2>4 DEF PhaseMeans
  <2> QED
    BY <2>3, <2>4
<1> QED
  BY <1>1, PhasesKept

LEMMA LifeEnd ==
  ASSUME AllInv', Exit
  PROVE  Life!End
<1>1. Exited'
  BY DEF Exit, Exited, Thread
<1>2. \A r \in Request : PhaseOf(r)' = "gone"
  BY <1>1, PhaseLawNext DEF PhaseMeans
<1> QED
  BY <1>2 DEF Life!End

LEMMA WriteSends ==
  ASSUME AllInv, AllInv', ~Exited, NEW t \in Thread, Write(t)
  PROVE  Life!Next
<1>1. /\ pc[t] = "write" /\ pc' = [pc EXCEPT ![t] = "register"] /\ sent' = sent + 1
      /\ request' = [request EXCEPT ![t] = sent + 1]
      /\ UNCHANGED <<m_callbacks, answer>>
  BY DEF Write, Goto
<1>2. /\ request[t] = 0 /\ sent \in Nat /\ request \in [Thread -> Nat]
      /\ DOMAIN pc = Thread /\ sent + 1 \in Request /\ Life1
  <2>1. Life1
    BY DEF AllInv, LifeInv
  <2>2. sent' \in 0 .. MaxRequests
    BY DEF AllInv, TypeInv, TypeOK
  <2> QED
    BY <1>1, <2>1, <2>2, Numbers DEF Life1, Request
<1>3. ~Exited'
  BY <1>1, <1>2 DEF Exited, Thread
<1> DEFINE r == sent + 1
<1>4. \A q \in Request : PhaseMeans(q) /\ PhaseMeans(q)'
  BY PhaseLaw, PhaseLawNext
<1>5. PhaseOf(r) = "unused" /\ \A q \in Request : q < r => PhaseOf(q) # "unused"
  BY <1>2, <1>4, Numbers DEF PhaseMeans
<1> PICK n \in Request : n = sent + 1
  BY <1>2
<1>6. PhaseOf(n)' = "sent"
  <2>1. Sent(n)'
    BY <1>1, <1>2 DEF Sent
  <2> QED
    BY <1>3, <1>4, <2>1 DEF PhaseMeans
<1>7. ASSUME NEW q \in Request \ {n} PROVE PhaseOf(q)' = PhaseOf(q)
  <2>1. q > sent' <=> q > sent
    BY <1>1, <1>2, Numbers
  <2>2. Sent(q)' <=> Sent(q)
    BY <1>1, <1>2, Numbers DEF Sent
  <2>3. Running(q)' <=> Running(q)
    BY <1>1, <1>2 DEF Running, InCallback, Thread
  <2>4. PhaseMeans(q) /\ PhaseMeans(q)' /\ UNCHANGED m_callbacks
    BY <1>1, <1>4
  <2> QED
    BY <1>3, <2>1, <2>2, <2>3, <2>4 DEF PhaseMeans
<1>8. Life!Advance(n, "unused", "sent")
  BY <1>5, <1>6, <1>7, PhaseAdvances
<1>9. \A q \in Request : q < n => phase[q] # "unused"
  BY <1>5 DEF phase
<1> QED
  BY <1>8, <1>9 DEF Life!Next, Life!Send, phase

LEMMA RegisterRegisters ==
  ASSUME AllInv, AllInv', ~Exited, NEW t \in Thread, Register(t)
  PROVE  Life!Next
<1>1. /\ pc[t] = "register"
      /\ \E to \in {"loop", "check"} : pc' = [pc EXCEPT ![t] = to]
      /\ m_callbacks' = m_callbacks \cup {request[t]}
      /\ request' = [request EXCEPT ![t] = 0]
      /\ UNCHANGED <<sent, answer>>
  BY DEF Register, Goto, NoRequest
<1>2. request \in [Thread -> Nat] /\ DOMAIN pc = Thread /\ request[t] \in Request /\ Life1
  BY <1>1, Numbers DEF AllInv, TypeInv, LifeInv
<1>3. ~Exited'
  BY <1>1, <1>2 DEF Exited, Thread
<1> PICK n \in Request : n = request[t]
  BY <1>2
<1>4. \A q \in Request : PhaseMeans(q) /\ PhaseMeans(q)'
  BY PhaseLaw, PhaseLawNext
<1>5. ASSUME NEW q \in Request PROVE Running(q)' <=> Running(q)
  BY <1>1, <1>2 DEF Running, InCallback, Thread
<1>6. PhaseOf(n) = "sent"
  BY <1>4 DEF PhaseMeans, Sent
<1>7. PhaseOf(n)' = "waiting"
  <2>1. n \in m_callbacks' /\ ~Running(n)'
    <3>1. ~Running(n)
      BY <1>4, <1>6 DEF PhaseMeans
    <3> QED
      BY <1>1, <1>5, <3>1
  <2> QED
    BY <1>3, <1>4, <2>1 DEF PhaseMeans
<1>8. ASSUME NEW q \in Request \ {n} PROVE PhaseOf(q)' = PhaseOf(q)
  <2>1. /\ Sent(q)' <=> Sent(q)
        /\ q \in m_callbacks' <=> q \in m_callbacks
        /\ q > sent' <=> q > sent
    BY <1>1, <1>2, Numbers DEF Sent
  <2> QED
    BY <1>3, <1>4, <1>5, <2>1 DEF PhaseMeans
<1>9. Life!Advance(n, "sent", "waiting")
  BY <1>6, <1>7, <1>8, PhaseAdvances
<1> QED
  BY <1>9 DEF Life!Next, Life!Register

LEMMA FindRuns ==
  ASSUME AllInv, AllInv', ~Exited, Find
  PROVE  Life!Next \/ phase' = phase
<1>1. /\ pc["sock"] = "find" /\ pc' = [pc EXCEPT !["sock"] = IF answer \in m_callbacks THEN "lock" ELSE "timer"]
      /\ UNCHANGED <<m_callbacks, sent, request, answer>>
  BY DEF Find, Move, Goto, callbackVars
<1>2. /\ pc'["sock"] = IF answer \in m_callbacks THEN "lock" ELSE "timer"
      /\ pc'["ui"] = pc["ui"]
  BY <1>1, Numbers DEF Thread
<1>3. ~Exited' /\ ~InCallback
  BY <1>1, <1>2 DEF Exited, InCallback
<1>4. CASE answer \notin m_callbacks
  <2>1. \A r \in Request : Running(r)' <=> Running(r)
    BY <1>2, <1>3, <1>4 DEF Running, InCallback
  <2> QED
    BY <1>1, <1>3, <2>1, SamePhases
<1>5. CASE answer \in m_callbacks
  <2> PICK n \in Request : n = answer
    BY <1>5, Numbers
  <2>1. \A q \in Request : PhaseMeans(q) /\ PhaseMeans(q)'
    BY PhaseLaw, PhaseLawNext
  <2>2. \A q \in Request : ~Running(q) /\ (Running(q)' <=> q = n)
    BY <1>1, <1>2, <1>3, <1>5 DEF Running, InCallback
  <2>3. PhaseOf(n) = "waiting" /\ PhaseOf(n)' = "running"
    BY <1>3, <1>5, <2>1, <2>2 DEF PhaseMeans
  <2>4. ASSUME NEW q \in Request \ {n} PROVE PhaseOf(q)' = PhaseOf(q)
    <3>1. Sent(q)' <=> Sent(q)
      BY <1>1 DEF Sent
    <3> QED
      BY <1>1, <1>3, <2>1, <2>2, <3>1 DEF PhaseMeans
  <2>5. \A q \in Request : phase[q] # "running"
    BY <2>1, <2>2 DEF PhaseMeans, phase
  <2>6. ASSUME NEW q \in Request, phase[q] = "done" PROVE q < n
    <3>1. Finished(q)
      BY <2>1, <2>6 DEF PhaseMeans, phase
    <3>2. Older(q) /\ Handling
      BY <1>1, <3>1 DEF AllInv, LifeInv, Life2, Handling
    <3> QED
      BY <3>2 DEF Older
  <2>7. Life!Advance(n, "waiting", "running")
    BY <2>3, <2>4, PhaseAdvances
  <2> QED
    BY <2>5, <2>6, <2>7 DEF Life!Next, Life!Run, phase
<1> QED
  BY <1>4, <1>5

LEMMA EraseFinishes ==
  ASSUME AllInv, AllInv', ~Exited, Erase
  PROVE  Life!Next
<1>1. /\ pc["sock"] = "erase" /\ pc' = [pc EXCEPT !["sock"] = "timer"]
      /\ m_callbacks' = m_callbacks \ {answer}
      /\ UNCHANGED <<sent, request, answer>>
  BY DEF Erase, Goto
<1>2. pc'["sock"] = "timer" /\ pc'["ui"] = pc["ui"]
  BY <1>1, Numbers DEF Thread
<1>3. ~Exited' /\ InCallback /\ ~InCallback' /\ Life1
  BY <1>1, <1>2 DEF Exited, InCallback, AllInv, LifeInv
<1> PICK n \in Request : n = answer
  BY <1>3, Numbers DEF Life1
<1>4. \A q \in Request : PhaseMeans(q) /\ PhaseMeans(q)'
  BY PhaseLaw, PhaseLawNext
<1>5. \A q \in Request : ~Running(q)' /\ (Running(q) <=> q = n)
  BY <1>3 DEF Running
<1>6. PhaseOf(n) = "running"
  BY <1>4, <1>5 DEF PhaseMeans
<1>7. PhaseOf(n)' = "done"
  <2>1. n \notin m_callbacks' /\ n <= sent' /\ ~Sent(n)
    BY <1>1, <1>3, <1>4, <1>6 DEF Life1, PhaseMeans
  <2>2. Finished(n)'
    BY <1>1, <2>1 DEF Finished, Sent
  <2> QED
    BY <1>3, <1>4, <2>2 DEF PhaseMeans
<1>8. ASSUME NEW q \in Request \ {n} PROVE PhaseOf(q)' = PhaseOf(q)
  <2>1. (Sent(q)' <=> Sent(q)) /\ (q \in m_callbacks' <=> q \in m_callbacks)
    BY <1>1 DEF Sent
  <2> QED
    BY <1>1, <1>3, <1>4, <1>5, <2>1 DEF PhaseMeans
<1>9. Life!Advance(n, "running", "done")
  BY <1>6, <1>7, <1>8, PhaseAdvances
<1> QED
  BY <1>9 DEF Life!Next, Life!Finish

\* Every other step of either thread, and of the network.
LEMMA OthersKeepPhases ==
  ASSUME AllInv, AllInv', ~Exited,
         \/ Start \/ RefreshInventory \/ Sleep \/ LeaveLoop \/ Wake \/ OtherEvent
         \/ EchoButton \/ CloseWindow \/ Stop \/ Join
         \/ Check \/ Poll \/ Recv \/ RecvClosed \/ Lock \/ Update \/ Timer \/ Lost
         \/ ServerAnswers \/ LinkLost
  PROVE  phase' = phase
<1> USE DEF Goto, Move, LockInv, AllInv, Thread, Exited
<1>1. UNCHANGED <<m_callbacks, sent, request>>
  BY DEF Start, RefreshInventory, Sleep, LeaveLoop, Wake, OtherEvent, EchoButton, CloseWindow, Stop,
         Join, Check, Poll, Recv, RecvClosed, Lock, Update, Timer, Lost, ServerAnswers, LinkLost, callbackVars
<1>2. Exited' = Exited
  <2>1. CASE Start \/ RefreshInventory \/ Sleep \/ LeaveLoop \/ Wake \/ OtherEvent \/ EchoButton
             \/ CloseWindow \/ Stop \/ Join
    BY <2>1 DEF Start, RefreshInventory, Sleep, LeaveLoop, Wake, OtherEvent, EchoButton, CloseWindow,
                Stop, Join
  <2>2. CASE Check \/ Poll \/ Recv \/ RecvClosed \/ Lock \/ Update \/ Timer \/ Lost
    BY <2>2 DEF Check, Poll, Recv, RecvClosed, Lock, Update, Timer, Lost
  <2>3. CASE ServerAnswers \/ LinkLost
    BY <2>3 DEF ServerAnswers, LinkLost
  <2> QED
    BY <2>1, <2>2, <2>3
<1>3. \A r \in Request : Running(r)' <=> Running(r)
  <2> USE DEF Running, InCallback
  <2>1. CASE Start \/ RefreshInventory \/ Sleep \/ LeaveLoop \/ Wake \/ OtherEvent \/ EchoButton
             \/ CloseWindow \/ Stop \/ Join
    BY <2>1 DEF Start, RefreshInventory, Sleep, LeaveLoop, Wake, OtherEvent, EchoButton, CloseWindow,
                Stop, Join, callbackVars
  <2>2. CASE Check \/ Poll \/ Recv \/ RecvClosed \/ Lock \/ Update \/ Timer \/ Lost
    BY <2>2 DEF Check, Poll, Recv, RecvClosed, Lock, Update, Timer, Lost, callbackVars
  <2>3. CASE ServerAnswers \/ LinkLost
    BY <2>3 DEF ServerAnswers, LinkLost, callbackVars
  <2> QED
    BY <2>1, <2>2, <2>3
<1> HIDE DEF AllInv, LockInv, Exited, Goto, Move, Thread
<1> QED
  BY <1>1, <1>2, <1>3, SamePhases

LEMMA LifeNext == AllInv /\ AllInv' /\ [Next]_vars => [Life!Next]_phase
<1> SUFFICES ASSUME AllInv, AllInv', [Next]_vars PROVE Life!Next \/ phase' = phase
  BY DEF phase
<1>1. CASE UNCHANGED vars
  <2>1. /\ (Exited' <=> Exited) /\ UNCHANGED <<m_callbacks, sent, request>>
        /\ \A r \in Request : Running(r)' <=> Running(r)
    BY <1>1 DEF vars, callbackVars, Exited, Running, InCallback
  <2> QED
    BY <2>1, SamePhases
<1>2. CASE Next /\ Exited
  <2>1. UNCHANGED <<pc, callbackVars>>
    BY <1>2, ExitedIsStill DEF AllInv, ServerAnswers, LinkLost
  <2>2. /\ (Exited' <=> Exited) /\ UNCHANGED <<m_callbacks, sent, request>>
        /\ \A r \in Request : Running(r)' <=> Running(r)
    BY <2>1 DEF callbackVars, Exited, Running, InCallback
  <2> QED
    BY <2>2, SamePhases
<1>3. CASE Next /\ ~Exited
  <2>1. CASE \/ StartFails \/ EchoTooLong \/ CallbackMapRace \/ FallOffEnd
            \/ WriteFails("ui") \/ WriteFails("sock") \/ RecvError
    <3>1. Life!End
      BY <2>1, LifeEnd DEF StartFails, EchoTooLong, CallbackMapRace, FallOffEnd, WriteFails, RecvError
    <3> QED
      BY <3>1 DEF Life!Next
  <2>2. CASE \E t \in Thread : Write(t) \/ Register(t)
    BY <1>3, <2>2, WriteSends, RegisterRegisters
  <2> QED
    BY <1>3, <2>1, <2>2, FindRuns, EraseFinishes, OthersKeepPhases DEF Next, UiStep, SockStep, Thread
<1> QED
  BY <1>1, <1>2, <1>3

\* Whatever the two threads, the server and the network do, and in whatever
\* order: the callback of a request runs at most once, after add_callback, never
\* two at a time, and in the order of the requests.
THEOREM ClientImplementsCallbacks == Spec => ImplementsCallbacks
<1>1. Init => Life!Init
  <2> SUFFICES ASSUME Init, NEW r \in Request PROVE PhaseOf(r) = "unused"
    BY DEF Life!Init
  <2>1. AllInv /\ ~Exited /\ sent = 0 /\ r \in Nat /\ 0 < r
    BY LockInit, TypeInit, FlightInit, LifeInit, Numbers DEF AllInv, Init, Exited, Thread
  <2> QED
    BY <2>1, PhaseLaw DEF PhaseMeans
<1>2. AllInv /\ AllInv' /\ [Next]_vars => [Life!Next]_phase
  BY LifeNext
<1> QED
  BY <1>1, <1>2, AllAlways, PTL DEF Spec, ImplementsCallbacks, Life!Spec, phase

-----------------------------------------------------------------------------
(* What the threads cannot get out of.                                     *)

\* The hang and the clogged buffers end only with the process or the connection.
THEOREM StuckStays == Spec => StuckForGood
<1>1. ASSUME LockInv, [Next]_vars, Hung PROVE Hung'
  <2>1. pc["ui"] = "join" /\ pc["sock"] = "lock" /\ lock = "ui"
    BY <1>1 DEF Hung, LockInv
  <2>2. UNCHANGED pc
    BY <1>1, <2>1 DEF Next, vars, UiStep, SockStep, Goto, Move, Start, StartFails, RefreshInventory, Sleep,
       LeaveLoop, EchoTooLong, Wake, OtherEvent, EchoButton, CloseWindow, Write, WriteFails, Register, Stop, Join, Check, Poll,
       Recv, RecvClosed, RecvError, Find, Lock, Update, Erase, Timer, Lost, CallbackMapRace, FallOffEnd,
       ServerAnswers, LinkLost
  <2> QED
    BY <2>1, <2>2 DEF Hung
<1>2. ASSUME LockInv, [Next]_vars, Clogged, link' = "open", ~Exited' PROVE Clogged'
  <2>1. /\ link = "open" /\ Len(requests) = Capacity /\ Len(inbox) = Capacity
        /\ ~(Len(requests) < Capacity) /\ ~(Len(inbox) < Capacity)
    BY <1>2, ClientAssumption DEF Clogged
  <2>2. /\ pc["sock"] = "write" \/ (pc["ui"] = "write" /\ pc["sock"] = "lock" /\ lock = "ui")
        /\ DOMAIN pc = Thread
    BY <1>2 DEF Clogged, LockInv
  <2>3. UNCHANGED <<requests, inbox>>
    BY <1>2, <2>1, <2>2 DEF Next, vars, netVars, UiStep, SockStep, Goto, Move, Exit, Start, StartFails,
       RefreshInventory, Sleep, LeaveLoop, EchoTooLong, Wake, OtherEvent, EchoButton, CloseWindow, Write, WriteFails, Register, Stop, Join,
       Check, Poll, Recv, RecvClosed, RecvError, Find, Lock, Update, Erase, Timer, Lost, CallbackMapRace,
       FallOffEnd, ServerAnswers, LinkLost
  <2>4. ~Exit
    BY <1>2 DEF Exit, Exited, Thread
  <2>5. /\ pc["sock"] = "write" => pc'["sock"] = "write"
        /\ pc["ui"] = "write" /\ pc["sock"] = "lock" => pc' = pc
    BY <1>2, <2>1, <2>2, <2>4 DEF Next, vars, UiStep, SockStep, Goto, Move, Start, StartFails,
       RefreshInventory, Sleep, LeaveLoop, EchoTooLong, Wake, OtherEvent, EchoButton, CloseWindow, Write, WriteFails, Register, Stop, Join, Check,
       Poll, Recv, RecvClosed, RecvError, Find, Lock, Update, Erase, Timer, Lost, CallbackMapRace, FallOffEnd,
       ServerAnswers, LinkLost, Thread, LockInv
  <2> QED
    BY <1>2, <2>1, <2>2, <2>3, <2>5 DEF Clogged
<1>3. LockInv /\ [Next]_vars => [(Hung => Hung') /\ (Clogged => Clogged' \/ link' # "open" \/ Exited')]_vars
  BY <1>1, <1>2
<1> QED
  BY <1>3, LockAlways, PTL DEF Spec, StuckForGood
=============================================================================

--------------------------- MODULE ClientUIProofs ---------------------------
(***************************************************************************)
(* Proofs about ClientUI for every bound on the requests.                  *)
(***************************************************************************)
EXTENDS ClientUI, FiniteSetTheorems, TLAPS

\* Who holds FLTK's lock.  Only the thread that holds it lets go of it, and the
\* UI thread does so only to sleep: after the loop it keeps the lock for good.
LockInv ==
  /\ pc \in [Thread -> UiState \cup SockState \cup {"exited"}]
  /\ pc["ui"] = "start" <=> pc["sock"] = "none"
  /\ pc["ui"] = "exited" <=> pc["sock"] = "exited"
  /\ pc["ui"] \notin {"start", "sleep", "exited"} => lock = "ui"
  /\ pc["sock"] = "update" => lock = "sock"

LEMMA LockInit == Init => LockInv
BY DEF Init, LockInv, Thread, UiState, SockState

LEMMA LockUiStep ==
  ASSUME LockInv, UiStep \/ Wake
  PROVE  LockInv'
<1> USE DEF LockInv, Thread, UiState, SockState, Goto, Move, Exit, uiVars
<1>1. CASE Start \/ RefreshInventory \/ Sleep \/ LeaveLoop
  BY <1>1 DEF Start, RefreshInventory, Sleep, LeaveLoop
<1>2. CASE Wake \/ OtherEvent \/ EchoButton \/ CloseWindow
  BY <1>2 DEF Wake, OtherEvent, EchoButton, CloseWindow
<1>3. CASE Write("ui") \/ WriteFails("ui") \/ Register("ui")
  BY <1>3 DEF Write, WriteFails, Register
<1>4. CASE Stop \/ Join \/ StartFails \/ EchoTooLong
  BY <1>4 DEF Stop, Join, StartFails, EchoTooLong
<1> QED
  BY <1>1, <1>2, <1>3, <1>4 DEF UiStep

LEMMA LockSockStep ==
  ASSUME LockInv, SockStep \/ Lock
  PROVE  LockInv'
<1> USE DEF LockInv, Thread, UiState, SockState, Goto, Move, Exit, uiVars
<1>1. CASE Check \/ Poll \/ Recv \/ RecvClosed \/ RecvError
  BY <1>1 DEF Check, Poll, Recv, RecvClosed, RecvError
<1>2. CASE Find \/ Lock \/ Update \/ Erase
  BY <1>2 DEF Find, Lock, Update, Erase
<1>3. CASE Timer \/ Lost
  BY <1>3 DEF Timer, Lost
<1>4. CASE Write("sock") \/ WriteFails("sock") \/ Register("sock")
  BY <1>4 DEF Write, WriteFails, Register
<1> QED
  BY <1>1, <1>2, <1>3, <1>4 DEF SockStep

LEMMA LockStep == LockInv /\ [Next]_vars => LockInv'
<1> SUFFICES ASSUME LockInv, [Next]_vars PROVE LockInv'
  OBVIOUS
<1>1. CASE UNCHANGED vars
  BY <1>1 DEF LockInv, vars, uiVars
<1>2. CASE CallbackMapRace \/ FallOffEnd \/ ServerAnswers \/ LinkLost
  BY <1>2 DEF LockInv, CallbackMapRace, FallOffEnd, ServerAnswers, LinkLost, Exit, Thread, uiVars
<1> QED
  BY <1>1, <1>2, LockUiStep, LockSockStep DEF Next

LEMMA LockAlways == Spec => []LockInv
BY LockInit, LockStep, PTL DEF Spec

\* The socket thread changes widgets only while the UI thread sleeps.
THEOREM WidgetsAreExclusive == Spec => []WidgetsExclusive
<1>1. LockInv => WidgetsExclusive
  BY DEF LockInv, WidgetsExclusive
<1> QED
  BY <1>1, LockAlways, PTL

-----------------------------------------------------------------------------
(* Types, and the bound on the requests.                                   *)

Writing(t) == IF pc[t] = "write" THEN 1 ELSE 0

\* A thread reaches its write only while the requests written and about to be
\* written are within the bound, and registers what it has written.
TypeInv ==
  /\ TypeOK
  /\ sent + Writing("ui") + Writing("sock") <= MaxRequests
  /\ \A t \in Thread : pc[t] = "register" => request[t] \in Request

LEMMA WritersCount ==
  Cardinality({t \in Thread : pc[t] = "write"}) = Writing("ui") + Writing("sock")
<1> DEFINE W == {t \in Thread : pc[t] = "write"}
<1>1. /\ Cardinality({}) = 0 /\ IsFiniteSet({"sock"})
      /\ Cardinality({"ui"}) = 1 /\ Cardinality({"sock"}) = 1
  BY FS_EmptySet, FS_Singleton
<1>2. Cardinality({"sock"} \cup {"ui"}) = 2
  BY <1>1, FS_AddElement
<1>3. /\ pc["ui"] = "write" /\ pc["sock"] = "write" => W = {"sock"} \cup {"ui"}
      /\ pc["ui"] = "write" /\ pc["sock"] # "write" => W = {"ui"}
      /\ pc["ui"] # "write" /\ pc["sock"] = "write" => W = {"sock"}
      /\ pc["ui"] # "write" /\ pc["sock"] # "write" => W = {}
  BY DEF Thread
<1> HIDE DEF W
<1>4. Cardinality(W) = Writing("ui") + Writing("sock")
  BY <1>1, <1>2, <1>3 DEF Writing
<1> QED
  BY <1>4 DEF W

LEMMA TypeInit == Init => TypeInv
<1> SUFFICES ASSUME Init PROVE TypeInv
  OBVIOUS
<1>1. <<>> \in Seq(Request)
  OBVIOUS
<1>2. pc["ui"] = "start" /\ pc["sock"] = "none" /\ sent = 0 /\ 0 \in 0 .. MaxRequests
  BY ClientAssumption DEF Init, Thread
<1>3. TypeOK
  BY <1>1, <1>2 DEF Init, TypeOK, Thread, NoRequest, UiState, SockState
<1>4. \A t \in Thread : pc[t] # "register"
  BY <1>2 DEF Thread
<1> QED
  BY <1>2, <1>3, <1>4, ClientAssumption DEF TypeInv, Writing

\* Steps that send, receive and register nothing.
LEMMA TypeMove ==
  ASSUME TypeInv, UNCHANGED <<callbackVars, netVars>>,
         pc'["ui"] \in UiState \cup {"exited"}, pc'["sock"] \in SockState \cup {"exited"},
         lock' \in Thread \cup {"none"}, awake' \in BOOLEAN, m_running' \in BOOLEAN,
         sent + Writing("ui")' + Writing("sock")' <= MaxRequests,
         \A t \in Thread : pc'[t] = "register" => pc[t] = "register"
  PROVE  TypeInv'
BY DEF TypeInv, TypeOK, callbackVars, netVars

LEMMA TypeExit == TypeInv /\ Exit => TypeInv'
<1> SUFFICES ASSUME TypeInv, Exit PROVE TypeInv'
  OBVIOUS
<1>1. pc'["ui"] = "exited" /\ pc'["sock"] = "exited" /\ UNCHANGED <<uiVars, callbackVars, netVars>>
  BY DEF Exit, Thread
<1>2. sent \in Nat /\ sent <= MaxRequests
  BY ClientAssumption DEF TypeInv, TypeOK
<1>3. sent + Writing("ui")' + Writing("sock")' <= MaxRequests
  BY <1>1, <1>2 DEF Writing
<1> QED
  BY <1>1, <1>3, TypeMove DEF TypeInv, TypeOK, uiVars, Thread

LEMMA TypeOther ==
  ASSUME LockInv, TypeInv,
         \/ Start \/ RefreshInventory \/ Sleep \/ LeaveLoop \/ Wake \/ OtherEvent
         \/ EchoButton \/ CloseWindow \/ Stop \/ Join
         \/ Check \/ Poll \/ RecvClosed \/ Find \/ Lock \/ Update \/ Timer \/ Lost
  PROVE  TypeInv'
<1>1. UNCHANGED <<callbackVars, netVars>>
  BY DEF Move, Start, RefreshInventory, Sleep, LeaveLoop, Wake, OtherEvent, EchoButton, CloseWindow,
         Stop, Join, Check, Poll, RecvClosed, Find, Lock, Update, Timer, Lost
<1>2. lock' \in Thread \cup {"none"} /\ awake' \in BOOLEAN /\ m_running' \in BOOLEAN
  BY DEF TypeInv, TypeOK, Thread, uiVars, Move, Start, RefreshInventory, Sleep, LeaveLoop, Wake,
         OtherEvent, EchoButton, CloseWindow, Stop, Join, Check, Poll, RecvClosed, Find, Lock,
         Update, Timer, Lost
<1>3. pc'["ui"] \in UiState \cup {"exited"} /\ pc'["sock"] \in SockState \cup {"exited"}
  <2> USE DEF TypeInv, TypeOK, LockInv, UiState, SockState, Goto, Move, Thread
  <2>1. CASE \/ Start \/ RefreshInventory \/ Sleep \/ LeaveLoop \/ Wake \/ OtherEvent
             \/ EchoButton \/ CloseWindow \/ Stop \/ Join
    BY <2>1 DEF Start, RefreshInventory, Sleep, LeaveLoop, Wake, OtherEvent, EchoButton,
                CloseWindow, Stop, Join
  <2>2. CASE Check \/ Poll \/ RecvClosed \/ Find \/ Lock \/ Update \/ Timer \/ Lost
    BY <2>2 DEF Check, Poll, RecvClosed, Find, Lock, Update, Timer, Lost
  <2> QED
    BY <2>1, <2>2
<1>4. sent + Writing("ui")' + Writing("sock")' <= MaxRequests
  <2>1. sent \in Nat /\ MaxRequests \in Nat /\ sent + Writing("ui") + Writing("sock") <= MaxRequests
    BY ClientAssumption DEF TypeInv, TypeOK
  <2>2. MayRequest => sent + Writing("ui") + Writing("sock") < MaxRequests
    BY <2>1, WritersCount DEF MayRequest, Writing
  <2>3. CASE \/ Start \/ RefreshInventory \/ Sleep \/ LeaveLoop \/ Wake \/ OtherEvent
             \/ CloseWindow \/ Stop \/ Join
    <3>1. Writing("ui")' = 0 /\ Writing("sock")' = Writing("sock")
      BY <2>3 DEF LockInv, Writing, Thread, Goto, Move, Start, RefreshInventory, Sleep, LeaveLoop,
                  Wake, OtherEvent, CloseWindow, Stop, Join
    <3> QED
      BY <2>1, <3>1 DEF Writing
  <2>4. CASE EchoButton \/ Timer
    <3>1. /\ Writing("ui")' = Writing("ui") \/ (MayRequest /\ Writing("ui")' = 1 /\ Writing("ui") = 0)
          /\ Writing("sock")' = Writing("sock")
             \/ (MayRequest /\ Writing("sock")' = 1 /\ Writing("sock") = 0)
          /\ UNCHANGED Writing("ui") \/ UNCHANGED Writing("sock")
      BY <2>4 DEF LockInv, Writing, Thread, Goto, Move, EchoButton, Timer
    <3> QED
      BY <2>1, <2>2, <3>1 DEF Writing
  <2>5. CASE Check \/ Poll \/ RecvClosed \/ Find \/ Lock \/ Update \/ Lost
    <3>1. Writing("ui")' = Writing("ui") /\ Writing("sock")' = 0
      BY <2>5 DEF LockInv, Writing, Thread, Goto, Move, Check, Poll, RecvClosed, Find, Lock, Update, Lost
    <3> QED
      BY <2>1, <3>1 DEF Writing
  <2> QED
    BY <2>3, <2>4, <2>5
<1>5. \A t \in Thread : pc'[t] = "register" => pc[t] = "register"
  BY DEF LockInv, Thread, Goto, Move, Start, RefreshInventory, Sleep, LeaveLoop, Wake, OtherEvent,
         EchoButton, CloseWindow, Stop, Join, Check, Poll, RecvClosed, Find, Lock, Update, Timer, Lost
<1> QED
  BY <1>1, <1>2, <1>3, <1>4, <1>5, TypeMove

LEMMA TypeWrite ==
  ASSUME LockInv, TypeInv, NEW t \in Thread, Write(t)
  PROVE  TypeInv'
<1>1. /\ pc[t] = "write" /\ pc' = [pc EXCEPT ![t] = "register"] /\ sent' = sent + 1
      /\ request' = [request EXCEPT ![t] = sent']
      /\ requests' = requests \/ requests' = Append(requests, sent')
      /\ UNCHANGED <<uiVars, m_callbacks, answer, inbox, link>>
  BY DEF Write, Goto
<1>2. pc'["ui"] \in UiState \cup {"exited"} /\ pc'["sock"] \in SockState \cup {"exited"}
  BY <1>1 DEF TypeInv, TypeOK, LockInv, UiState, SockState, Thread
<1>3. sent' + Writing("ui")' + Writing("sock")' <= MaxRequests
  <2>1. sent \in Nat /\ MaxRequests \in Nat /\ sent + Writing("ui") + Writing("sock") <= MaxRequests
    BY ClientAssumption DEF TypeInv, TypeOK
  <2>2. /\ t = "ui" => Writing("ui") = 1 /\ Writing("ui")' = 0 /\ Writing("sock")' = Writing("sock")
        /\ t = "sock" => Writing("sock") = 1 /\ Writing("sock")' = 0 /\ Writing("ui")' = Writing("ui")
    BY <1>1 DEF LockInv, Writing, Thread
  <2> QED
    BY <1>1, <2>1, <2>2 DEF Thread, Writing
<1>4. sent' \in Request /\ sent' \in 0 .. MaxRequests
  BY <1>1, <1>3, ClientAssumption DEF TypeInv, TypeOK, Writing, Request
<1>5. requests' \in Seq(Request)
  <2>1. requests \in Seq(Request)
    BY DEF TypeInv, TypeOK
  <2> QED
    BY <1>1, <1>4, <2>1
<1>6. request' \in [Thread -> Request \cup {NoRequest}]
  BY <1>1, <1>4 DEF TypeInv, TypeOK
<1>7. \A u \in Thread : pc'[u] = "register" => request'[u] \in Request
  BY <1>1, <1>4 DEF TypeInv, TypeOK, LockInv
<1> QED
  BY <1>1, <1>2, <1>3, <1>4, <1>5, <1>6, <1>7 DEF TypeInv, TypeOK, uiVars

LEMMA TypeRegister ==
  ASSUME LockInv, TypeInv, NEW t \in Thread, Register(t)
  PROVE  TypeInv'
<1>1. /\ pc[t] = "register" /\ pc' = [pc EXCEPT ![t] = IF t = "ui" THEN "loop" ELSE "check"]
      /\ m_callbacks' = m_callbacks \cup {request[t]}
      /\ request' = [request EXCEPT ![t] = NoRequest]
      /\ UNCHANGED <<uiVars, sent, answer, netVars>>
  BY DEF Register, Goto
<1>2. pc'["ui"] \in UiState \cup {"exited"} /\ pc'["sock"] \in SockState \cup {"exited"}
  BY <1>1 DEF TypeInv, TypeOK, LockInv, UiState, SockState, Thread
<1>3. Writing("ui")' = Writing("ui") /\ Writing("sock")' = Writing("sock")
  BY <1>1 DEF LockInv, Writing, Thread
<1>4. request[t] \in Request /\ \A u \in Thread \ {t} : request'[u] = request[u] /\ pc'[u] = pc[u]
  BY <1>1 DEF TypeInv, TypeOK, LockInv
<1>5. pc'[t] # "register" /\ request' \in [Thread -> Request \cup {NoRequest}]
  BY <1>1 DEF TypeInv, TypeOK, LockInv
<1>6. \A u \in Thread : pc'[u] = "register" => request'[u] \in Request
  BY <1>4, <1>5 DEF TypeInv
<1> QED
  BY <1>1, <1>2, <1>3, <1>4, <1>5, <1>6 DEF TypeInv, TypeOK, uiVars, netVars

LEMMA TypeRecv ==
  ASSUME LockInv, TypeInv, Recv \/ Erase
  PROVE  TypeInv'
<1>1. pc'["ui"] = pc["ui"] /\ pc'["sock"] \in {"find", "timer"} /\ pc["sock"] \in {"recv", "erase"}
  BY DEF Recv, Erase, Goto, LockInv, Thread
<1>2. answer' \in Request \cup {NoRequest} /\ inbox' \in Seq(Request)
  <2>1. inbox \in Seq(Request) /\ answer \in Request \cup {NoRequest}
    BY DEF TypeInv, TypeOK
  <2>2. CASE Recv
    <3>1. Head(inbox) \in Request /\ <<>> \in Seq(Request)
      BY <2>1, <2>2 DEF Recv
    <3> QED
      BY <2>2, <3>1 DEF Recv
  <2>3. CASE Erase
    BY <2>1, <2>3 DEF Erase, netVars
  <2> QED
    BY <2>2, <2>3
<1>3. UNCHANGED <<lock, awake, m_running, sent, request, requests, link>> /\ m_callbacks' \subseteq m_callbacks
  BY DEF Recv, Erase, uiVars, netVars
<1>4. Writing("ui")' = Writing("ui") /\ Writing("sock")' = Writing("sock")
  BY <1>1 DEF Writing
<1> QED
  BY <1>1, <1>2, <1>3, <1>4 DEF TypeInv, TypeOK, SockState, Thread

LEMMA TypeNetwork ==
  ASSUME TypeInv, ServerAnswers \/ LinkLost
  PROVE  TypeInv'
<1>1. UNCHANGED <<pc, uiVars, callbackVars>> /\ link' \in {"open", "fin", "rst"}
  BY DEF ServerAnswers, LinkLost, TypeInv, TypeOK
<1>2. requests \in Seq(Request) /\ inbox \in Seq(Request)
  BY DEF TypeInv, TypeOK
<1>3. requests' \in Seq(Request) /\ inbox' \in Seq(Request)
  <2>1. CASE ServerAnswers
    <3>1. PICK k \in 2 .. Len(requests) + 1 : requests' = SubSeq(requests, k, Len(requests))
      BY <2>1 DEF ServerAnswers
    <3>2. requests' \in Seq(Request)
      BY <1>2, <3>1
    <3>3. Head(requests) \in Request /\ inbox' = Append(inbox, Head(requests))
      BY <1>2, <2>1 DEF ServerAnswers
    <3>4. inbox' \in Seq(Request)
      BY <1>2, <3>3
    <3> QED
      BY <3>2, <3>4
  <2>2. CASE LinkLost
    <3>1. <<>> \in Seq(Request)
      OBVIOUS
    <3> QED
      BY <1>2, <2>2, <3>1 DEF LinkLost
  <2> QED
    BY <2>1, <2>2
<1> QED
  BY <1>1, <1>3 DEF TypeInv, TypeOK, Writing, uiVars, callbackVars

LEMMA TypeStep == LockInv /\ TypeInv /\ [Next]_vars => TypeInv'
<1> SUFFICES ASSUME LockInv, TypeInv, [Next]_vars PROVE TypeInv'
  OBVIOUS
<1>1. CASE UNCHANGED vars
  BY <1>1 DEF TypeInv, TypeOK, Writing, vars, uiVars, callbackVars, netVars
<1>2. CASE \/ StartFails \/ EchoTooLong \/ CallbackMapRace \/ FallOffEnd
          \/ WriteFails("ui") \/ WriteFails("sock") \/ RecvError
  BY <1>2, TypeExit DEF StartFails, EchoTooLong, CallbackMapRace, FallOffEnd, WriteFails, RecvError
<1>3. CASE \E t \in Thread : Write(t) \/ Register(t)
  BY <1>3, TypeWrite, TypeRegister
<1> QED
  BY <1>1, <1>2, <1>3, TypeRecv, TypeNetwork, TypeOther DEF Next, UiStep, SockStep, Thread

\* Types of the state of both threads, the bound on the requests included.
THEOREM TypeCorrect == Spec => []TypeOK
<1>1. LockInv /\ TypeInv /\ [Next]_vars => (LockInv /\ TypeInv)'
  BY LockStep, TypeStep
<1>2. Init => LockInv /\ TypeInv
  BY LockInit, TypeInit
<1>3. TypeInv => TypeOK
  BY DEF TypeInv
<1> QED
  BY <1>1, <1>2, <1>3, PTL DEF Spec

-----------------------------------------------------------------------------
(* Requests in flight and their callbacks.                                 *)

FlightTypes ==
  /\ sent \in Nat /\ answer \in Nat
  /\ request \in [Thread -> Nat]
  /\ requests \in Seq(Nat) /\ inbox \in Seq(Nat)

\* The thread t has sent r and not yet called add_callback for it.
Registering(t, r) == pc[t] = "register" /\ request[t] = r

HasCallback(r) == r \in m_callbacks \/ Registering("ui", r) \/ Registering("sock", r)

Handling == pc["sock"] \in {"find", "lock", "update", "erase"}

\* Requests are numbered in the order they are sent and answered in that order,
\* so that the callback that is erased is never one that is still needed.
InFlight ==
  /\ \A i \in 1 .. Len(requests) : HasCallback(requests[i]) /\ requests[i] <= sent
  /\ \A i \in 1 .. Len(inbox) : HasCallback(inbox[i]) /\ inbox[i] <= sent
  /\ \A i \in 1 .. Len(inbox), j \in 1 .. Len(requests) : inbox[i] < requests[j]
  /\ \A i, j \in 1 .. Len(requests) : i < j => requests[i] < requests[j]
  /\ \A i, j \in 1 .. Len(inbox) : i < j => inbox[i] < inbox[j]
  /\ pc["sock"] = "find" => HasCallback(answer)
  /\ Handling => answer <= sent
  /\ Handling => \A i \in 1 .. Len(requests) : answer < requests[i]
  /\ Handling => \A i \in 1 .. Len(inbox) : answer < inbox[i]

FlightInv == FlightTypes /\ (Exited \/ InFlight)

LEMMA FlightInit == Init => FlightInv
BY DEF Init, FlightInv, InFlight, FlightTypes, Handling, Thread, NoRequest

LEMMA FlightExit == FlightInv /\ Exit => FlightInv'
BY DEF FlightInv, FlightTypes, Exit, Exited, callbackVars, netVars, Thread

\* Steps that send, receive and register nothing.
LEMMA FlightMove ==
  ASSUME LockInv, FlightInv, UNCHANGED <<callbackVars, netVars>>, Exited => Exited',
         \A t \in Thread : pc[t] = "register" => pc'[t] = "register",
         Handling' => Handling, pc'["sock"] = "find" => pc["sock"] = "find"
  PROVE  FlightInv'
BY DEF FlightInv, FlightTypes, InFlight, Handling, HasCallback, Registering, callbackVars, netVars, Thread

LEMMA FlightWrite ==
  ASSUME LockInv, FlightInv, NEW t \in Thread, Write(t)
  PROVE  FlightInv'
<1>1. /\ sent' = sent + 1 /\ pc[t] = "write"
      /\ pc' = [pc EXCEPT ![t] = "register"]
      /\ request' = [request EXCEPT ![t] = sent + 1]
      /\ UNCHANGED <<m_callbacks, inbox, answer>>
  BY DEF Write, Goto
<1>2. requests' = requests \/ requests' = Append(requests, sent + 1)
  BY <1>1 DEF Write
<1>3. /\ sent \in Nat /\ answer \in Nat /\ request \in [Thread -> Nat]
      /\ requests \in Seq(Nat) /\ inbox \in Seq(Nat)
      /\ t = "ui" \/ t = "sock"
  BY DEF FlightInv, FlightTypes, Thread
<1>4. pc["ui"] # "exited" /\ DOMAIN pc = Thread /\ "ui" \in Thread /\ "sock" \in Thread
  BY <1>1, <1>3 DEF LockInv, Thread
<1>5. InFlight
  BY <1>4 DEF FlightInv, Exited
<1>6. FlightTypes'
  <2>1. request' \in [Thread -> Nat] /\ sent' \in Nat /\ answer' \in Nat
    BY <1>1, <1>3
  <2>2. requests' \in Seq(Nat)
    <3>1. requests \in Seq(Nat) /\ sent \in Nat
      BY <1>3
    <3> QED
      BY <1>2, <3>1
  <2>3. inbox' \in Seq(Nat)
    BY <1>1, <1>3
  <2> QED
    BY <2>1, <2>2, <2>3 DEF FlightTypes
<1>7. \A r \in Nat : HasCallback(r) => HasCallback(r)'
  BY <1>1, <1>3, <1>4 DEF HasCallback, Registering
<1>8. ASSUME NEW r, r = sent + 1 PROVE HasCallback(r)'
  BY <1>1, <1>8, <1>3, <1>4 DEF HasCallback, Registering
<1>9. (Handling' <=> Handling) /\ (pc'["sock"] = "find" => pc["sock"] = "find")
  BY <1>1, <1>3, <1>4 DEF Handling
<1>10. /\ \A i \in 1 .. Len(inbox') : HasCallback(inbox[i])' /\ inbox'[i] <= sent'
       /\ \A i, j \in 1 .. Len(inbox') : i < j => inbox'[i] < inbox'[j]
       /\ pc'["sock"] = "find" => HasCallback(answer)'
       /\ Handling' => answer' <= sent'
       /\ Handling' => \A i \in 1 .. Len(inbox') : answer' < inbox'[i]
  <2>1. \A i \in 1 .. Len(inbox) : inbox[i] \in Nat
    BY <1>3
  <2> QED
    BY <1>1, <1>3, <1>5, <1>7, <1>9, <2>1 DEF InFlight
<1>11. CASE requests' = requests
  <2>1. \A i \in 1 .. Len(requests) : requests[i] \in Nat
    BY <1>3
  <2> QED
    BY <1>1, <1>3, <1>5, <1>6, <1>7, <1>9, <1>10, <1>11, <2>1 DEF InFlight, FlightInv
<1>12. CASE requests' = Append(requests, sent + 1)
  <2>1. /\ Len(requests') = Len(requests) + 1 /\ Len(requests) \in Nat
        /\ \A i \in 1 .. Len(requests) : requests'[i] = requests[i] /\ requests[i] \in Nat
        /\ requests'[Len(requests) + 1] = sent + 1
    BY <1>3, <1>12
  <2>2. /\ sent \in Nat /\ answer \in Nat /\ sent' = sent + 1 /\ inbox' = inbox /\ answer' = answer
        /\ \A i \in 1 .. Len(inbox) : inbox[i] \in Nat
    BY <1>1, <1>3
  <2>3. /\ \A i \in 1 .. Len(requests) : HasCallback(requests[i]) /\ requests[i] <= sent
        /\ \A i \in 1 .. Len(inbox) : inbox[i] <= sent
        /\ \A i \in 1 .. Len(inbox), j \in 1 .. Len(requests) : inbox[i] < requests[j]
        /\ \A i, j \in 1 .. Len(requests) : i < j => requests[i] < requests[j]
        /\ Handling => answer <= sent
        /\ Handling => \A i \in 1 .. Len(requests) : answer < requests[i]
    BY <1>5 DEF InFlight
  <2>4. ASSUME NEW i \in 1 .. Len(requests')
        PROVE  /\ HasCallback(requests[i])'
               /\ requests'[i] <= sent'
               /\ \A k \in 1 .. Len(inbox') : inbox'[k] < requests'[i]
               /\ Handling' => answer' < requests'[i]
    <3>1. CASE i \in 1 .. Len(requests)
      <4>1. requests'[i] = requests[i] /\ requests[i] \in Nat
        BY <2>1, <3>1
      <4>2. HasCallback(requests[i]) /\ requests[i] <= sent
        BY <2>3, <3>1
      <4>3. HasCallback(requests[i])'
        BY <1>1, <1>3, <1>4, <4>1, <4>2 DEF HasCallback, Registering
      <4>4. \A k \in 1 .. Len(inbox) : inbox[k] < requests[i]
        BY <2>3, <3>1
      <4>5. Handling => answer < requests[i]
        BY <2>3, <3>1
      <4> QED
        BY <1>9, <2>2, <4>1, <4>2, <4>3, <4>4, <4>5
    <3>2. CASE i = Len(requests) + 1
      <4>1. requests'[i] = sent + 1
        BY <2>1, <3>2
      <4>2. HasCallback(requests[i])'
        BY <1>1, <1>3, <1>4, <4>1 DEF HasCallback, Registering
      <4> QED
        BY <1>9, <2>2, <2>3, <4>1, <4>2
    <3> QED
      BY <2>1, <3>1, <3>2
  <2>5. ASSUME NEW i \in 1 .. Len(requests'), NEW j \in 1 .. Len(requests'), i < j
        PROVE  requests'[i] < requests'[j]
    <3>1. i \in 1 .. Len(requests) /\ requests'[i] = requests[i] /\ requests[i] \in Nat
      BY <2>1, <2>5
    <3>2. CASE j \in 1 .. Len(requests)
      BY <2>1, <2>3, <2>5, <3>1, <3>2
    <3>3. CASE j = Len(requests) + 1
      BY <2>1, <2>2, <2>3, <3>1, <3>3
    <3> QED
      BY <2>1, <3>2, <3>3
  <2> QED
    BY <1>6, <1>10, <2>4, <2>5 DEF InFlight, FlightInv
<1> QED
  BY <1>2, <1>11, <1>12

LEMMA FlightLinkLost ==
  ASSUME FlightInv, LinkLost
  PROVE  FlightInv'
<1>1. /\ requests' = <<>> /\ (inbox' = inbox \/ inbox' = <<>>)
      /\ UNCHANGED <<pc, callbackVars>>
  BY DEF LinkLost
<1>2. FlightTypes'
  <2>1. <<>> \in Seq(Nat)
    OBVIOUS
  <2> QED
    BY <1>1, <2>1, Zenon DEF FlightInv, FlightTypes, callbackVars
<1>3. CASE inbox' = inbox
  BY <1>1, <1>2, <1>3
     DEF FlightInv, InFlight, Exited, Handling, HasCallback, Registering, callbackVars
<1>4. CASE inbox' = <<>>
  BY <1>1, <1>2, <1>4
     DEF FlightInv, InFlight, Exited, Handling, HasCallback, Registering, callbackVars
<1> QED
  BY <1>1, <1>3, <1>4

LEMMA FlightServerAnswers ==
  ASSUME FlightInv, ServerAnswers
  PROVE  FlightInv'
<1>1. /\ requests # <<>> /\ inbox' = Append(inbox, Head(requests))
      /\ UNCHANGED <<pc, callbackVars>>
  BY DEF ServerAnswers
<1>2. requests \in Seq(Nat) /\ inbox \in Seq(Nat) /\ FlightTypes
  BY DEF FlightInv, FlightTypes
<1> PICK k \in 2 .. Len(requests) + 1 : requests' = SubSeq(requests, k, Len(requests))
  BY DEF ServerAnswers
<1> DEFINE at(i) == i + k - 1
<1>0. /\ requests' \in Seq(Nat)
      /\ \A i \in 1 .. Len(requests') :
           /\ at(i) \in 2 .. Len(requests) /\ 1 < at(i)
           /\ requests'[i] = requests[at(i)] /\ requests[at(i)] \in Nat
      /\ \A i, j \in 1 .. Len(requests') : i < j => at(i) < at(j)
  BY <1>2, SMTT(30)
<1>3. /\ Head(requests) = requests[1] /\ requests[1] \in Nat /\ 1 \in 1 .. Len(requests)
      /\ Len(inbox') = Len(inbox) + 1 /\ Len(inbox) \in Nat
      /\ \A i \in 1 .. Len(inbox) : inbox'[i] = inbox[i] /\ inbox[i] \in Nat
      /\ inbox'[Len(inbox) + 1] = requests[1] /\ inbox' \in Seq(Nat)
  BY <1>1, <1>2, SMTT(30)
<1>4. FlightTypes'
  BY <1>0, <1>1, <1>2, <1>3, Zenon DEF FlightTypes, callbackVars
<1>5. CASE Exited
  BY <1>1, <1>4, <1>5 DEF FlightInv, Exited
<1>6. CASE InFlight
  <2>1. /\ HasCallback(requests[1]) /\ requests[1] <= sent
        /\ \A i \in 1 .. Len(inbox) : HasCallback(inbox[i]) /\ inbox[i] <= sent
        /\ \A i \in 1 .. Len(inbox) : inbox[i] < requests[1]
        /\ \A i, j \in 1 .. Len(inbox) : i < j => inbox[i] < inbox[j]
        /\ pc["sock"] = "find" => HasCallback(answer)
        /\ Handling => answer <= sent
        /\ Handling => answer < requests[1]
        /\ Handling => \A i \in 1 .. Len(inbox) : answer < inbox[i]
    BY <1>3, <1>6 DEF InFlight
  <2>2. /\ Handling' <=> Handling
        /\ \A r : HasCallback(r) => HasCallback(r)'
        /\ UNCHANGED <<pc, sent, answer>>
    BY <1>1 DEF Handling, HasCallback, Registering, callbackVars
  <2>3. ASSUME NEW i \in 1 .. Len(inbox')
        PROVE  /\ HasCallback(inbox[i])'
               /\ inbox'[i] <= sent'
               /\ Handling' => answer' < inbox'[i]
    <3>1. CASE i \in 1 .. Len(inbox)
      <4>1. inbox'[i] = inbox[i]
        BY <1>3, <3>1
      <4>2. HasCallback(inbox[i])'
        BY <1>1, <2>1, <3>1, <4>1 DEF HasCallback, Registering, callbackVars
      <4> QED
        BY <2>1, <2>2, <3>1, <4>1, <4>2
    <3>2. CASE i = Len(inbox) + 1
      <4>1. inbox'[i] = requests[1]
        BY <1>3, <3>2
      <4>2. HasCallback(inbox[i])'
        BY <1>1, <2>1, <4>1 DEF HasCallback, Registering, callbackVars
      <4> QED
        BY <2>1, <2>2, <4>1, <4>2
    <3> QED
      BY <1>3, <3>1, <3>2
  <2>4. ASSUME NEW i \in 1 .. Len(inbox'), NEW j \in 1 .. Len(inbox'), i < j
        PROVE  inbox'[i] < inbox'[j]
    <3>1. i \in 1 .. Len(inbox) /\ inbox'[i] = inbox[i]
      BY <1>3, <2>4, SMTT(30)
    <3>2. CASE j \in 1 .. Len(inbox)
      BY <1>3, <2>1, <2>4, <3>1, <3>2
    <3>3. CASE j = Len(inbox) + 1
      BY <1>3, <2>1, <3>1, <3>3
    <3> QED
      BY <1>3, <3>2, <3>3
  <2>5. pc'["sock"] = "find" => HasCallback(answer)'
    BY <1>1, <2>1 DEF HasCallback, Registering, callbackVars
  <2>6. ASSUME NEW i \in 1 .. Len(requests')
        PROVE  /\ HasCallback(requests[i])'
               /\ requests'[i] <= sent'
               /\ requests[1] < requests'[i]
               /\ \A n \in 1 .. Len(inbox) : inbox[n] < requests'[i]
               /\ Handling' => answer' < requests'[i]
    <3>1. /\ at(i) \in 1 .. Len(requests) /\ 1 < at(i)
          /\ requests'[i] = requests[at(i)]
      BY <1>0
    <3>2. /\ HasCallback(requests[at(i)]) /\ requests[at(i)] <= sent
          /\ requests[1] < requests[at(i)]
          /\ \A n \in 1 .. Len(inbox) : inbox[n] < requests[at(i)]
          /\ Handling => answer < requests[at(i)]
      <4> HIDE DEF at
      <4> QED
        BY <1>3, <1>6, <3>1 DEF InFlight
    <3>3. HasCallback(requests[i])'
      BY <1>1, <3>1, <3>2 DEF HasCallback, Registering, callbackVars
    <3> QED
      BY <2>2, <3>1, <3>2, <3>3
  <2>7. ASSUME NEW i \in 1 .. Len(requests'), NEW j \in 1 .. Len(requests'), i < j
        PROVE  requests'[i] < requests'[j]
    <3>1. /\ at(i) \in 1 .. Len(requests) /\ at(j) \in 1 .. Len(requests) /\ at(i) < at(j)
          /\ requests'[i] = requests[at(i)] /\ requests'[j] = requests[at(j)]
      BY <1>0, <2>7
    <3> HIDE DEF at
    <3> QED
      BY <1>6, <3>1 DEF InFlight
  <2>8. ASSUME NEW i \in 1 .. Len(inbox'), NEW j \in 1 .. Len(requests')
        PROVE  inbox'[i] < requests'[j]
    <3>1. CASE i \in 1 .. Len(inbox)
      BY <1>3, <2>6, <3>1
    <3>2. CASE i = Len(inbox) + 1
      BY <1>3, <2>6, <3>2
    <3> QED
      BY <1>3, <3>1, <3>2
  <2> QED
    BY <1>4, <2>1, <2>2, <2>3, <2>4, <2>5, <2>6, <2>7, <2>8 DEF InFlight, FlightInv
<1> QED
  BY <1>5, <1>6 DEF FlightInv

\* What is still needed after a step that only takes requests and answers away.
LEMMA FlightKept ==
  ASSUME FlightInv, InFlight, FlightTypes',
         UNCHANGED <<sent, requests>>, inbox' = inbox \/ inbox' = <<>>,
         \A i \in 1 .. Len(requests) : HasCallback(requests[i])',
         \A i \in 1 .. Len(inbox) : HasCallback(inbox[i])',
         pc'["sock"] = "find" => HasCallback(answer)',
         Handling' => Handling /\ answer' = answer
  PROVE  FlightInv'
<1>1. CASE inbox' = inbox
  BY <1>1 DEF InFlight, FlightInv
<1>2. CASE inbox' = <<>>
  BY <1>2 DEF InFlight, FlightInv
<1> QED
  BY <1>1, <1>2

LEMMA FlightRegister ==
  ASSUME LockInv, FlightInv, NEW t \in Thread, Register(t)
  PROVE  FlightInv'
<1>1. /\ pc[t] = "register" /\ request[t] \in Nat
      /\ \E to \in {"loop", "check"} : pc' = [pc EXCEPT ![t] = to]
      /\ m_callbacks' = m_callbacks \cup {request[t]}
      /\ request' = [request EXCEPT ![t] = NoRequest]
      /\ UNCHANGED <<sent, answer, netVars>>
  BY DEF Register, Goto, FlightInv, FlightTypes
<1>2. DOMAIN pc = Thread /\ DOMAIN request = Thread /\ (t = "ui" \/ t = "sock")
  BY DEF LockInv, FlightInv, FlightTypes, Thread
<1>3. InFlight
  BY <1>1, <1>2 DEF FlightInv, Exited, LockInv, Thread
<1>4. request' \in [Thread -> Nat]
  BY <1>1 DEF FlightInv, FlightTypes, NoRequest
<1>5. FlightTypes'
  BY <1>1, <1>4, Zenon DEF FlightInv, FlightTypes, netVars
<1>6. ASSUME NEW r, HasCallback(r) PROVE HasCallback(r)'
  BY <1>1, <1>2, <1>6 DEF HasCallback, Registering, Thread
<1>7. Handling' => Handling
  BY <1>1, <1>2 DEF Handling, Thread
<1>8. pc'["sock"] = "find" => pc["sock"] = "find"
  BY <1>1, <1>2 DEF Thread
<1>9. ASSUME NEW i \in 1 .. Len(requests) PROVE HasCallback(requests[i])'
  BY <1>1, <1>2, <1>3 DEF InFlight, HasCallback, Registering, Thread, netVars
<1>10. ASSUME NEW i \in 1 .. Len(inbox) PROVE HasCallback(inbox[i])'
  BY <1>1, <1>2, <1>3 DEF InFlight, HasCallback, Registering, Thread, netVars
<1>11. pc'["sock"] = "find" => HasCallback(answer)'
  BY <1>1, <1>2, <1>3, <1>8 DEF InFlight, HasCallback, Registering, Thread
<1> QED
  BY <1>1, <1>3, <1>5, <1>7, <1>9, <1>10, <1>11, FlightKept DEF netVars

LEMMA FlightErase ==
  ASSUME LockInv, FlightInv, Erase
  PROVE  FlightInv'
<1>1. /\ pc["sock"] = "erase" /\ pc' = [pc EXCEPT !["sock"] = "timer"]
      /\ m_callbacks' = m_callbacks \ {answer}
      /\ UNCHANGED <<sent, request, answer, netVars>>
  BY DEF Erase, Goto
<1>2. pc["ui"] # "exited" /\ DOMAIN pc = Thread
  BY <1>1 DEF LockInv, Thread
<1>3. InFlight /\ Handling
  BY <1>1, <1>2 DEF FlightInv, Exited, Handling
<1>4. pc'["sock"] = "timer" /\ pc'["ui"] = pc["ui"] /\ ~Handling'
  BY <1>1, <1>2 DEF Thread, Handling
<1>5. FlightTypes'
  BY <1>1, Zenon DEF FlightInv, FlightTypes, netVars
<1>6. /\ answer \in Nat
      /\ \A i \in 1 .. Len(requests) : requests[i] \in Nat
      /\ \A i \in 1 .. Len(inbox) : inbox[i] \in Nat
  <2>1. answer \in Nat /\ requests \in Seq(Nat) /\ inbox \in Seq(Nat)
    BY DEF FlightInv, FlightTypes
  <2> QED
    BY <2>1
<1>7. ASSUME NEW r \in Nat, HasCallback(r), answer < r
      PROVE  r \in m_callbacks \/ Registering("ui", r)
  BY <1>1, <1>7 DEF HasCallback, Registering
<1>8. ASSUME NEW i \in 1 .. Len(requests) PROVE HasCallback(requests[i])'
  <2>1. requests[i] \in Nat /\ HasCallback(requests[i]) /\ answer < requests[i]
    BY <1>3, <1>6 DEF InFlight
  <2>2. requests[i] # answer /\ (requests[i] \in m_callbacks \/ Registering("ui", requests[i]))
    BY <1>6, <1>7, <2>1
  <2> QED
    BY <1>1, <1>4, <2>2 DEF HasCallback, Registering, netVars
<1>9. ASSUME NEW i \in 1 .. Len(inbox) PROVE HasCallback(inbox[i])'
  <2>1. inbox[i] \in Nat /\ HasCallback(inbox[i]) /\ answer < inbox[i]
    BY <1>3, <1>6 DEF InFlight
  <2>2. inbox[i] # answer /\ (inbox[i] \in m_callbacks \/ Registering("ui", inbox[i]))
    BY <1>6, <1>7, <2>1
  <2> QED
    BY <1>1, <1>4, <2>2 DEF HasCallback, Registering, netVars
<1> QED
  BY <1>1, <1>3, <1>4, <1>5, <1>8, <1>9, FlightKept DEF netVars

LEMMA FlightRecv ==
  ASSUME LockInv, FlightInv, Recv
  PROVE  FlightInv'
<1>1. /\ pc["sock"] = "recv" /\ pc' = [pc EXCEPT !["sock"] = "find"]
      /\ inbox # <<>> /\ answer' = Head(inbox) /\ inbox' = <<>>
      /\ UNCHANGED <<m_callbacks, sent, request, requests>>
  BY DEF Recv, Goto
<1>2. pc["ui"] # "exited" /\ DOMAIN pc = Thread
  BY <1>1 DEF LockInv, Thread
<1>3. InFlight
  BY <1>2 DEF FlightInv, Exited
<1>4. pc'["sock"] = "find" /\ pc'["ui"] = pc["ui"]
  BY <1>1, <1>2 DEF Thread
<1>5. /\ answer' = inbox[1] /\ inbox[1] \in Nat /\ 1 \in 1 .. Len(inbox)
      /\ inbox' \in Seq(Nat) /\ Len(inbox') = 0
  <2>1. inbox \in Seq(Nat)
    BY DEF FlightInv, FlightTypes
  <2> QED
    BY <1>1, <2>1
<1>6. FlightTypes'
  BY <1>1, <1>5, Zenon DEF FlightInv, FlightTypes
<1>7. /\ HasCallback(inbox[1]) /\ inbox[1] <= sent
      /\ \A j \in 1 .. Len(requests) : inbox[1] < requests[j]
      /\ \A i \in 1 .. Len(requests) : HasCallback(requests[i]) /\ requests[i] <= sent
      /\ \A i, j \in 1 .. Len(requests) : i < j => requests[i] < requests[j]
  BY <1>3, <1>5 DEF InFlight
<1>8. HasCallback(answer)'
  BY <1>1, <1>4, <1>5, <1>7 DEF HasCallback, Registering
<1>9. ASSUME NEW i \in 1 .. Len(requests) PROVE HasCallback(requests[i])'
  BY <1>1, <1>4, <1>7 DEF HasCallback, Registering
<1> QED
  BY <1>1, <1>5, <1>6, <1>7, <1>8, <1>9 DEF InFlight, FlightInv

\* The steps of which FlightMove speaks.
LEMMA FlightOther ==
  ASSUME LockInv, FlightInv,
         \/ Start \/ RefreshInventory \/ Sleep \/ LeaveLoop \/ Wake \/ OtherEvent
         \/ EchoButton \/ CloseWindow \/ Stop \/ Join
         \/ Check \/ Poll \/ RecvClosed \/ Find \/ Lock \/ Update \/ Timer \/ Lost
  PROVE  FlightInv'
<1> USE DEF Goto, Move, LockInv, Thread, Exited, Handling
<1>1. CASE Start \/ RefreshInventory \/ Sleep \/ LeaveLoop \/ Wake
  BY <1>1, FlightMove DEF Start, RefreshInventory, Sleep, LeaveLoop, Wake
<1>2. CASE OtherEvent \/ EchoButton \/ CloseWindow \/ Stop \/ Join
  BY <1>2, FlightMove DEF OtherEvent, EchoButton, CloseWindow, Stop, Join
<1>3. CASE Check \/ Poll \/ RecvClosed \/ Timer \/ Lost
  BY <1>3, FlightMove DEF Check, Poll, RecvClosed, Timer, Lost
<1>4. CASE Find \/ Lock \/ Update
  BY <1>4, FlightMove DEF Find, Lock, Update
<1> QED
  BY <1>1, <1>2, <1>3, <1>4

LEMMA FlightStep == LockInv /\ FlightInv /\ [Next]_vars => FlightInv'
<1> SUFFICES ASSUME LockInv, FlightInv, [Next]_vars PROVE FlightInv'
  OBVIOUS
<1>1. CASE UNCHANGED vars
  <2>1. UNCHANGED <<pc, callbackVars, netVars>>
    BY <1>1 DEF vars
  <2> QED
    BY <2>1, FlightMove DEF Exited, Handling
<1>2. CASE \/ StartFails \/ EchoTooLong \/ CallbackMapRace \/ FallOffEnd
          \/ WriteFails("ui") \/ WriteFails("sock") \/ RecvError
  BY <1>2, FlightExit DEF StartFails, EchoTooLong, CallbackMapRace, FallOffEnd, WriteFails, RecvError
<1>3. CASE ServerAnswers \/ LinkLost
  BY <1>3, FlightServerAnswers, FlightLinkLost
<1>4. CASE \E t \in Thread : Write(t) \/ Register(t)
  BY <1>4, FlightWrite, FlightRegister
<1>5. CASE Recv \/ Erase
  BY <1>5, FlightRecv, FlightErase
<1> QED
  BY <1>1, <1>2, <1>3, <1>4, <1>5, FlightOther DEF Next, UiStep, SockStep, Thread

LEMMA FlightAlways == Spec => [](LockInv /\ FlightInv)
<1>1. Init => LockInv /\ FlightInv
  BY LockInit, FlightInit
<1>2. LockInv /\ FlightInv /\ [Next]_vars => (LockInv /\ FlightInv)'
  BY LockStep, FlightStep
<1> QED
  BY <1>1, <1>2, PTL DEF Spec

\* An answer finds its callback, unless the UI thread is between writing that
\* very request and registering its callback.
THEOREM AnswersFind == Spec => AnswersFindCallbacks
<1>1. ASSUME LockInv, FlightInv, [Next]_vars
      PROVE  pc["sock"] = "find" /\ pc'["sock"] = "timer"
               => pc["ui"] = "register" /\ request["ui"] = answer
  <2> SUFFICES ASSUME pc["sock"] = "find", pc'["sock"] = "timer"
               PROVE  pc["ui"] = "register" /\ request["ui"] = answer
    OBVIOUS
  <2>1. HasCallback(answer)
    BY <1>1 DEF FlightInv, InFlight, LockInv, Exited
  <2>2. answer \notin m_callbacks
    <3>1. Find
      <4> USE <1>1 DEF Goto, Move, Exit, LockInv, Thread
      <4>1. CASE UNCHANGED vars
        BY <4>1 DEF vars
      <4>2. CASE CallbackMapRace \/ FallOffEnd \/ ServerAnswers \/ LinkLost
        BY <4>2 DEF CallbackMapRace, FallOffEnd, ServerAnswers, LinkLost
      <4>3. CASE UiStep \/ Wake
        BY <4>3 DEF UiStep, Wake, Start, RefreshInventory, Sleep, LeaveLoop, OtherEvent,
                    EchoButton, CloseWindow, Write, WriteFails, Register, Stop, Join,
                    StartFails, EchoTooLong
      <4>4. CASE SockStep \/ Lock
        BY <4>4 DEF SockStep, Check, Poll, Recv, RecvClosed, RecvError, Lock, Update, Erase,
                    Timer, Write, WriteFails, Register, Lost
      <4> QED
        BY <4>1, <4>2, <4>3, <4>4 DEF Next
    <3> QED
      BY <1>1, <3>1 DEF Find, Move, Goto, LockInv, Thread
  <2> QED
    BY <2>1, <2>2 DEF HasCallback, Registering
<1> QED
  BY <1>1, FlightAlways, PTL DEF Spec, AnswersFindCallbacks
=============================================================================

------------------------------ MODULE ClientUI ------------------------------
(***************************************************************************)
(* ve-client after start_session(): the UI thread, which runs              *)
(* ClientUI::run() and the callbacks of its widgets, and the socket        *)
(* thread, which runs ClientUI::socket_thread().  They share m_running,    *)
(* the callbacks of BaseProcess, the socket, and FLTK's global lock.       *)
(*                                                                         *)
(* Of FLTK the model has what this code depends on: Fl::wait releases the  *)
(* lock only while it sleeps, wakes for user input or for Fl::awake, and   *)
(* returns 0 when no window is shown; the lock can be taken again by the   *)
(* thread that holds it, so the UI thread's own Fl::lock has no effect.    *)
(*                                                                         *)
(* The server answers requests in order.  Messages that are written fit    *)
(* their frames (EchoTooLong has one that does not) and arrive whole: at   *)
(* either end recv takes all that has arrived, and the first message of it *)
(* is the one that is handled (MessageStream has the bytes).  A write      *)
(* blocks while the buffers on its way are full.                           *)
(***************************************************************************)
EXTENDS Naturals, Sequences, FiniteSets

CONSTANTS
  MaxRequests,  \* bound on the requests sent in a run
  Capacity      \* messages that the buffers of each direction hold

ASSUME ClientAssumption == MaxRequests \in Nat /\ Capacity \in Nat \ {0}

VARIABLES
  pc,           \* where each thread is
  lock,         \* the thread that holds FLTK's lock
  awake,        \* an Fl::awake that Fl::wait has not seen
  m_running,
  m_callbacks,  \* the request ids that have a callback
  sent,         \* the last request id used
  request,      \* the request each thread sends: from write to add_callback
  answer,       \* the request whose answer the socket thread handles
  requests,     \* what is on the way to the server's recv
  inbox,        \* what is on the way to the client's recv
  link          \* the connection, as poll and recv report it

uiVars       == <<lock, awake, m_running>>
callbackVars == <<m_callbacks, sent, request, answer>>
netVars      == <<requests, inbox, link>>
vars         == <<pc, uiVars, callbackVars, netVars>>

Thread    == {"ui", "sock"}
Request   == 1 .. MaxRequests
NoRequest == 0

UiState ==
  {"start",      \* run(), before the socket thread exists
   "inventory",  \* refresh_inventory()
   "loop",       \* the condition of the while loop
   "sleep",      \* Fl::wait, asleep without the lock
   "event",      \* Fl::wait, handling events
   "write",      \* cmd_EchoRequest(): socket_write_message
   "register",   \* cmd_EchoRequest(): add_callback
   "stop",       \* after the loop
   "join",       \* pthread_join
   "done"}       \* run() returned

SockState ==
  {"none",       \* not created
   "check",      \* the condition of the while loop
   "poll",       \* process_message(): poll
   "recv",       \* process_message(): recv
   "find",       \* invoke_callback(): find
   "lock",       \* the callback, at Fl::lock
   "update",     \* the callback, changing widgets
   "erase",      \* invoke_callback(): erase
   "timer",      \* process_message() returned true
   "write",      \* cmd_AvailableTradePartnersRequest(): socket_write_message
   "register",   \* cmd_AvailableTradePartnersRequest(): add_callback
   "lost",       \* process_message() returned false
   "ended"}      \* socket_thread() returned

Init ==
  /\ pc = [t \in Thread |-> IF t = "ui" THEN "start" ELSE "none"]
  /\ lock = "none" /\ awake = FALSE /\ m_running = FALSE
  /\ m_callbacks = {} /\ sent = 0 /\ answer = NoRequest
  /\ request = [t \in Thread |-> NoRequest]
  /\ requests = <<>> /\ inbox = <<>> /\ link = "open"

Goto(t, from, to) ==
  /\ pc[t] = from
  /\ pc' = [pc EXCEPT ![t] = to]

Move(t, from, to) == Goto(t, from, to) /\ UNCHANGED <<uiVars, callbackVars, netVars>>

\* The process ends in Logger::fatal, by SIGPIPE, or by a corrupted map.
Exit ==
  /\ pc' = [t \in Thread |-> "exited"]
  /\ UNCHANGED <<uiVars, callbackVars, netVars>>

Exited == pc["ui"] = "exited"

-----------------------------------------------------------------------------
(* The server and the network.                                             *)

\* What arrived before the server's recv is merged into the request that is
\* answered; what came while it was handled, from the k-th on, is still there.
ServerAnswers ==
  /\ link = "open" /\ requests # <<>> /\ Len(inbox) < Capacity
  /\ inbox' = Append(inbox, Head(requests))
  /\ \E k \in 2 .. Len(requests) + 1 : requests' = SubSeq(requests, k, Len(requests))
  /\ UNCHANGED <<pc, uiVars, callbackVars, link>>

\* "fin": the server's process for this client ended; "rst": a reset.
LinkLost ==
  /\ \/ link = "open" /\ link' = "fin" /\ UNCHANGED inbox
     \/ link \in {"open", "fin"} /\ link' = "rst" /\ inbox' = <<>>
  /\ requests' = <<>>
  /\ UNCHANGED <<pc, uiVars, callbackVars>>

-----------------------------------------------------------------------------
(* cmd_EchoRequest by the UI thread, in the callback of the Echo button;   *)
(* cmd_AvailableTradePartnersRequest by the socket thread.                 *)

\* The bound on requests, those about to be written included.
MayRequest == sent + Cardinality({t \in Thread : pc[t] = "write"}) < MaxRequests

\* Faulty form of Write: the write is tried again although it was done.
WriteAgain(t) ==
  /\ Goto(t, "write", "write")
  /\ link # "rst"
  /\ sent' = sent + 1
  /\ UNCHANGED <<uiVars, m_callbacks, request, answer, netVars>>

\* Blocks while nothing more fits the buffers.
Write(t) ==
  /\ Goto(t, "write", "register")
  /\ link # "rst" /\ (link = "open" => Len(requests) < Capacity)
  /\ sent' = sent + 1
  /\ request' = [request EXCEPT ![t] = sent']
  /\ requests' = IF link = "open" THEN Append(requests, sent') ELSE requests
  /\ UNCHANGED <<uiVars, m_callbacks, answer, inbox, link>>

WriteFails(t) == pc[t] = "write" /\ link = "rst" /\ Exit

\* Faulty form of Register: the id is the last one sent, by whichever thread.
RegisterLast(t) ==
  /\ Goto(t, "register", IF t = "ui" THEN "loop" ELSE "check")
  /\ m_callbacks' = m_callbacks \cup {sent}
  /\ request' = [request EXCEPT ![t] = NoRequest]
  /\ UNCHANGED <<uiVars, sent, answer, netVars>>

Register(t) ==
  /\ Goto(t, "register", IF t = "ui" THEN "loop" ELSE "check")
  /\ m_callbacks' = m_callbacks \cup {request[t]}
  /\ request' = [request EXCEPT ![t] = NoRequest]
  /\ UNCHANGED <<uiVars, sent, answer, netVars>>

\* The map of callbacks has no lock: an insert by one thread while the other
\* is in the map may corrupt it.
CallbackMapRace ==
  /\ pc["ui"] = "register"
  /\ pc["sock"] \in {"find", "erase", "register"}
  /\ Exit

-----------------------------------------------------------------------------
(* The UI thread.                                                          *)

Start ==
  /\ pc["ui"] = "start"
  /\ pc' = [t \in Thread |-> IF t = "ui" THEN "inventory" ELSE "check"]
  /\ lock' = "ui"
  /\ m_running' = TRUE
  /\ UNCHANGED <<awake, callbackVars, netVars>>

\* pthread_create fails.
StartFails == pc["ui"] = "start" /\ Exit

RefreshInventory ==
  /\ Goto("ui", "inventory", "loop")
  /\ awake' = TRUE
  /\ UNCHANGED <<lock, m_running, callbackVars, netVars>>

Sleep ==
  /\ m_running
  /\ Goto("ui", "loop", "sleep")
  /\ lock' = "none"
  /\ UNCHANGED <<awake, m_running, callbackVars, netVars>>

LeaveLoop == ~m_running /\ Move("ui", "loop", "stop")

Wake ==
  /\ Goto("ui", "sleep", "event")
  /\ lock = "none" /\ lock' = "ui"
  /\ awake' = FALSE
  /\ UNCHANGED <<m_running, callbackVars, netVars>>

\* A redraw, the mouse, the Trade button (which only logs).
OtherEvent == Move("ui", "event", "loop")

EchoButton == MayRequest /\ Move("ui", "event", "write")

\* The text of the Echo field does not fit a frame: framing it fails, or memcpy
\* writes past the body, before anything is on the wire.
EchoTooLong == pc["ui"] = "event" /\ Exit

\* The window is closed: Fl::wait returns 0.
CloseWindow == Move("ui", "event", "stop")

\* Faulty form of Stop: m_running is left set.
StopKeepsRunning == Move("ui", "stop", "join")

Stop ==
  /\ Goto("ui", "stop", "join")
  /\ m_running' = FALSE
  /\ UNCHANGED <<lock, awake, callbackVars, netVars>>

Join == pc["sock"] = "ended" /\ Move("ui", "join", "done")

-----------------------------------------------------------------------------
(* The socket thread.                                                      *)

Check == Move("sock", "check", IF m_running THEN "poll" ELSE "ended")

\* The thread's start routine is a lambda that should return a pointer and
\* flows off its end, where the build may do anything.
FallOffEnd == pc["sock"] = "check" /\ ~m_running /\ Exit

\* Faulty form of Poll: POLLIN is not asked for.
PollHangupOnly ==
  \/ link = "open" /\ Move("sock", "poll", "timer")
  \/ link # "open" /\ Move("sock", "poll", "lost")

\* A reset is reported as POLLHUP.
Poll ==
  \/ link = "open" /\ inbox = <<>> /\ Move("sock", "poll", "timer")
  \/ (link = "fin" \/ inbox # <<>>) /\ Move("sock", "poll", "recv")
  \/ link = "rst" /\ Move("sock", "poll", "lost")

Recv ==
  /\ Goto("sock", "recv", "find")
  /\ inbox # <<>>
  /\ answer' = Head(inbox)
  /\ inbox' = <<>>
  /\ UNCHANGED <<uiVars, m_callbacks, sent, request, requests, link>>

RecvClosed == inbox = <<>> /\ link = "fin" /\ Move("sock", "recv", "lost")

RecvError == pc["sock"] = "recv" /\ link = "rst" /\ Exit

Find == Move("sock", "find", IF answer \in m_callbacks THEN "lock" ELSE "timer")

\* Faulty form of Lock: the callback changes widgets without Fl::lock.
LockNothing == Move("sock", "lock", "update")

Lock ==
  /\ Goto("sock", "lock", "update")
  /\ lock = "none" /\ lock' = "sock"
  /\ UNCHANGED <<awake, m_running, callbackVars, netVars>>

\* add_output or update_trade_partners, Fl::awake and Fl::unlock.
Update ==
  /\ Goto("sock", "update", "erase")
  /\ awake' = TRUE
  /\ lock' = "none"
  /\ UNCHANGED <<m_running, callbackVars, netVars>>

\* Faulty form of Erase: the callback stays in the map.
EraseNothing == Move("sock", "erase", "timer")

Erase ==
  /\ Goto("sock", "erase", "timer")
  /\ m_callbacks' = m_callbacks \ {answer}
  /\ UNCHANGED <<uiVars, sent, request, answer, netVars>>

\* Whether REFRESH_INTERVAL has passed is left open.
Timer ==
  \/ Move("sock", "timer", "check")
  \/ MayRequest /\ Move("sock", "timer", "write")

\* Faulty form of Lost: the loss is logged and nothing else.
LostKeepsRunning == Move("sock", "lost", "check")

Lost ==
  /\ Goto("sock", "lost", "check")
  /\ m_running' = FALSE
  /\ UNCHANGED <<lock, awake, callbackVars, netVars>>

-----------------------------------------------------------------------------
UiStep ==
  \/ Start \/ StartFails \/ RefreshInventory \/ Sleep \/ LeaveLoop
  \/ OtherEvent \/ EchoButton \/ EchoTooLong \/ CloseWindow
  \/ Write("ui") \/ WriteFails("ui") \/ Register("ui") \/ Stop \/ Join

WakeForAwake == awake /\ Wake

SockStep ==
  \/ Check \/ Poll \/ Recv \/ RecvClosed \/ RecvError \/ Find \/ Update \/ Erase \/ Timer
  \/ Write("sock") \/ WriteFails("sock") \/ Register("sock") \/ Lost

Next ==
  \/ UiStep \/ Wake
  \/ SockStep \/ Lock
  \/ CallbackMapRace \/ FallOffEnd
  \/ ServerAnswers \/ LinkLost

Spec == Init /\ [][Next]_vars

\* Both threads run, and neither is starved of a lock that is released again
\* and again; the server's process runs.  The user need not touch the window.
Fairness ==
  /\ WF_vars(UiStep) /\ SF_vars(WakeForAwake)
  /\ WF_vars(SockStep) /\ SF_vars(Lock)
  /\ WF_vars(ServerAnswers)

FairSpec == Spec /\ Fairness

-----------------------------------------------------------------------------
(* Properties                                                              *)

\* Types of the state the two threads share.
TypeOK ==
  /\ pc["ui"] \in UiState \cup {"exited"}
  /\ pc["sock"] \in SockState \cup {"exited"}
  /\ lock \in Thread \cup {"none"}
  /\ awake \in BOOLEAN /\ m_running \in BOOLEAN
  /\ sent \in 0 .. MaxRequests
  /\ m_callbacks \subseteq Request
  /\ request \in [Thread -> Request \cup {NoRequest}]
  /\ answer \in Request \cup {NoRequest}
  /\ requests \in Seq(Request) /\ inbox \in Seq(Request)
  /\ link \in {"open", "fin", "rst"}

\* The socket thread changes widgets only while the UI thread is asleep in
\* Fl::wait: not while it draws or handles an event, and not once the loop is
\* left and the widgets, which live on the stack of run(), are torn down.
WidgetsExclusive == pc["sock"] = "update" => pc["ui"] = "sleep"

\* The callbacks are registered after the request is written.  An answer that
\* finds no callback has overtaken the add_callback of the UI thread, and of
\* the very request it answers: a partners request, which the socket thread
\* sends and registers itself, always finds its callback.
AnswersFindCallbacks ==
  [][pc["sock"] = "find" /\ pc'["sock"] = "timer"
       => pc["ui"] = "register" /\ request["ui"] = answer]_vars

\* The UI thread waits in pthread_join with FLTK's lock, which the callback in
\* the socket thread is waiting for.
Hung == pc["ui"] = "join" /\ pc["sock"] = "lock"

\* Client and server are both blocked in a write, and the socket thread, which
\* alone reads, is the writer or waits for the lock the writer holds.
Clogged ==
  /\ link = "open" /\ Len(requests) = Capacity /\ Len(inbox) = Capacity
  /\ pc["sock"] = "write" \/ (pc["ui"] = "write" /\ pc["sock"] = "lock")

\* Neither of the two ends by itself: a hang lasts until the process is killed,
\* and the clogged buffers until the connection is lost or the process ends.
StuckForGood ==
  [][(Hung => Hung') /\ (Clogged => Clogged' \/ link' # "open" \/ Exited')]_vars

\* The Echo button writes in the UI thread with FLTK's lock held.  A write of
\* either thread returns, with everyone else's help, unless all are clogged.
WritesReturn ==
  \A t \in Thread : pc[t] = "write" ~> (pc[t] # "write" \/ Clogged)

\* Once the loop is left, run() returns, unless the threads wait for each other
\* or the socket thread for the server.
LeavingEnds == pc["ui"] = "stop" ~> (pc["ui"] = "done" \/ Exited \/ Hung \/ Clogged)

\* Once the connection is lost the socket thread ends, unless it is caught in
\* the same way; no request or answer in progress keeps it.
LossEndsSocketThread ==
  (link # "open" /\ pc["sock"] # "none") ~> (pc["sock"] = "ended" \/ Exited \/ Hung)

\* The comment "process_message blocks for up to 100ms".
ProcessMessageReturns ==
  pc["sock"] \in {"poll", "recv", "find", "lock", "update", "erase"}
  ~> pc["sock"] \in {"timer", "lost", "exited"}

\* The comment "wait until window is closed or connection to server is closed".
LossEndsLoop ==
  (pc["ui"] = "sleep" /\ link # "open") ~> (pc["ui"] \in {"stop", "join", "done"} \/ Exited)

-----------------------------------------------------------------------------
(* The requests as Callbacks sees them.                                    *)

\* The socket thread is in the callback it has found, or about to erase it.
InCallback == pc["sock"] \in {"lock", "update", "erase"}

PhaseOf(r) ==
  IF Exited THEN "gone"
  ELSE IF \E t \in Thread : request[t] = r THEN "sent"
  ELSE IF InCallback /\ answer = r THEN "running"
  ELSE IF r \in m_callbacks THEN "waiting"
  ELSE IF r > sent THEN "unused"
  ELSE "done"

Life == INSTANCE Callbacks WITH phase <- [r \in Request |-> PhaseOf(r)]

\* The two threads implement Callbacks.
ImplementsCallbacks == Life!Spec
=============================================================================

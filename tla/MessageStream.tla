--------------------------- MODULE MessageStream ----------------------------
(***************************************************************************)
(* One direction of a connection, byte for byte: socket_write_message at   *)
(* one end, process_message at the other, and TCP between them, which      *)
(* keeps the order of the bytes and nothing else of the writes.            *)
(*                                                                         *)
(* A byte is its position in the stream, a frame the position it starts    *)
(* at and the size of its body.                                            *)
(***************************************************************************)
EXTENDS Framing, FiniteSets

CONSTANTS
  Bodies,     \* the sizes of the bodies the writer may send
  MaxFrames   \* bound on the frames written

ASSUME StreamAssumption == Bodies \subseteq Nat /\ MaxFrames \in Nat

VARIABLES
  frames,    \* the frames written, [at, body]
  written,   \* bytes written
  arrived,   \* bytes TCP has brought to the reader
  taken,     \* bytes the reader has taken with recv
  handled,   \* the frames whose message was handled
  made,      \* a handler was given a message that nobody wrote
  misread,   \* bytes that are not a frame were dispatched as one
  torn,      \* some recv ended inside a frame
  crowded,   \* some recv found more than one frame
  writer,    \* "up", or "dead" by Logger::fatal or by the overflow
  reader     \* "up", or "dead" by what a misread message did

streamVars  == <<frames, written>>
historyVars == <<handled, made, misread, torn, crowded>>
vars == <<streamVars, arrived, taken, historyVars, writer, reader>>

Init ==
  /\ frames = {} /\ written = 0 /\ arrived = 0 /\ taken = 0
  /\ handled = {} /\ made = FALSE /\ misread = FALSE /\ torn = FALSE /\ crowded = FALSE
  /\ writer = "up" /\ reader = "up"

End(f) == f.at + FrameSize(f.body)

\* Where a frame starts, or the next one will.
Boundary == {f.at : f \in frames} \cup {written}

-----------------------------------------------------------------------------
(* socket_write_message()                                                  *)

WriteFatal(body) ==
  /\ writer = "up"
  /\ SerializeFails(body) \/ MemcpyOverflows(body)
  /\ writer' = "dead"
  /\ UNCHANGED <<streamVars, arrived, taken, historyVars, reader>>

\* write() of a blocking socket writes all of the frame.  A process that
\* survives the overflow writes what body_size says.
Write(body) ==
  /\ writer = "up"
  /\ Cardinality(frames) < MaxFrames
  /\ ~SerializeFails(body)
  /\ frames' = frames \cup {[at |-> written, body |-> body]}
  /\ written' = written + FrameSize(body)
  /\ UNCHANGED <<arrived, taken, historyVars, writer, reader>>

-----------------------------------------------------------------------------
(* TCP brings any part of what was written.                                *)

Arrive ==
  /\ arrived' \in arrived + 1 .. written
  /\ UNCHANGED <<streamVars, taken, historyVars, writer, reader>>

-----------------------------------------------------------------------------
(* process_message(): recv, and message_dispatch of its result.            *)

Waiting == arrived - taken

\* Faulty forms of Received: the size of the buffer for that of the result; a
\* recv that is not limited to the buffer.
ReceivedFull == MESSAGE_BUFFER_SIZE
ReceivedAll  == Waiting

\* recv returns what is there, up to the size of its buffer.
Received == IF Waiting < MESSAGE_BUFFER_SIZE THEN Waiting ELSE MESSAGE_BUFFER_SIZE

\* Faulty forms of First: the last byte is taken for one too many; the frames
\* that earlier calls left in the buffer are seen again.
FirstStrict == {f \in frames : f.at = taken /\ End(f) < taken + Received}
FirstStale  == {f \in frames : End(f) <= taken + Received}

\* The frame that the bytes received begin with and hold completely.  The code
\* does not ask whether there is one; what it does depends on it all the same.
First == {f \in frames : f.at = taken /\ End(f) <= taken + Received}

Take ==
  /\ reader = "up" /\ Waiting > 0
  /\ taken' = taken + Received
  /\ torn' = (torn \/ taken' \notin Boundary)
  /\ crowded' = (crowded \/ Cardinality({f \in frames : f.at >= taken /\ f.at < arrived}) > 1)
  /\ UNCHANGED <<streamVars, arrived, writer>>

\* The first frame is handled; what follows it in the buffer is dropped.
RecvFrame ==
  /\ First # {}
  /\ Take
  /\ handled' = handled \cup First
  /\ UNCHANGED <<made, misread, reader>>

\* A part of a frame, or bytes from its middle, or of a frame that is longer
\* than the buffer: they are dispatched like any others, body_size bytes are
\* parsed whatever recv returned, and the rest of the MessageWrapper is
\* undefined.  So the id may be unknown or the body not parse, or a handler and
\* a callback run with a message nobody wrote, or the process ends.
RecvOther ==
  /\ First = {}
  /\ Take
  /\ misread' = TRUE
  /\ made' \in {made, TRUE}
  /\ reader' \in {"up", "dead"}
  /\ UNCHANGED handled

Next ==
  \/ \E body \in Bodies : Write(body) \/ WriteFatal(body)
  \/ Arrive
  \/ RecvFrame \/ RecvOther

Spec == Init /\ [][Next]_vars

-----------------------------------------------------------------------------
(* Properties                                                              *)

\* Types of the positions in the stream, and their order.
TypeOK ==
  /\ frames \subseteq [at : Nat, body : Bodies]
  /\ written \in Nat /\ arrived \in 0 .. written /\ taken \in 0 .. arrived
  /\ handled \subseteq frames
  /\ made \in BOOLEAN /\ misread \in BOOLEAN /\ torn \in BOOLEAN /\ crowded \in BOOLEAN
  /\ writer \in {"up", "dead"} /\ reader \in {"up", "dead"}

\* process_message takes the result of recv for one message.  It misreads bytes,
\* and gives a handler what nobody wrote, only once some recv has ended inside a
\* frame: merged writes alone cost messages but never make one up.
MisreadsFollowTear == misread \/ made => torn

\* A message is lost only to another one that waited with it: who sends one
\* message and waits for its answer, as start_session() does, is heard.
LossNeedsCompany ==
  ~torn /\ ~crowded => \A f \in frames : End(f) <= taken => f \in handled

\* A frame whose body overflowed MessageWrapper.body, if its writer survives, is
\* longer than the reader's buffer.  No splitting or merging lets the reader get
\* past it without taking for a message what is not one.
OverflowsAreMisread ==
  \A f \in frames : MemcpyOverflows(f.body) /\ End(f) <= taken => misread

-----------------------------------------------------------------------------
(* The frames as LossyChannel sees them, by where they start.              *)

StartsOf(S) == {f.at : f \in S}

Lossy == INSTANCE LossyChannel WITH
  put    <- StartsOf(frames),
  got    <- StartsOf(handled),
  broken <- torn

\* Whatever TCP merges and splits, frames that are received whole are handled one
\* at a time, in the order they were written.  Until a recv has ended inside a
\* frame nothing else is handled: a dropped message never turns up later.
ImplementsLossyChannel == Lossy!Spec
=============================================================================

------------------------ MODULE MessageStreamProofs -------------------------
(***************************************************************************)
(* Proofs about Framing, for the sizes of messageformat.h, and about       *)
(* MessageStream, for every size of header, body and buffer.               *)
(***************************************************************************)
EXTENDS MessageStream, FiniteSetTheorems, TLAPS

\* The sizes of messageformat.h.
SourceSizes == IntSize = 4 /\ UuidSize = 16 /\ MESSAGE_BUFFER_SIZE = 1024

\* 55 partners fit a frame, the list of 56 is copied past the end of the body,
\* and from 57 on create_wrapper_from_protobuf fails: EscrowServer's MaxListed
\* is 55.
THEOREM PartnersThatFit ==
  ASSUME SourceSizes, NEW n \in Nat
  PROVE  /\ Fits(PartnersBody(n)) <=> n <= 55
         /\ MemcpyOverflows(PartnersBody(n)) <=> n = 56
         /\ SerializeFails(PartnersBody(n)) <=> n >= 57
<1>1. PartnersBody(n) = n * 18
  BY DEF SourceSizes, PartnersBody, FieldSize, LengthSize
<1>2. MESSAGE_MAX_BODY_SIZE = 1000
  BY DEF SourceSizes, MESSAGE_MAX_BODY_SIZE, HeaderSize
<1> QED
  BY <1>1, <1>2 DEF SourceSizes, Fits, MemcpyOverflows, SerializeFails

\* A text of 997 bytes can be echoed, one of 998 to 1021 is copied past the end
\* of the body, and a longer one ends the client.
THEOREM EchoesThatFit ==
  ASSUME SourceSizes, NEW n \in Nat
  PROVE  /\ Fits(EchoBody(n)) <=> n <= 997
         /\ MemcpyOverflows(EchoBody(n)) <=> n \in 998 .. 1021
         /\ SerializeFails(EchoBody(n)) <=> n >= 1022
<1>1. MESSAGE_MAX_BODY_SIZE = 1000
  BY DEF SourceSizes, MESSAGE_MAX_BODY_SIZE, HeaderSize
<1> QED
  BY <1>1 DEF SourceSizes, Fits, MemcpyOverflows, SerializeFails, EchoBody, FieldSize, LengthSize

\* The request and the answer that start a session fit, as they have one size.
THEOREM StartFits ==
  ASSUME SourceSizes
  PROVE  Fits(StartRequestBody) /\ Fits(StartResponseBody)
<1>1. MESSAGE_MAX_BODY_SIZE = 1000
  BY DEF SourceSizes, MESSAGE_MAX_BODY_SIZE, HeaderSize
<1>2. StartRequestBody = 18 /\ StartResponseBody = 38
  BY DEF SourceSizes, StartRequestBody, StartResponseBody, FieldSize, LengthSize
<1> QED
  BY <1>1, <1>2 DEF Fits

-----------------------------------------------------------------------------
(* The stream.                                                             *)

\* Frames follow each other without gaps, and until some recv has ended inside
\* a frame, recv starts at one.
StreamInv ==
  /\ frames \subseteq [at : Nat, body : Bodies]
  /\ written \in Nat /\ arrived \in 0 .. written /\ taken \in 0 .. arrived
  /\ handled \subseteq frames
  /\ made \in BOOLEAN /\ misread \in BOOLEAN /\ torn \in BOOLEAN /\ crowded \in BOOLEAN
  /\ writer \in {"up", "dead"} /\ reader \in {"up", "dead"}
  /\ \A f \in frames : End(f) <= written /\ End(f) \in Boundary
  /\ \A f, g \in frames : f # g => End(f) <= g.at \/ End(g) <= f.at
  /\ ~torn => taken \in Boundary
  /\ misread \/ made => torn

LEMMA SizesAreNumbers ==
  /\ HeaderSize \in Nat /\ 0 < HeaderSize
  /\ MESSAGE_BUFFER_SIZE \in Nat /\ 0 < MESSAGE_BUFFER_SIZE
  /\ \A b \in Bodies : b \in Nat /\ FrameSize(b) \in Nat /\ FrameSize(b) > 0
BY FramingAssumption, StreamAssumption DEF HeaderSize, FrameSize

LEMMA StreamInit == Init => StreamInv
<1> SUFFICES ASSUME Init PROVE StreamInv
  OBVIOUS
<1>1. written \in Nat /\ arrived \in 0 .. written /\ taken \in 0 .. arrived
  BY DEF Init
<1>2. frames = {} /\ handled = {} /\ taken \in Boundary
  BY DEF Init, Boundary
<1> QED
  BY <1>1, <1>2 DEF Init, StreamInv

LEMMA StreamWrite ==
  ASSUME StreamInv, NEW body \in Bodies, Write(body)
  PROVE  StreamInv'
<1> DEFINE new == [at |-> written, body |-> body]
<1>1. /\ frames' = frames \cup {new} /\ written' = written + FrameSize(body)
      /\ UNCHANGED <<arrived, taken, handled, made, misread, torn, crowded, writer, reader>>
  BY DEF Write, historyVars
<1>2. /\ written \in Nat /\ FrameSize(body) \in Nat /\ FrameSize(body) > 0
      /\ written' \in Nat /\ arrived \in Nat /\ taken \in Nat
  BY <1>1, SizesAreNumbers DEF StreamInv
<1>3. /\ new.at = written /\ new.body = body /\ new \in [at : Nat, body : Bodies]
      /\ End(new) = written'
  BY <1>1, <1>2 DEF End
<1>4. \A f \in frames : f.at \in Nat /\ End(f) \in Nat /\ f.at < End(f)
  BY SizesAreNumbers DEF StreamInv, End
<1>5. Boundary' = Boundary \cup {written'}
  BY <1>1, <1>3, Zenon DEF Boundary
<1>6. \A f \in frames' : End(f) <= written' /\ End(f) \in Boundary'
  BY <1>1, <1>2, <1>3, <1>4, <1>5 DEF StreamInv
<1>7. \A f, g \in frames' : f # g => End(f) <= g.at \/ End(g) <= f.at
  BY <1>1, <1>3, <1>4 DEF StreamInv
<1>8. frames' \subseteq [at : Nat, body : Bodies] /\ handled' \subseteq frames'
  BY <1>1, <1>3 DEF StreamInv
<1>9. ~torn' => taken' \in Boundary'
  BY <1>1, <1>5 DEF StreamInv
<1>10. arrived' \in 0 .. written' /\ taken' \in 0 .. arrived'
  BY <1>1, <1>2 DEF StreamInv
<1> QED
  BY <1>1, <1>2, <1>6, <1>7, <1>8, <1>9, <1>10 DEF StreamInv, End

LEMMA StreamTake ==
  ASSUME StreamInv, Take
  PROVE  /\ taken' \in 0 .. arrived /\ taken < taken' /\ taken' = taken + Received
         /\ ~torn' => ~torn /\ taken' \in Boundary
         /\ torn' \in BOOLEAN /\ crowded' \in BOOLEAN
         /\ UNCHANGED <<frames, written, arrived, writer>> /\ Boundary' = Boundary
<1>1. arrived \in Nat /\ taken \in Nat /\ taken <= arrived /\ taken < arrived
  BY DEF StreamInv, Take, Waiting
<1>2. Received \in Nat /\ 0 < Received /\ taken + Received <= arrived
  BY <1>1, SizesAreNumbers DEF Received, Waiting
<1>3. Boundary' = Boundary
  BY DEF Take, streamVars, Boundary
<1>4. crowded' \in BOOLEAN /\ torn' \in BOOLEAN
  BY Zenon DEF Take, StreamInv
<1>5. /\ taken' = taken + Received /\ torn' = (torn \/ taken' \notin Boundary)
      /\ UNCHANGED <<frames, written, arrived, writer>>
  BY DEF Take, streamVars
<1>6. ~torn' => ~torn /\ taken' \in Boundary
  BY <1>5, Zenon
<1>7. taken' \in 0 .. arrived /\ taken < taken'
  BY <1>1, <1>2, <1>5
<1> QED
  BY <1>3, <1>4, <1>5, <1>6, <1>7, Zenon

\* A recv that starts at a frame and does not hold all of it ends inside it.
LEMMA IncompleteTears ==
  ASSUME StreamInv, Take, ~torn, First = {}
  PROVE  torn'
<1>1. taken \in Boundary /\ taken \in Nat /\ taken < arrived /\ arrived <= written /\ written \in Nat
      /\ arrived \in Nat
  BY DEF StreamInv, Take, Waiting
<1>2. PICK f \in frames : f.at = taken
  BY <1>1 DEF Boundary
<1>3. f.at \in Nat /\ End(f) \in Nat /\ f.at < taken' /\ taken' < End(f) /\ taken' \in Nat
  <2>1. f.at \in Nat /\ End(f) \in Nat
    BY SizesAreNumbers DEF StreamInv, End
  <2>2. ~(End(f) <= taken + Received)
    BY <1>2 DEF First
  <2> QED
    BY <1>1, <1>2, <2>1, <2>2, StreamTake
<1>4. \A g \in frames : g.at \in Nat /\ End(g) \in Nat /\ g.at < End(g)
  BY SizesAreNumbers DEF StreamInv, End
<1>5. ASSUME NEW g \in frames PROVE g.at # taken'
  BY <1>3, <1>4 DEF StreamInv
<1>6. taken' # written
  BY <1>1, <1>3 DEF StreamInv
<1> QED
  BY <1>5, <1>6 DEF Take, Boundary

LEMMA StreamRecv ==
  ASSUME StreamInv, RecvFrame \/ RecvOther
  PROVE  StreamInv'
<1>1. Take
  BY DEF RecvFrame, RecvOther
<1>2. /\ handled' \subseteq frames /\ misread' \in BOOLEAN /\ made' \in BOOLEAN /\ reader' \in {"up", "dead"}
      /\ misread' \/ made' => misread \/ made \/ First = {}
  <2>1. First \subseteq frames
    BY DEF First
  <2>2. CASE RecvFrame
    BY <2>1, <2>2 DEF RecvFrame, StreamInv
  <2>3. CASE RecvOther
    BY <2>3 DEF RecvOther, StreamInv
  <2> QED
    BY <2>2, <2>3
<1>3. misread' \/ made' => torn'
  <2>1. CASE torn
    BY <1>1, <2>1 DEF Take
  <2>2. CASE ~torn
    BY <1>1, <1>2, <2>2, IncompleteTears DEF StreamInv
  <2> QED
    BY <2>1, <2>2
<1> QED
  BY <1>1, <1>2, <1>3, StreamTake DEF StreamInv, End

LEMMA StreamStep == StreamInv /\ [Next]_vars => StreamInv'
<1> SUFFICES ASSUME StreamInv, [Next]_vars PROVE StreamInv'
  OBVIOUS
<1>1. CASE UNCHANGED vars
  BY <1>1 DEF StreamInv, vars, streamVars, historyVars, End, Boundary
<1>2. CASE \E body \in Bodies : Write(body)
  BY <1>2, StreamWrite
<1>3. CASE \E body \in Bodies : WriteFatal(body)
  BY <1>3 DEF WriteFatal, StreamInv, streamVars, historyVars, End, Boundary
<1>4. CASE Arrive
  BY <1>4 DEF Arrive, StreamInv, streamVars, historyVars, End, Boundary
<1>5. CASE RecvFrame \/ RecvOther
  BY <1>5, StreamRecv
<1> QED
  BY <1>1, <1>2, <1>3, <1>4, <1>5 DEF Next

LEMMA StreamAlways == Spec => []StreamInv
BY StreamInit, StreamStep, PTL DEF Spec

\* Types of the positions in the stream, and their order.
THEOREM TypeCorrect == Spec => []TypeOK
<1>1. StreamInv => TypeOK
  BY DEF StreamInv, TypeOK
<1> QED
  BY <1>1, StreamAlways, PTL

\* Bytes are misread, and made into a message, only after some recv has ended
\* inside a frame.
THEOREM MisreadsAreTorn == Spec => []MisreadsFollowTear
<1>1. StreamInv => MisreadsFollowTear
  BY DEF StreamInv, MisreadsFollowTear
<1> QED
  BY <1>1, StreamAlways, PTL

-----------------------------------------------------------------------------
(* Messages that are lost.                                                 *)

\* No frame reaches across a boundary.
LEMMA NoneAcross ==
  ASSUME StreamInv, NEW b \in Boundary, NEW g \in frames
  PROVE  /\ b <= g.at \/ End(g) <= b
         /\ b \in Nat /\ g.at \in Nat /\ End(g) \in Nat /\ g.at < End(g)
<1>1. \A f \in frames : f.at \in Nat /\ End(f) \in Nat /\ f.at < End(f)
  BY SizesAreNumbers DEF StreamInv, End
<1>2. CASE b = written
  BY <1>1, <1>2 DEF StreamInv
<1>3. CASE \E f \in frames : f.at = b
  BY <1>1, <1>3 DEF StreamInv
<1> QED
  BY <1>2, <1>3 DEF Boundary

\* A recv that begins with a complete frame does not pass one that is longer than
\* its buffer.
LEMMA OverflowsStayAhead ==
  ASSUME StreamInv, Take, First # {},
         NEW f \in frames, MemcpyOverflows(f.body), ~(End(f) <= taken)
  PROVE  ~(End(f) <= taken')
<1>1. PICK g \in frames : g.at = taken /\ End(g) <= taken + Received
  BY DEF First
<1>2. \A h \in frames : h.at \in Nat /\ End(h) \in Nat /\ h.at < End(h)
  BY SizesAreNumbers DEF StreamInv, End
<1>3. /\ taken' = taken + Received /\ taken \in Nat /\ Received \in Nat
      /\ Received <= MESSAGE_BUFFER_SIZE
  BY SizesAreNumbers DEF Take, StreamInv, Received, Waiting
<1>4. taken <= f.at
  BY <1>1, <1>2, <1>3 DEF StreamInv
<1>5. f.body \in Nat /\ f.body > MESSAGE_BUFFER_SIZE - HeaderSize
  BY StreamAssumption DEF StreamInv, MemcpyOverflows, MESSAGE_MAX_BODY_SIZE
<1>6. FrameSize(f.body) > MESSAGE_BUFFER_SIZE /\ FrameSize(f.body) \in Nat
  BY <1>5, SizesAreNumbers DEF FrameSize
<1> QED
  BY <1>2, <1>3, <1>4, <1>6, SizesAreNumbers DEF End

LEMMA OverflowStep == StreamInv /\ OverflowsAreMisread /\ [Next]_vars => OverflowsAreMisread'
<1> SUFFICES ASSUME StreamInv, OverflowsAreMisread, [Next]_vars PROVE OverflowsAreMisread'
  OBVIOUS
<1>1. CASE UNCHANGED vars \/ Arrive \/ \E body \in Bodies : WriteFatal(body)
  BY <1>1 DEF OverflowsAreMisread, End, vars, streamVars, historyVars, Arrive, WriteFatal
<1>2. ASSUME NEW body \in Bodies, Write(body)
      PROVE  OverflowsAreMisread'
  <2>1. /\ frames' = frames \cup {[at |-> written, body |-> body]}
        /\ UNCHANGED <<taken, misread>>
    BY <1>2 DEF Write, historyVars
  <2>2. ~(written + FrameSize(body) <= taken)
    BY SizesAreNumbers DEF StreamInv
  <2> QED
    BY <2>1, <2>2 DEF OverflowsAreMisread, End
<1>3. CASE RecvFrame
  <2>1. Take /\ First # {} /\ UNCHANGED <<frames, misread>>
    BY <1>3 DEF RecvFrame, Take, streamVars
  <2>2. ASSUME NEW f \in frames, MemcpyOverflows(f.body), End(f) <= taken' PROVE misread'
    BY <2>1, <2>2, OverflowsStayAhead DEF OverflowsAreMisread
  <2> QED
    BY <2>1, <2>2 DEF OverflowsAreMisread, End
<1>4. CASE RecvOther
  BY <1>4 DEF RecvOther, OverflowsAreMisread
<1> QED
  BY <1>1, <1>2, <1>3, <1>4 DEF Next

\* The reader does not get past a frame whose body did not fit without taking for
\* a message what is not one, for any sizes, splitting and merging.
THEOREM OverflowsMisread == Spec => []OverflowsAreMisread
<1>1. Init => OverflowsAreMisread
  BY DEF Init, OverflowsAreMisread
<1> QED
  BY <1>1, StreamAlways, OverflowStep, PTL DEF Spec

\* Nothing is lost while every recv takes whole frames, one at a time.
CompanyInv == IsFiniteSet(frames) /\ LossNeedsCompany

\* With two frames waiting a recv is crowded.
LEMMA TwoAreACrowd ==
  ASSUME NEW S, IsFiniteSet(S), NEW f \in S, NEW g \in S, f # g
  PROVE  Cardinality(S) > 1
<1>1. Cardinality({f}) = 1 /\ IsFiniteSet({f})
  BY FS_Singleton
<1>2. Cardinality({f, g}) = 2
  <2>1. Cardinality({f} \cup {g}) = Cardinality({f}) + 1
    BY <1>1, FS_AddElement
  <2>2. {f} \cup {g} = {f, g}
    OBVIOUS
  <2> QED
    BY <1>1, <2>1, <2>2
<1>3. Cardinality({f, g}) <= Cardinality(S)
  BY FS_Subset
<1>4. Cardinality(S) \in Nat
  BY FS_CardinalityType
<1> QED
  BY <1>2, <1>3, <1>4

LEMMA CompanyStep == StreamInv /\ CompanyInv /\ [Next]_vars => CompanyInv'
<1> SUFFICES ASSUME StreamInv, CompanyInv, [Next]_vars PROVE CompanyInv'
  OBVIOUS
<1>1. CASE UNCHANGED vars \/ Arrive \/ \E body \in Bodies : WriteFatal(body)
  BY <1>1 DEF CompanyInv, LossNeedsCompany, End, vars, streamVars, historyVars, Arrive, WriteFatal
<1>2. ASSUME NEW body \in Bodies, Write(body)
      PROVE  CompanyInv'
  <2>1. /\ frames' = frames \cup {[at |-> written, body |-> body]}
        /\ UNCHANGED <<taken, handled, torn, crowded>>
    BY <1>2 DEF Write, historyVars
  <2>2. IsFiniteSet(frames')
    BY <2>1, FS_AddElement DEF CompanyInv
  <2>3. ~(written + FrameSize(body) <= taken)
    BY SizesAreNumbers DEF StreamInv
  <2>4. LossNeedsCompany'
    BY <2>1, <2>3 DEF CompanyInv, LossNeedsCompany, End
  <2> QED
    BY <2>2, <2>4 DEF CompanyInv
<1>3. CASE RecvFrame \/ RecvOther
  <2>1. Take /\ UNCHANGED frames
    BY <1>3 DEF RecvFrame, RecvOther, Take, streamVars
  <2>2. SUFFICES ASSUME ~torn', ~crowded', NEW g \in frames, End(g) <= taken'
                 PROVE  g \in handled'
    BY <2>1 DEF CompanyInv, LossNeedsCompany, End
  <2>3. /\ ~torn /\ ~crowded /\ taken \in Boundary
        /\ ~(Cardinality({f \in frames : f.at >= taken /\ f.at < arrived}) > 1)
    BY <2>1, <2>2, StreamTake, Zenon DEF Take, StreamInv
  <2>4. RecvFrame
    BY <1>3, <2>1, <2>2, <2>3, IncompleteTears DEF RecvOther
  <2>5. handled' = handled \cup First
    BY <2>4 DEF RecvFrame
  <2>6. CASE End(g) <= taken
    BY <2>3, <2>5, <2>6 DEF CompanyInv, LossNeedsCompany
  <2>7. CASE ~(End(g) <= taken)
    <3> DEFINE waiting == {f \in frames : f.at >= taken /\ f.at < arrived}
    <3>1. PICK f \in frames : f \in First
      BY <2>4 DEF RecvFrame, First
    <3>2. f.at = taken /\ f.at < arrived
      BY <2>1, <3>1 DEF First, StreamInv, Take, Waiting
    <3>3. taken <= g.at /\ g.at < End(g) /\ g.at \in Nat /\ End(g) \in Nat
      BY <2>3, <2>7, NoneAcross
    <3>4. g.at < arrived
      BY <2>1, <2>2, <3>3, StreamTake DEF StreamInv
    <3>5. f \in waiting /\ g \in waiting
      BY <3>2, <3>3, <3>4 DEF StreamInv
    <3>6. IsFiniteSet(waiting)
      BY FS_Subset DEF CompanyInv
    <3>7. ~(Cardinality(waiting) > 1)
      BY <2>3
    <3> HIDE DEF waiting
    <3>8. f = g
      BY <3>5, <3>6, <3>7, TwoAreACrowd
    <3> QED
      BY <2>5, <3>1, <3>8
  <2> QED
    BY <2>6, <2>7
<1> QED
  BY <1>1, <1>2, <1>3 DEF Next

\* A message is lost only when another one waited with it: who sends one message
\* and waits for its answer, as start_session() does, is heard, for any sizes.
THEOREM LossesHaveCompany == Spec => []LossNeedsCompany
<1>1. Init => CompanyInv
  BY FS_EmptySet DEF Init, CompanyInv, LossNeedsCompany
<1>2. CompanyInv => LossNeedsCompany
  BY DEF CompanyInv
<1> QED
  BY <1>1, <1>2, StreamAlways, CompanyStep, PTL DEF Spec

-----------------------------------------------------------------------------
(* The stream implements LossyChannel.                                     *)

\* A frame that was handled lies before everything the reader has yet to take.
BehindInv == \A f \in handled : End(f) <= taken

LEMMA BehindStep == StreamInv /\ BehindInv /\ [Next]_vars => BehindInv'
<1> SUFFICES ASSUME StreamInv, BehindInv, [Next]_vars PROVE BehindInv'
  OBVIOUS
<1>1. CASE UNCHANGED vars \/ Arrive \/ \E body \in Bodies : Write(body) \/ WriteFatal(body)
  BY <1>1 DEF BehindInv, End, vars, streamVars, historyVars, Arrive, Write, WriteFatal
<1>2. CASE RecvFrame \/ RecvOther
  <2>1. Take /\ (handled' = handled \/ handled' = handled \cup First)
    BY <1>2 DEF RecvFrame, RecvOther
  <2>2. taken' = taken + Received /\ taken < taken' /\ taken \in Nat /\ taken' \in Nat
    BY <2>1, StreamTake DEF StreamInv
  <2>3. \A f \in frames : End(f) \in Nat
    BY SizesAreNumbers DEF StreamInv, End
  <2>4. ASSUME NEW f \in handled' PROVE End(f) <= taken'
    <3>1. CASE f \in handled
      BY <2>2, <2>3, <3>1 DEF BehindInv, StreamInv
    <3>2. CASE f \in First
      BY <2>2, <3>2 DEF First
    <3> QED
      BY <2>1, <2>4, <3>1, <3>2
  <2> QED
    BY <2>4 DEF BehindInv, End
<1> QED
  BY <1>1, <1>2 DEF Next

\* What is written starts after all that was written before.
LEMMA WritePuts ==
  ASSUME StreamInv, NEW body \in Bodies, Write(body)
  PROVE  Lossy!Next
<1> DEFINE new == [at |-> written, body |-> body]
<1>1. frames' = frames \cup {new} /\ UNCHANGED <<handled, made, torn>> /\ new.at = written
  BY DEF Write, historyVars
<1>2. StartsOf(frames') = StartsOf(frames) \cup {written} /\ StartsOf(handled') = StartsOf(handled)
  BY <1>1, Zenon DEF StartsOf
<1>3. \A f \in frames : f.at < written
  <2>1. \A f \in frames : f.at \in Nat /\ End(f) \in Nat /\ f.at < End(f)
    BY SizesAreNumbers DEF StreamInv, End
  <2> QED
    BY <2>1 DEF StreamInv
<1>4. \A p \in StartsOf(frames) : p < written
  BY <1>3 DEF StartsOf
<1>5. StartsOf(frames)' = StartsOf(frames') /\ StartsOf(handled)' = StartsOf(handled')
  BY Zenon DEF StartsOf
<1>6. Lossy!Put(written)
  BY <1>1, <1>2, <1>4, <1>5 DEF Lossy!Put
<1> QED
  BY <1>2, <1>5, <1>6 DEF Lossy!Next

\* What one recv handles is one message, and behind it are all those before.
LEMMA RecvGets ==
  ASSUME StreamInv, BehindInv, RecvFrame
  PROVE  Lossy!Next
<1>1. /\ frames' = frames /\ handled' = handled \cup First /\ First # {} /\ taken \in Nat
      /\ made' = made /\ torn' \in {torn, TRUE}
  <2>1. torn' = (torn \/ taken' \notin Boundary) /\ torn \in BOOLEAN
    BY DEF RecvFrame, Take, StreamInv
  <2>2. torn' \in {torn, TRUE}
    BY <2>1, Zenon
  <2>3. Take /\ handled' = handled \cup First /\ First # {} /\ made' = made
    BY DEF RecvFrame
  <2>4. frames' = frames /\ taken \in Nat
    BY <2>3 DEF Take, streamVars, StreamInv
  <2> QED
    BY <2>2, <2>3, <2>4, Zenon
<1>2. StartsOf(First) = {taken} /\ taken \in StartsOf(frames)
  BY <1>1 DEF StartsOf, First
<1>3. StartsOf(frames') = StartsOf(frames) /\ StartsOf(handled') = StartsOf(handled) \cup {taken}
  BY <1>1, <1>2 DEF StartsOf
<1>4. \A f \in handled : f.at < taken
  <2>1. \A f \in frames : f.at \in Nat /\ End(f) \in Nat /\ f.at < End(f)
    BY SizesAreNumbers DEF StreamInv, End
  <2> QED
    BY <1>1, <2>1 DEF StreamInv, BehindInv
<1>5. \A g \in StartsOf(handled) : g < taken
  BY <1>4 DEF StartsOf
<1>6. StartsOf(frames)' = StartsOf(frames') /\ StartsOf(handled)' = StartsOf(handled')
  BY Zenon DEF StartsOf
<1>7. Lossy!Get(taken)
  BY <1>1, <1>3, <1>5, <1>6 DEF Lossy!Get
<1> QED
  BY <1>2, <1>7 DEF Lossy!Next

\* A recv that does not begin with a complete frame has lost its place, or does
\* so now, and only then does a handler get what nobody wrote.
LEMMA OtherBreaks ==
  ASSUME StreamInv, RecvOther
  PROVE  Lossy!Next
<1>1. Take /\ First = {} /\ made' \in {made, TRUE} /\ UNCHANGED <<frames, handled>>
  BY DEF RecvOther, Take, streamVars
<1>2. torn' = TRUE
  <2>1. torn' = (torn \/ taken' \notin Boundary) /\ torn \in BOOLEAN
    BY <1>1 DEF Take, StreamInv
  <2>2. torn \/ torn'
    BY <1>1, IncompleteTears
  <2> QED
    BY <2>1, <2>2, Zenon
<1>3. UNCHANGED <<StartsOf(frames), StartsOf(handled)>>
  BY <1>1 DEF StartsOf
<1>4. Lossy!Break
  BY <1>1, <1>2, <1>3 DEF Lossy!Break
<1> QED
  BY <1>4 DEF Lossy!Next

\* For any sizes and any splitting and merging of the writes, frames received
\* whole are handled one at a time, in the order they were written; and anything
\* else only after a recv has ended inside a frame.
THEOREM StreamImplementsChannel == Spec => ImplementsLossyChannel
<1>1. Init => BehindInv /\ Lossy!Init
  BY DEF Init, BehindInv, Lossy!Init, StartsOf
<1>2. StreamInv /\ BehindInv /\ [Next]_vars
        => [Lossy!Next]_<<StartsOf(frames), StartsOf(handled), made, torn>>
  <2> SUFFICES ASSUME StreamInv, BehindInv, [Next]_vars
               PROVE  Lossy!Next \/ UNCHANGED <<StartsOf(frames), StartsOf(handled), made, torn>>
    OBVIOUS
  <2>1. CASE \E body \in Bodies : Write(body)
    BY <2>1, WritePuts
  <2>2. CASE RecvFrame \/ RecvOther
    BY <2>2, RecvGets, OtherBreaks
  <2>3. CASE Arrive \/ UNCHANGED vars \/ \E body \in Bodies : WriteFatal(body)
    <3>1. UNCHANGED <<frames, handled, made, torn>>
      BY <2>3 DEF Arrive, WriteFatal, vars, streamVars, historyVars
    <3> QED
      BY <3>1 DEF StartsOf
  <2> QED
    BY <2>1, <2>2, <2>3 DEF Next
<1> QED
  BY <1>1, <1>2, StreamAlways, BehindStep, PTL DEF Spec, ImplementsLossyChannel, Lossy!Spec
=============================================================================

------------------------------ MODULE Framing -------------------------------
(***************************************************************************)
(* Frames: the sizes of messageformat.h, and create_wrapper_from_protobuf, *)
(* which puts a protobuf into a MessageWrapper.                            *)
(***************************************************************************)
EXTENDS Naturals

CONSTANTS
  IntSize,             \* sizeof(int): 4
  UuidSize,            \* sizeof(uuid_t): 16
  MESSAGE_BUFFER_SIZE  \* 1024

HeaderSize == IntSize + IntSize + UuidSize

ASSUME FramingAssumption ==
  /\ IntSize \in Nat /\ UuidSize \in Nat /\ MESSAGE_BUFFER_SIZE \in Nat
  /\ 0 < HeaderSize /\ HeaderSize < MESSAGE_BUFFER_SIZE

MESSAGE_MAX_BODY_SIZE == MESSAGE_BUFFER_SIZE - HeaderSize

\* MESSAGEWRAPPER_SIZE: what is written for a body of this size.
FrameSize(body) == HeaderSize + body

\* SerializeToArray into the buffer of create_wrapper_from_protobuf.
SerializeFails(body) == body > MESSAGE_BUFFER_SIZE

\* The memcpy into MessageWrapper.body, which is smaller than that buffer.
MemcpyOverflows(body) == body > MESSAGE_MAX_BODY_SIZE /\ ~SerializeFails(body)

Fits(body) == body <= MESSAGE_MAX_BODY_SIZE

-----------------------------------------------------------------------------
(* Sizes of bodies in protobuf's encoding: a tag, a length, the bytes.     *)

LengthSize(n) == IF n < 128 THEN 1 ELSE IF n < 16384 THEN 2 ELSE 3

FieldSize(n) == 1 + LengthSize(n) + n

EchoBody(n)         == FieldSize(n)
PartnersBody(n)     == n * FieldSize(UuidSize)
StartRequestBody    == FieldSize(UuidSize)
StartResponseBody   == FieldSize(UuidSize) + FieldSize(UuidSize) + 2
=============================================================================

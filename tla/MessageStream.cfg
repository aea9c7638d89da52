\* Lists of none to four partners.  The sizes are scaled down so that, as with
\* those of messageformat.h, one more id than fits still serializes.
SPECIFICATION Spec
CONSTANTS
  IntSize = 1
  UuidSize = 2
  MESSAGE_BUFFER_SIZE = 13
  Bodies <- PartnerLists
  MaxFrames = 3
INVARIANTS
  TypeOK
  MisreadsFollowTear
  LossNeedsCompany
  OverflowsAreMisread
PROPERTIES
  ImplementsLossyChannel
CHECK_DEADLOCK FALSE

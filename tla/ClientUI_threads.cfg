\* The two threads of ve-client: six requests fill buffers that hold two in each
\* direction, with one being handled and one about to be written.
SPECIFICATION FairSpec
CONSTANTS
  MaxRequests = 6
  Capacity = 2
INVARIANTS
  TypeOK
  WidgetsExclusive
PROPERTIES
  AnswersFindCallbacks
  StuckForGood
  ImplementsCallbacks
  WritesReturn
  LeavingEnds
  LossEndsSocketThread
CHECK_DEADLOCK FALSE

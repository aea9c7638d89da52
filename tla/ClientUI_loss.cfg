\* Does a lost connection end the loop of run()?
SPECIFICATION FairSpec
CONSTANTS
  MaxRequests = 2
  Capacity = 2
PROPERTY LossEndsLoop
CHECK_DEADLOCK FALSE

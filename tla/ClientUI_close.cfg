\* Does process_message return?
SPECIFICATION FairSpec
CONSTANTS
  MaxRequests = 2
  Capacity = 2
PROPERTY ProcessMessageReturns
CHECK_DEADLOCK FALSE

\* Handshake and up to three more requests in any order.
SPECIFICATION FairSpec
CONSTANTS
  MaxRequests = 4
  MaxStray = 1
  MaxLines = 1
  Chatty = FALSE
  Writes = TRUE
INVARIANTS TypeOK OwnAnswer SubmittedOnce
PROPERTIES KeepsWord CallEnds
CHECK_DEADLOCK FALSE

\* A server that prints something every now and then, and no answer.
SPECIFICATION FairSpec
CONSTANTS
  MaxRequests = 2
  MaxStray = 1
  MaxLines = 1
  Chatty = TRUE
  Writes = TRUE
PROPERTY CallEnds
CHECK_DEADLOCK FALSE

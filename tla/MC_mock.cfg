\* One invocation at a time: two creates and two refunds at most.
SPECIFICATION Spec
CONSTANTS
  Invocations = {a}
  Overlap = FALSE
  MaxIssued = 4
  MaxNow = 2
  Ttl = 1
  Amounts = {1, 2}
  Balance = 2
INVARIANTS TypeOK Conserved UsedOnceInTime SettledIsKept
PROPERTY MockKeepsWord
CHECK_DEADLOCK FALSE

\* Two invocations that share the file.
SPECIFICATION Spec
CONSTANTS
  Invocations = {a, b}
  Overlap = TRUE
  MaxIssued = 2
  MaxNow = 1
  Ttl = 1
  Amounts = {1}
  Balance = 2
INVARIANT SettledIsKept
CHECK_DEADLOCK FALSE

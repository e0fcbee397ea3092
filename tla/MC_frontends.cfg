\* One invocation at a time, of either kind, any of which may die.
SPECIFICATION FrontSpec
CONSTANTS
  Procs = {p1}
  Terminals = {p1}
  Servers = {p1}
  Pinned = "gibwork"
  Adapters = {"mock", "gibwork"}
  MaxPrepares = 3
  Crashes = TRUE
  IndefiniteErrors = TRUE
INVARIANTS FrontTypeOK AuditComplete ApprovedOnly SaidIsSo OfferedIsAccepted
PROPERTIES LockHeld LedgerKept
CHECK_DEADLOCK FALSE

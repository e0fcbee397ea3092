\* Two invocations that overlap, over one backend, with room for a retry and a refund.
SPECIFICATION Spec
CONSTANTS
  Procs = {p1, p2}
  Adapters = {"gibwork"}
  MaxPrepares = 3
  Crashes = FALSE
  IndefiniteErrors = FALSE
SYMMETRY Symmetry
INVARIANTS TypeOK RowCoherent Truthful FailedIsSafe TransitionsAllowed
CHECK_DEADLOCK FALSE

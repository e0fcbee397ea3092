\* Two invocations that overlap and may die, over two backends.
SPECIFICATION Spec
CONSTANTS
  Procs = {p1, p2}
  Adapters = {"mock", "gibwork"}
  MaxPrepares = 2
  Crashes = TRUE
  IndefiniteErrors = FALSE
SYMMETRY Symmetry
INVARIANTS TypeOK RowCoherent Truthful FailedIsSafe TransitionsAllowed
CHECK_DEADLOCK FALSE

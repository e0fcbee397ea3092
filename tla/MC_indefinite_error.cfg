\* A tool error comes back for a submit that can still take effect.
SPECIFICATION Spec
CONSTANTS
  Procs = {p1}
  Adapters = {"gibwork"}
  MaxPrepares = 2
  Crashes = FALSE
  IndefiniteErrors = TRUE
INVARIANT FailedIsSafe
CHECK_DEADLOCK FALSE

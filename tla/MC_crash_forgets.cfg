\* The front end dies while it waits for the backend's answer.
SPECIFICATION Spec
CONSTANTS
  Procs = {p1}
  Adapters = {"gibwork"}
  MaxPrepares = 2
  Crashes = TRUE
  IndefiniteErrors = FALSE
INVARIANT NothingForgotten
CHECK_DEADLOCK FALSE

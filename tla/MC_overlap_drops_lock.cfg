\* An invocation that read the row before it was locked saves it after.
SPECIFICATION Spec
CONSTANTS
  Procs = {p1, p2}
  Adapters = {"gibwork"}
  MaxPrepares = 2
  Crashes = FALSE
  IndefiniteErrors = FALSE
PROPERTY LockHeld
CHECK_DEADLOCK FALSE

\* One invocation at a time, two backends, no crash.
SPECIFICATION FairSpec
CONSTANTS
  Procs = {p1}
  Adapters = {"mock", "gibwork"}
  MaxPrepares = 3
  Crashes = FALSE
  IndefiniteErrors = FALSE
INVARIANTS FundedOnce RefundAskedOnce NothingForgotten
PROPERTIES KeepsPromise LockClears MovedIsRecorded
CHECK_DEADLOCK FALSE

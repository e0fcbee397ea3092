\* hf may use a backend other than the one the MCP server is started with.
SPECIFICATION FrontSpec
CONSTANTS
  Procs = {p1}
  Terminals = {p1}
  Servers = {p1}
  Pinned = "gibwork"
  Adapters = {"mock", "gibwork"}
  MaxPrepares = 2
  Crashes = FALSE
  IndefiniteErrors = FALSE
INVARIANTS OfferedIsAllowed
CHECK_DEADLOCK FALSE

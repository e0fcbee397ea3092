\* One person with one terminal, and one agent with one MCP server.
SPECIFICATION FrontSpec
CONSTANTS
  Procs = {hf, agent}
  Terminals = {hf}
  Servers = {agent}
  Pinned = "gibwork"
  Adapters = {"gibwork"}
  MaxPrepares = 3
  Crashes = FALSE
  IndefiniteErrors = FALSE
INVARIANTS FundedOnce
CHECK_DEADLOCK FALSE

SPECIFICATION Spec
CONSTANTS
  Runtimes = {"r1", "r2"}
  Plan <- MCPlan
  Legacy = "legacy"
  Usd <- MCUsd
  Prior <- MCPrior
  MaxConns <- MCMaxConns
  MaxFaults <- MCMaxFaults
  None = None
INVARIANTS OneInFlight SpendWithinCase SettledIsAccepted
PROPERTIES OpeningCompletes
CHECK_DEADLOCK FALSE

SPECIFICATION RunnerSpec
CONSTANTS
  Runs = {r1, r2}
  Blocks = {b1}
  MaxChunks = 1
  MemoryEnabled = FALSE
  StoreMayFail = FALSE
  StartMayFail = TRUE
  None = None
SYMMETRY RunnerSymmetry
INVARIANTS FailedRunsReport
\* A server that is down, with every task over, stops.
CHECK_DEADLOCK FALSE

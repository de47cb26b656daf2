SPECIFICATION RunnerSpec
CONSTANTS
  Runs = {r1, r2}
  Blocks = {b1, b2}
  MaxChunks = 2
  MemoryEnabled = TRUE
  StoreMayFail = TRUE
  StartMayFail = TRUE
  None = None
SYMMETRY RunnerSymmetry
INVARIANTS RunnerTypeOK RunStory SummaryMatches AdoptedOnce OneLoom
\* A server that is down, with every task over, stops.
CHECK_DEADLOCK FALSE

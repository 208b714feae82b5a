SPECIFICATION Spec
CONSTANTS
  NumAgents = 3
  Rows = 2
  Cols = 3
  Obstacles = {4}
INVARIANT SimulatorInv
PROPERTIES NoSwap MovesAhead

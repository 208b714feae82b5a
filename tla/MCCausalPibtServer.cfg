SPECIFICATION ServerSpec
CONSTANTS
  NumAgents = 2
  Rows = 2
  Cols = 2
  Obstacles = {}
INVARIANT PlanIsValid

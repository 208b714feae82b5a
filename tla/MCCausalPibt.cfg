SPECIFICATION TimelySpec
CONSTANTS
  NumAgents = 3
  Rows = 2
  Cols = 2
  Obstacles = {}
INVARIANTS PibtInv PlanIsValid DecisionsApart
PROPERTY DecisionsAreCarriedOut

SPECIFICATION EpibtSpec
CONSTANTS
  NumAgents = 2
  Rows = 2
  Cols = 2
  Obstacles = {3}
  Goals = {1, 2}
  MaxMoved = 1
INVARIANTS EpibtInv CollisionsAreForced InheritedPlansHold
PROPERTY AllComeToRest

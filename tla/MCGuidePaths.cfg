CONSTANTS
  NumAgents = 2
  Rows = 2
  Cols = 4
  Obstacles = {2,6,7}
  Goals = {5}
  MaxTimestep = 1
  MaxRounds = 1
  MaxMoved = 1
SPECIFICATION GuideSpec
INVARIANTS GuideInv TablesAreExact FlowIsOfTrajs ExitsForNoPathOnly BestFirst
PROPERTY GuidesAreCheapest
CHECK_DEADLOCK FALSE

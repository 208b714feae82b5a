SPECIFICATION Spec
CONSTANTS
  NumAgents = 2
  NumTasksReveal = 2
  MaxEntries = 2
  SimulationTime = 4
  TaskFile <- MCTaskFile
  Locations <- MCLocations
INVARIANT NoCrash

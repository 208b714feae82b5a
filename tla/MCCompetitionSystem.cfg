SPECIFICATION SystemSpec
CONSTANTS
  NumAgents = 3
  NumTasksReveal = 2
  MaxEntries = 3
  SimulationTime = 3
  TaskFile <- MCTaskFile
  Locations <- MCLocations
INVARIANTS PlanIsForCurrentStates OrphansNeedADiscard RefusedForCauseOnly WorkIsSharedOut
PROPERTIES CarefulSpec SimulationEnds

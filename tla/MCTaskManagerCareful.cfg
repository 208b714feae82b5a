SPECIFICATION CarefulSpec
CONSTANTS
  NumAgents = 2
  NumTasksReveal = 2
  MaxEntries = 3
  SimulationTime = 4
  TaskFile <- MCTaskFile
  Locations <- MCLocations
INVARIANTS OneAgentPerTask NoCrash OpenedTaskIsHeld OneAgentVisitsAllErrands ScheduleExplainsCredits
PROPERTY ImplementsAllocation

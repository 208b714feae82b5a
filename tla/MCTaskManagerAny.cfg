SPECIFICATION Spec
CONSTANTS
  NumAgents = 2
  NumTasksReveal = 2
  MaxEntries = 3
  SimulationTime = 4
  TaskFile <- MCTaskFile
  Locations <- MCLocations
INVARIANTS TypeOK FinishedTasksCreditedOnce PoolIsFull

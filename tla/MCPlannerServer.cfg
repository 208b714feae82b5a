CONSTANTS
  MaxClients = 2
  MaxRequests = 3
SPECIFICATION Spec
INVARIANTS ServerInv PlansOnItsOwnData FireAndForgetIsSafe
PROPERTY EveryClientIsServed
CHECK_DEADLOCK FALSE

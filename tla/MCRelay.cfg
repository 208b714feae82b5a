SPECIFICATION Spec
CONSTANTS
  Sessions = {blue, red}
  MaxRequests = 3
INVARIANTS RelayInv ProcessesAreKnown AnswerIsMine
PROPERTY RequestsEnd
CHECK_DEADLOCK FALSE

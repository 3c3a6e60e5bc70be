CONSTANTS
  Requests <- MCRequests
  MaxRequests = 5
  MaxInFlight = 2
SPECIFICATION Spec
INVARIANTS RepliesInOrder RepliesTellTheState
PROPERTIES OneSessionOneGrid ResultsMatchRequest
CHECK_DEADLOCK FALSE

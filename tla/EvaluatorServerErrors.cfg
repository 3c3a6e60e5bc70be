CONSTANTS
  Requests <- DirectoryRequests
  MaxRequests = 3
  MaxInFlight = 2
SPECIFICATION Spec
PROPERTIES InvalidInputIsSurvived
CHECK_DEADLOCK FALSE

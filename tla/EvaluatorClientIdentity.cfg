CONSTANTS
  Requests <- MCRequests
  MaxRequests = 3
  MaxInFlight = 0
SPECIFICATION ClientSpec
PROPERTIES StartVerifies
CHECK_DEADLOCK FALSE

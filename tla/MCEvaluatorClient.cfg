CONSTANTS
  Requests <- MCRequests
  MaxRequests = 4
  MaxInFlight = 0
SPECIFICATION ClientSpec
INVARIANTS SessionsAgree
PROPERTIES TimeoutFailsClosed CallsReturn ShutdownEnds
CHECK_DEADLOCK FALSE

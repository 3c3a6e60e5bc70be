CONSTANTS
  Hour = 2
  ErrHours = 2
  GeoS = 5
  Day = 2
  Days = 2
  Errors <- MCErrors
  Horizon = 11
SPECIFICATION Spec
INVARIANTS PriceErrorExact GeoWindowsExact
PROPERTIES RingImplementsQueue
CHECK_DEADLOCK FALSE

CONSTANTS
  Tapes <- MCTapes
  Prices <- MCPrices
  Levels <- MCLevels
  Start = 1
  FeeBand = 1
  YbWidth = 2
  Horizon = 14
  Accrued <- MCAccrued
  Hour = 3
  RobustPeriod = 5
  DonationFreqs = {0, 3}
  UserFreq = 4
  TickFreq = 3
SPECIFICATION Spec
INVARIANTS CachesAreFresh EndsAtLastVisited
PROPERTIES SkippedEventIsQuiet

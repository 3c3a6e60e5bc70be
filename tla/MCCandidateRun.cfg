CONSTANTS
  Requests <- MCRequests
  MsFrom = 1000
  MsAbove = 1000
  Ages = {1, 16, 50}
  Lengths = {1, 2, 3}
  Draws = {0, 1, 2, 3, 4, 5}
  ParamCount = 1
  MaxTotal = 8
  RunLimits <- MCRunLimits
  PoolFields = {"A", "initial_price", "initial_liquidity"}
  DualEma = FALSE
  SwapReports = TRUE
SPECIFICATION Spec
INVARIANTS TapeExact FeedIsCausal WindowExact CandidateMatchesOrdinal StartsAtOneMoment
CHECK_DEADLOCK FALSE

CONSTANTS
  Ledgers <- MCLedgers
  Supplies <- MCSupplies
  Slips <- MCSlips
  Tol = 1
  GapLimit = 1
  MaxAdd = 4
  MaxDebt = 5
  MaxFills = 2
SPECIFICATION Spec
INVARIANTS CollateralTracksPool
PROPERTIES ImplementsLedger CashMatchesBooks
CHECK_DEADLOCK FALSE

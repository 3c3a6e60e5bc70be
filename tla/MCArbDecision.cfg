CONSTANTS
  Top = 72
  Third = 4
  Near = 3
  Dips <- MCDips
  Tol = 4
  MaxEvals = 14
  LowRungs = 9
  AllRungs = 11
  Shapes <- MCShapes
  Profit <- MCProfit
  Ends <- MCEnds
  ReportCost = 1
  Events <- MCEvents
  Slot <- MCSlot
SPECIFICATION Spec
INVARIANTS WithinBudget BracketHolds ExcludedSizesLose AnswerBeatsLadder PreviewsFresh DustIsTried BestActionWins SkipTestSound

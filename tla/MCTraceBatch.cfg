CONSTANTS
  NumWorkers = 2
  MaxJobs = 3
  MaxBatches = 2
  MaxEntries = 1
SPECIFICATION TraceSpec
INVARIANTS LoopOnlyInsideItsBatch BarrierExact SlotHasOneWriter TraceIsItsOwn EveryCandidateAnswered
PROPERTIES ImplementsBatch ShutdownJoins BatchReturns

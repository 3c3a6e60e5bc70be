CONSTANT MaxBatches = 3
SPECIFICATION Spec
INVARIANTS ReplyNamesItsFiles FailureLeavesOwnTrace
CHECK_DEADLOCK FALSE

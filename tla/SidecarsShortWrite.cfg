CONSTANT MaxBatches = 1
SPECIFICATION Spec
INVARIANTS NamedSidecarsAreWhole
CHECK_DEADLOCK FALSE

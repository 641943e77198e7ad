CONSTANTS
  Cancels <- AllButRollback
  Catches = {"statement"}
  EngineEnds = FALSE
  MaxUnits = 2
  MaxWrites = 4
  MaxDepth = 2
  MaxCancels = 2
SPECIFICATION Spec
INVARIANTS UnitsAreWhole TransactionIsBelieved
CHECK_DEADLOCK FALSE

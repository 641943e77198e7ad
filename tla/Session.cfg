CONSTANTS
  Engines = {"postgres", "mysql", "sqlite"}
  Faults = {"constraint", "transient", "savepoint", "raise", "exit"}
  Late = {"postgres"}
  Attempts = 2
  MaxDepth = 2
  MaxWrites = 5
SPECIFICATION Spec
INVARIANTS TransactionIsBelieved
PROPERTY ReturnIsWhole
CHECK_DEADLOCK FALSE

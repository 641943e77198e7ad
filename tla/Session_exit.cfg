CONSTANTS
  Engines = {"sqlite"}
  Faults = {"constraint", "transient"}
  Late = {"sqlite"}
  Attempts = 2
  MaxDepth = 2
  MaxWrites = 3
SPECIFICATION Spec
INVARIANTS ExitCloses
CHECK_DEADLOCK FALSE

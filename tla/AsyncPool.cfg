CONSTANTS
  Tasks = {t1, t2}
  Addresses = {a1, a2, a3}
  Size = 1
  PrePing = TRUE
  Recycle = TRUE
  Timeout = TRUE
  Cancels = {"asking", "connecting", "throwing"}
  MaxDiscards = 3
  None = None
SPECIFICATION FairSpec
INVARIANT LiveCountsTheOpen
PROPERTIES AgeIsItsOwn LendsCleanConnections

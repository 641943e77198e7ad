CONSTANTS
  Clients = {c1, c2}
  Reports = {r1, r2, r3}
  Threads = {w1, w2}
  QueueSize = 2
  WarningsRaise = FALSE
  None = None
SPECIFICATION FairSpec
INVARIANT ReportHasReader
PROPERTIES FlushMeansSettled AcceptedIsSettled ShutdownReturns

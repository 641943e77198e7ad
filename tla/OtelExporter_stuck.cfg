CONSTANTS
  Clients = {c1}
  Reports = {r1, r2}
  Threads = {w1}
  QueueSize = 1
  WarningsRaise = FALSE
  None = None
SPECIFICATION FairSpec
PROPERTY StuckSendKeepsNobody

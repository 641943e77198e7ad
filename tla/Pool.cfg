CONSTANTS
  Threads = {t1, t2}
  Conns = {c1, c2}
  MinConn = 1
  MaxConn = 2
  Psycopg2 = TRUE
  PrePing = TRUE
  Recycle = TRUE
  Timeout = TRUE
  MaxDiscards = 3
  None = None
SPECIFICATION FairSpec
INVARIANTS Exclusive NothingLeaks
PROPERTIES RecycledOnTime AcquireEnds LendsCleanConnections

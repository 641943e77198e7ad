CONSTANTS
  A = A
  B = B
  x = x
  y = y
  r1 = r1
  r2 = r2
  Tables = {A, B}
  Columns = {x, y}
  Runners = {r1}
  Files <- GrowingFiles
  Transactional = TRUE
  Allowed = {}
  SquashPoints = {2}
  MaxFiles = 4
  NoTx = NoTx
SPECIFICATION Spec
INVARIANT HistoryRuns


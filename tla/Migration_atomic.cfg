CONSTANTS
  A = A
  B = B
  x = x
  y = y
  r1 = r1
  r2 = r2
  Tables = {A, B}
  Columns = {x, y}
  Runners = {r1, r2}
  Files <- DataFiles
  Transactional = TRUE
  Allowed = {"rollback", "crash", "failure"}
  SquashPoints = {}
  MaxFiles = 3
  NoTx = NoTx
SPECIFICATION FairSpec
INVARIANT AllOrNothing
PROPERTIES MovesByWholeMigrations EventuallyUpToDate

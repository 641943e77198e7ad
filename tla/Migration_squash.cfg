CONSTANTS
  A = A
  B = B
  x = x
  y = y
  r1 = r1
  r2 = r2
  Tables = {A, B}
  Columns = {x, y}
  Runners = {r1, r2}
  Files <- GrowingFiles
  Transactional = TRUE
  Allowed = {"crash", "failure"}
  SquashPoints = {3, 4}
  MaxFiles = 5
  NoTx = NoTx
SPECIFICATION Spec
INVARIANTS SchemaMatchesRecords ReplayMatchesDatabase
SYMMETRY Symmetry

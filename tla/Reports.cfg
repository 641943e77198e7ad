SPECIFICATION ReportsSpec
CONSTANTS
  w1 = w1
  w2 = w2
  h1 = h1
  r1 = r1
  r2 = r2
  r3 = r3
  Workers = {w1, w2}
  Helpers = {h1}
  Requests = {r1, r2, r3}
  Deployments <- Here
  Capacity = 1
  MaxStatements = 2
INVARIANTS TokenShowsItsReport
PROPERTIES ReportIsItsOwn
CHECK_DEADLOCK FALSE
SYMMETRY Alike

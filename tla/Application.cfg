SPECIFICATION ApplicationSpec
CONSTANTS
  Designs <- AllApplications
  MaxLinks = 2
  Served <- Blog
  Queried = "Post"
  Written = "User"
  None = None
  Chains <- Asked
  Roots <- Posts
  Databases <- Anything
  MaxBind = 3
  MaxWrites = 1
  Engines = {"postgres", "mysql", "sqlite"}
  Objects = {o1, o2}
  Keys = {k1, k2}
  Handlers = {"none", "trims", "lengthens", "refuses", "fails after"}
  ChunkRows <- Chunks
  MaxCalls = 3
  MaxOthers = 1
SYMMETRY Symmetry
INVARIANTS LinksAreDeclared EveryParentIsAnswered WithinTheCeiling OwnRow ObjectsAreTheirRows LimitsHold
CHECK_DEADLOCK FALSE

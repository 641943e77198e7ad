SPECIFICATION Spec
CONSTANTS
  None = None
  Chains <- AskedNarrow
  Roots <- Posts
  Databases <- Anything
  MaxBind = 3
  MaxWrites = 1
INVARIANT FiltersNarrow
CHECK_DEADLOCK FALSE

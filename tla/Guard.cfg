\* Two instances on one registry, built and torn down in any order, and a caller.
CONSTANTS
  a = a
  b = b
  x = x
  y = y
  v1 = v1
  v2 = v2
  c1 = c1
  Ids <- MCIds
  Names <- MCNames
  Drafts <- MCDrafts
  Queries <- MCQueries
  Floors <- NoFloor
  Placements <- MCPlacements
  Vres = {v1, v2}
  Callers = {c1}
  Cardinalities <- MCCards
  Teardown = TRUE
  Backend = "sqlite"
SPECIFICATION GuardSpec
INVARIANTS EnforcedWasValidated RunsPastEveryPolicy
SYMMETRY VreSymmetry
VIEW GuardView

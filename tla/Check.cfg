CONSTANTS
  a = a
  b = b
  x = x
  y = y
  t1 = t1
  t2 = t2
  Ids <- MCIds
  Names <- MCNames
  Drafts <- MCDrafts
  Queries <- MCQueries
  Floors <- MCFloors
  Threads = {t1, t2}
  Amended = {a}
  MaxChecks = 2
  MaxNest = 2
  Backend = "sqlite"
SPECIFICATION CheckSpec
INVARIANTS NeverOvercounted SerialCountsExact SuppressedExactlyInside LinesAreEntries
SYMMETRY ThreadSymmetry

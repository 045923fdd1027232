\* Every graph of three concepts the drafts can build, every query of them.
CONSTANTS
  a = a
  b = b
  c = c
  x = x
  y = y
  z = z
  Ids <- MCIds
  Names <- MCNames
  Drafts <- MCDrafts
  Queries <- MCQueries
  Floors <- MCFloors
  Backend = "sqlite"
SPECIFICATION Spec
INVARIANTS VerdictSound VerdictComplete GapsAreReal OrderInsensitive NoLaundering TraceMatchesPathway

\* Every order of saves, upserts, renames, deletes and clears of three primitives.
CONSTANTS
  a = a
  b = b
  c = c
  x = x
  y = y
  z = z
  Ids <- MCIds
  Names <- MCNames
  Drafts <- MCDrafts
  Backend = "sqlite"
SPECIFICATION Spec
INVARIANTS TypeOK Acyclic NoDangling UniqueNames
PROPERTIES OthersKept CyclicRefusalIsReal

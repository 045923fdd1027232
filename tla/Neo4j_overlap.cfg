CONSTANTS
  a = a
  b = b
  c = c
  x = x
  y = y
  z = z
  k1 = k1
  k2 = k2
  Ids <- MCIds
  Names <- MCNames
  Clients = {k1, k2}
  Drafts <- Crossing
  Backend = "neo4j"
SPECIFICATION Spec
INVARIANTS UniqueNames NoDangling LinksWhatStays
PROPERTIES ImplementsStore

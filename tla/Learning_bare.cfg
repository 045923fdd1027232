\* A D1 kept up by a relatum alone, and the reference loop on it.
CONSTANTS
  a = a
  b = b
  c = c
  u = u
  v = v
  x = x
  y = y
  z = z
  l1 = l1
  Ids <- MCIds
  Names <- MCNames
  Backend = "sqlite"
  Drafts <- MCDrafts
  Queries <- SingleQuery
  Floors <- FloorD1
  Learners = {l1}
  InitialGraphs <- BareInitial
  NewIds <- MCNewIds
  EdgeProposals <- MCProposals
  Serialized = TRUE
  Cooperative = TRUE
  MaxEdits = 0
SPECIFICATION LearningSpec

PROPERTY ResolvedIsDoneOnEveryGraph

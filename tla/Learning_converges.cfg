\* The cooperative loop, to the end.
CONSTANTS
  a = a
  b = b
  c = c
  u = u
  v = v
  x = x
  y = y
  z = z
  l1 = l1
  Ids <- MoreIds
  Names <- MCNames
  Backend = "sqlite"
  Drafts <- LoopDrafts
  Queries <- AllThree
  Floors <- FloorD1
  Learners = {l1}
  InitialGraphs <- LoopInitial
  NewIds <- MoreNewIds
  EdgeProposals <- JoinProposals
  Serialized = TRUE
  Cooperative = TRUE
  MaxEdits = 1
SPECIFICATION LoopSpec

PROPERTY LoopConverges

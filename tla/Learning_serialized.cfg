\* One learner with any candidates, authors writing between its calls.
CONSTANTS
  a = a
  b = b
  c = c
  u = u
  v = v
  x = x
  y = y
  z = z
  l1 = l1
  Ids <- MCIds
  Names <- MCNames
  Backend = "sqlite"
  Drafts <- MCDrafts
  Queries <- MCQueries
  Floors <- FloorD1
  Learners = {l1}
  InitialGraphs <- MCInitial
  NewIds <- MCNewIds
  EdgeProposals <- MCProposals
  Serialized = TRUE
  Cooperative = FALSE
  MaxEdits = 1
SPECIFICATION LearningSpec
INVARIANT LearningTypeOK
PROPERTIES LearningKeepsKnowledge FillsMakeProgress ResolvedIsDone

CONSTANTS
  a = a
  b = b
  x = x
  y = y
  c1 = c1
  c2 = c2
  Ids <- MCIds
  Names <- MCNames
  Writers = {c1, c2}
  Readers = {c2}
  NoConn = none
  Drafts <- MCDrafts
  Queries <- MCQueries
  MaxSeen = 2
  Backend = "sqlite"
SPECIFICATION FairSpec
INVARIANTS TransactionIsLocal QuietReadsAreSubgraphs
PROPERTIES ImplementsStore EveryCallAnswers

\* Two runs of the three scripts in any order, dying anywhere, with one delete by somebody else.
CONSTANTS
  Names <- MCNames
  Ids <- MCIds
  Running = {"gaps", "filesystem", "clear"}
  MaxRuns = 2
  MaxEdits = 1
  Backend = "sqlite"
CHECK_DEADLOCK FALSE
SPECIFICATION Spec
INVARIANTS CompletedIsDeclared NeverRefused IdsPreserved FullyGrounded DemoGaps

CONSTANTS
  Cmds <- MCFacadeCmds
  MaxReqs = 4
  MAX_INT = 3
  RandSeeds <- MCFacadeSeeds
  MaxFeedback = 1
  SndBuf = 2
  OneSessionPerFeature = TRUE
  Faults = FALSE
  CallerFrees = FALSE
SPECIFICATION FSpec
INVARIANTS
  FTypeOK
  ReturnsOwnOutcome
PROPERTIES
  CallReturns
CHECK_DEADLOCK FALSE

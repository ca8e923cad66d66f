CONSTANTS
  Cmds <- MCCmdsFaults
  MaxReqs = 3
  MAX_INT = 3
  RandSeeds <- MCAnySeed
  MaxFeedback = 1
  SndBuf = 2
  Faults = FALSE
  CallerFrees = FALSE
  OneSessionPerFeature = TRUE
INIT Init
NEXT Next
INVARIANT AnswerToItsRequest
CHECK_DEADLOCK FALSE

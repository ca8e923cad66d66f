CONSTANTS
  Cmds <- MCFacadeCmds
  MaxReqs = 3
  MAX_INT = 4
  RandSeeds = {1}
  MaxFeedback = 1
  SndBuf = 2
  OneSessionPerFeature = TRUE
  Faults = TRUE
  CallerFrees = FALSE
INIT FInit
NEXT FNext
INVARIANT NoStaleCallback
CHECK_DEADLOCK FALSE

CONSTANTS
  Cmds <- MCCmdsFaults
  MaxReqs = 3
  MAX_INT = 4
  RandSeeds = {1}
  MaxFeedback = 1
  SndBuf = 2
  Faults = TRUE
  CallerFrees = FALSE
  OneSessionPerFeature = TRUE
INIT Init
NEXT Next
INVARIANT ReadBufferAllocated
CHECK_DEADLOCK FALSE

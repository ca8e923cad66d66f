CONSTANTS
  Cmds <- MCCmdsFaults
  MaxReqs = 3
  MAX_INT = 4
  RandSeeds = {1}
  MaxFeedback = 1
  SndBuf = 2
  Faults = TRUE
  CallerFrees = TRUE
  OneSessionPerFeature = TRUE
INIT Init
NEXT Next
INVARIANTS
  TypeOK
  AtMostOneOutcome
  AnswerToItsRequest
  WrittenInOrder
  UnwrittenHasWriteWatch
CHECK_DEADLOCK FALSE

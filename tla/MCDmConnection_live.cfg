CONSTANTS
  Cmds <- MCCmdsSessions
  MaxReqs = 3
  MAX_INT = 4
  RandSeeds = {1}
  MaxFeedback = 2
  SndBuf = 2
  Faults = FALSE
  CallerFrees = FALSE
  OneSessionPerFeature = TRUE
SPECIFICATION Spec
INVARIANTS
  AwaitedHasReadWatch
  ReadArmedOnlyWhenExpecting
PROPERTIES
  EveryRequestResolved
  ImplementsRequestService
  SessionsRelease
CHECK_DEADLOCK FALSE

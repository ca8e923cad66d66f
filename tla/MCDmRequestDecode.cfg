CONSTANTS
  j1 = j1
  PayloadLens <- MCPayloadLens
  Junk <- MCJunk
SPECIFICATION Spec
INVARIANT CopiesInBounds
CHECK_DEADLOCK FALSE

CONSTANTS
  Bodies <- MCBodies
  Lengths <- MCLengths
  Junk = {0}
SPECIFICATION Spec
INVARIANT
  NoOverread
CHECK_DEADLOCK FALSE

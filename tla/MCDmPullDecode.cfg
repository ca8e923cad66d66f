CONSTANTS
  Bodies <- MCBodies
  Lengths <- MCLengths
  Junk = {0}
SPECIFICATION Spec
INVARIANTS
  TypeOK
  AvpsTileGroup
CHECK_DEADLOCK FALSE

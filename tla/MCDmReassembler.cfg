CONSTANTS
  BUFFER_CHUNK_SIZE = 8
  Lens <- MCLens
  MaxPkts = 3
  MaxDeliveries = 3
SPECIFICATION Spec
INVARIANTS
  TypeOK
  Reassembled
  NoBytesLost
PROPERTIES
  AllDelivered
CHECK_DEADLOCK FALSE

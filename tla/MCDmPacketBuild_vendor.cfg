CONSTANTS
  Payloads <- MCPayloads
  Codes <- MCCodes
  Vendors <- MCVendors
  DM_BLOCK_ALLOC = 32
  Stride = 1
  Junk = {0}
  MaxPos = 64
  MaxDepth = 1
SPECIFICATION Spec
INVARIANT RoundTrip
CHECK_DEADLOCK FALSE

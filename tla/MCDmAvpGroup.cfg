CONSTANTS
  g1 = g1
  g2 = g2
  Grps <- MCGrps
  Payloads <- MCPayloads
  InFlags <- MCInFlags
  Codes <- MCCodes
  Vendors <- MCVendors
  DM_BLOCK_ALLOC = 32
  GrpHdr = 16
  MaxBytes = 28
  AllocFails = TRUE
INIT Init
NEXT Next
INVARIANTS
  TypeOK
  RoundTrip
  GroupFits
  MandatoryVisible
  DecodersAgree
CHECK_DEADLOCK FALSE

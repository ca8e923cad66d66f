--------------------------- MODULE MCDmRequestDecode ---------------------------
EXTENDS DmRequestDecode

CONSTANTS j1
(* a header-only request, and one with a 4-byte and a 12-byte group       *)
MCPayloadLens == {0, 4, 12}
MCJunk == {j1}
==============================================================================

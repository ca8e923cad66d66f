------------------------------ MODULE DmAvpCursor ------------------------------
(***************************************************************************)
(* The pull decoder of dmmsg.c (the second API): dm_init_packet sets a    *)
(* cursor over the body of a received packet, dm_expect_avp returns the   *)
(* next AVP and advances the cursor by its padded length, and             *)
(* dm_expect_grp_end tells whether the cursor is exactly at the end.      *)
(* Operators only; DmPullDecode walks a received packet with them.        *)
(***************************************************************************)
EXTENDS DmWire

PktHdr == 20  \* sizeof(struct dm_packet)

(* Stands for a size_t that wrapped below zero: larger than any offset   *)
(* the model reaches.                                                     *)
HugeSize == 2^30

(* dm_init_avpgrp                                                         *)
InitAvpgrp(data, size) == [data |-> data, size |-> size, pos |-> 0]

(* mutant: the body size computed as a signed difference                 *)
InitPacketSigned(body, L) == InitAvpgrp(body, L - PktHdr)

(* dm_init_packet: the group is the body, of the length the header gives  *)
(* minus the header; below the header size the size_t subtraction wraps.  *)
InitPacket(body, L) ==
  InitAvpgrp(body, IF L >= PktHdr THEN L - PktHdr ELSE HugeSize)

(* The byte at 1-based offset i of the group data, as the code reads it.  *)
At(g, i, junk) == IF i <= Len(g.data) THEN g.data[i] ELSE junk

(* The byte offsets read by one call: nothing at the end of the group;   *)
(* else the flag byte and the 24-bit length, and when the AVP is accepted *)
(* its code, its vendor id and the payload the caller is handed.          *)
Reads(g, r) ==
  IF g.pos >= g.size THEN {}
  ELSE (g.pos + 5)..(g.pos + 8)
       \cup (IF r.rc = "RC_OK" THEN (g.pos + 1)..r.grp.pos ELSE {})

(* mutant: the check that the padded AVP fits in the group is missing    *)
ExpectAvpNoBound(g, junk) ==
  LET p == g.pos
      avp_len == Num(<<At(g, p + 6, junk), At(g, p + 7, junk), At(g, p + 8, junk)>>)
      vend == At(g, p + 5, junk) & AVP_FLAG_VENDOR # 0
      hd == IF vend THEN 12 ELSE 8
  IN CASE p >= g.size -> [rc |-> "RC_ERR_AVP_END", grp |-> g]
       [] avp_len < 8 \/ (vend /\ avp_len < 12) -> [rc |-> "RC_ERR_INVALID_AVP_LENGTH", grp |-> g]
       [] OTHER -> [rc |-> "RC_OK", grp |-> [g EXCEPT !.pos = p + PAD32(avp_len)],
                    off |-> p + hd, len |-> avp_len - hd]

(* mutant: the payload of a vendor AVP is not moved past the vendor id   *)
ExpectAvpNoVendorSkip(g, junk) ==
  LET p == g.pos
      avp_len == Num(<<At(g, p + 6, junk), At(g, p + 7, junk), At(g, p + 8, junk)>>)
      padded == PAD32(avp_len)
      vend == At(g, p + 5, junk) & AVP_FLAG_VENDOR # 0
  IN CASE p >= g.size -> [rc |-> "RC_ERR_AVP_END", grp |-> g]
       [] avp_len < 8 \/ (vend /\ avp_len < 12) \/ p + padded > g.size ->
            [rc |-> "RC_ERR_INVALID_AVP_LENGTH", grp |-> g]
       [] OTHER -> [rc |-> "RC_OK", grp |-> [g EXCEPT !.pos = p + padded],
                    off |-> p + 8, len |-> avp_len - 8]

(* dm_expect_avp: its return code, the cursor after it, and the payload  *)
(* of the AVP as an offset and a length; its code and vendor id are       *)
(* AvpCode and AvpVendor below.                                           *)
ExpectAvp(g, junk) ==
  LET p == g.pos
      avp_len == Num(<<At(g, p + 6, junk), At(g, p + 7, junk), At(g, p + 8, junk)>>)
      padded == PAD32(avp_len)
      vend == At(g, p + 5, junk) & AVP_FLAG_VENDOR # 0
      hd == IF vend THEN 12 ELSE 8
  IN CASE p >= g.size ->
            [rc |-> "RC_ERR_AVP_END", grp |-> g]
       [] avp_len < 8 \/ (vend /\ avp_len < 12) \/ p + padded > g.size ->
            [rc |-> "RC_ERR_INVALID_AVP_LENGTH", grp |-> g]
       [] OTHER ->
            [rc |-> "RC_OK", grp |-> [g EXCEPT !.pos = p + padded],
             off |-> p + hd, len |-> avp_len - hd]

(* *code = ntohl(avp->code) and *vendor_id of an accepted AVP at offset p *)
AvpCode(g, p) == Num([i \in 1..4 |-> g.data[p + i]])
AvpVendor(g, p) ==
  IF g.data[p + 5] & AVP_FLAG_VENDOR # 0 THEN Num([i \in 9..12 |-> g.data[p + i]]) ELSE 0

(* dm_expect_grp_end                                                      *)
ExpectGrpEnd(g) == IF g.pos = g.size THEN "RC_OK" ELSE "RC_ERR_AVP_MISFORMED"

==============================================================================

------------------------------ MODULE DmPullDecode ------------------------------
(***************************************************************************)
(* A caller of the pull decoder walking one received packet: dm_init_packet*)
(* then dm_expect_avp until an error or the end of the group, and then     *)
(* dm_expect_grp_end.  The packet is whatever the peer sent: a 20-byte     *)
(* header whose length field is L, followed by the body bytes that were    *)
(* received.  A byte read past the received data is a read of memory the   *)
(* decoder does not own; its value is one of Junk.                         *)
(***************************************************************************)
EXTENDS DmAvpCursor

CONSTANTS
  Bodies,    \* received packet bodies (byte sequences)
  Lengths,   \* length fields of the received header
  Junk       \* values a read past the received data can yield

ASSUME \A L \in Lengths : L < HugeSize

-----------------------------------------------------------------------------
VARIABLES
  cur,      \* the DM2_AVPGRP cursor
  got,      \* the AVPs dm_expect_avp returned: [start, end] of each (history)
  done,     \* the caller stopped: "no", or the final return code
  overread  \* a read went past the received data (history)

vars == <<cur, got, done, overread>>

Init ==
  /\ \E body \in Bodies, L \in Lengths :
       /\ Len(body) = IF L >= PktHdr THEN L - PktHdr ELSE 0
       /\ cur = InitPacket(body, L)
  /\ got = <<>> /\ done = "no" /\ overread = FALSE

(* One call of dm_expect_avp; on RC_ERR_AVP_END the caller checks          *)
(* dm_expect_grp_end, on any other error it stops.                        *)
Expect ==
  /\ done = "no"
  /\ \E junk \in Junk :
       LET r == ExpectAvp(cur, junk)
       IN /\ cur' = r.grp
          /\ overread' = (overread \/ \E i \in Reads(cur, r) : i > Len(cur.data))
          /\ got' = IF r.rc = "RC_OK"
                    THEN Append(got, [start |-> cur.pos, end |-> r.grp.pos,
                                      off |-> r.off, len |-> r.len])
                    ELSE got
          /\ done' = CASE r.rc = "RC_OK"         -> "no"
                       [] r.rc = "RC_ERR_AVP_END" -> ExpectGrpEnd(r.grp)
                       [] OTHER                   -> r.rc

Spec == Init /\ [][Expect]_vars

-----------------------------------------------------------------------------
TypeOK ==
  /\ cur.pos \in 0..HugeSize /\ cur.size \in 0..HugeSize
  /\ done \in {"no", "RC_OK", "RC_ERR_AVP_MISFORMED", "RC_ERR_INVALID_AVP_LENGTH"}
  /\ overread \in BOOLEAN

(* The AVPs the cursor hands out tile the group: each starts where the    *)
(* previous one ended, its payload lies inside its own padded extent,     *)
(* and none reaches past the group's size; a walk that ends with RC_OK   *)
(* consumed the group exactly.                                            *)
AvpsTileGroup ==
  /\ \A i \in DOMAIN got :
       /\ got[i].start = IF i = 1 THEN 0 ELSE got[i - 1].end
       /\ got[i].start + 8 <= got[i].off
       /\ got[i].off + got[i].len <= got[i].end
       /\ got[i].end <= cur.size
  /\ done = "RC_OK" => cur.pos = cur.size

(* dm_expect_avp never reads past the bytes that were received, whatever  *)
(* the peer put in the length fields.                                     *)
NoOverread == ~overread

==============================================================================

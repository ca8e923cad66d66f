----------------------------- MODULE MCDmPacketBuild -----------------------------
EXTENDS DmPacketBuild

(* an empty payload, and payloads that leave 3 and 2 bytes of padding     *)
MCPayloads == {<<>>, <<5>>, <<5, 6>>}
MCCodes == {300}
MCVendors == {0, 70000}
==============================================================================

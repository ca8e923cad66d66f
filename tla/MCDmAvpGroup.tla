------------------------------ MODULE MCDmAvpGroup ------------------------------
EXTENDS DmAvpGroup

CONSTANTS g1, g2

MCGrps == {g1, g2}
(* one byte (3 of padding), five bytes (crosses a word); an empty payload *)
(* comes from embedding an empty group                                   *)
MCPayloads == {<<5>>, <<5, 6, 7, 8, 9>>}
(* none, and every flag bit the caller could pass                          *)
MCInFlags == {0, 255}
(* a code and a vendor id whose encoding needs more than one byte          *)
MCCodes == {300}
MCVendors == {0, 70000}
==============================================================================

------------------------------ MODULE DmPacketBuild ------------------------------
(***************************************************************************)
(* The push encoder of dmmsg.c (the second API): dm_new_packet allocates  *)
(* a zeroed block and writes the header, dm_put_avp appends an AVP at the *)
(* write position of the innermost open group after dm_packet_ensure_space*)
(* has sized the block, dm_new_group opens a group (an AVP whose payload  *)
(* is the AVPs put until dm_finalize_group back-patches its length), and  *)
(* dm_finalize_packet patches the packet length.                           *)
(*                                                                         *)
(* The block is a byte sequence as long as its allocation.  A write past  *)
(* it is lost; bytes a realloc adds are uninitialised and               *)
(* hold one of Junk.  Stride is the scale of `req->packet + pos`: 1 for   *)
(* byte arithmetic, sizeof(DM_PACKET) for arithmetic on a DM_PACKET *.    *)
(***************************************************************************)
EXTENDS DmAvpCursor

CONSTANTS
  DM_BLOCK_ALLOC,  \* allocation granule of a packet
  Stride,          \* bytes per unit of req->packet + pos
  Codes,           \* AVP codes
  Vendors,         \* vendor ids (0 = none)
  Payloads,        \* leaf payloads
  Junk,            \* contents of uninitialised bytes after a realloc
  MaxPos,          \* bound on the write position
  MaxDepth         \* bound on the nesting the caller opens

ASSUME 0 \in Vendors /\ 0 \notin Codes /\ Stride \in {1, PktHdr}

VARIABLES
  pst,    \* "none", "live", or "null" after a failed realloc
  mem,    \* the packet block
  grps,   \* req->grp[0..level]: [start, pos]; its length is level + 1
  tree,   \* per open level, the AVPs put into it (history)
  rc,     \* return code of the last call
  final   \* dm_finalize_packet returned RC_OK

vars == <<pst, mem, grps, tree, rc, final>>

Level == Len(grps) - 1

(* The block after writing bytes at 0-based offset off; writes past the   *)
(* end are lost.                                                          *)
Write(m, off, bytes) ==
  [i \in DOMAIN m |-> IF off < i /\ i <= off + Len(bytes) THEN bytes[i - off] ELSE m[i]]

(* dm_packet_ensure_space: the blocks it thinks are in use and wanted.    *)
EnsureHave(pos) == (pos + DM_BLOCK_ALLOC - 1) % DM_BLOCK_ALLOC
EnsureWant(pos, len) == (pos + DM_BLOCK_ALLOC - 1 + len) % DM_BLOCK_ALLOC

(* talloc_realloc_size to n bytes: the prefix is kept, the rest is       *)
(* uninitialised.                                                         *)
Realloc(m, n, j) == [i \in 1..n |-> IF i <= Len(m) THEN m[i] ELSE j]

(* dm_put_avp after ensure_space succeeded, on block m at position pos.  *)
(* The flag byte is or-ed into what the block held there.                *)
PutBytes(m, pos, code, vendor, data) ==
  LET off == Stride * pos
      avp_len == Len(data) + 8 + (IF vendor # 0 THEN 2 ELSE 0)
      fl == IF off + 5 <= Len(m) THEN m[off + 5] ELSE 0
      hdr == Be(code, 4) \o <<IF vendor # 0 THEN fl | AVP_FLAG_VENDOR ELSE fl>>
             \o Be(avp_len, 3)
      vend == IF vendor # 0 THEN Be(vendor, 4) ELSE <<>>
      dpos == off + 8 + (IF vendor # 0 THEN 2 ELSE 0)
  IN [m |-> Write(Write(Write(m, off, hdr), off + 8, vend), dpos, data),
      adv |-> PAD32(avp_len)]

(* dm_put_avp, as one step: ensure_space for len + 12, then the writes.   *)
PutAvp(code, vendor, data, rec) ==
  LET top == grps[Len(grps)]
      have == EnsureHave(top.pos)
      want == EnsureWant(top.pos, Len(data) + 12)
  IN /\ pst = "live"
     /\ top.pos + Len(data) + 12 <= MaxPos
     /\ IF have # want /\ want = 0
        THEN /\ pst' = "null" /\ rc' = "RC_ERR_ALLOC"
             /\ UNCHANGED <<mem, grps, tree, final>>
        ELSE \E j \in Junk :
               LET m == IF have = want THEN mem ELSE Realloc(mem, want * DM_BLOCK_ALLOC, j)
                   w == PutBytes(m, top.pos, code, vendor, data)
               IN /\ mem' = w.m
                  /\ grps' = [grps EXCEPT ![Len(grps)].pos = @ + w.adv]
                  /\ tree' = [tree EXCEPT ![Len(tree)] = Append(@, rec)]
                  /\ rc' = "RC_OK"
                  /\ UNCHANGED <<pst, final>>

(* dm_new_packet                                                          *)
NewPacket(code) ==
  /\ pst = "none"
  /\ pst' = "live"
  /\ mem' = Write(Zeros(DM_BLOCK_ALLOC), 0,
                  <<1>> \o Be(PktHdr, 3) \o <<0>> \o Be(code, 3)
                  \o Be(1, 4) \o Be(2, 4) \o Be(3, 4))
  /\ grps' = <<[start |-> PktHdr, pos |-> PktHdr]>>
  /\ tree' = <<<<>>>>
  /\ rc' = "RC_OK"
  /\ UNCHANGED final

(* dm_put_avp of a leaf                                                   *)
PutLeaf(code, vendor, data) ==
  /\ ~final
  /\ PutAvp(code, vendor, data, [code |-> code, vendor |-> vendor, data |-> data,
                                 grp |-> FALSE, inner |-> <<>>])

(* dm_new_group: the new level starts at the parent's position, then its *)
(* header is put there with no payload.                                   *)
NewGroup(code, vendor) ==
  /\ ~final /\ Level < MaxDepth
  /\ LET top == grps[Len(grps)]
         g == Append(grps, [start |-> top.pos, pos |-> top.pos])
         t == Append(tree, <<>>)
         have == EnsureHave(top.pos)
         want == EnsureWant(top.pos, 12)
     IN /\ pst = "live"
        /\ top.pos + 12 <= MaxPos
        /\ IF have # want /\ want = 0
           THEN /\ pst' = "null" /\ rc' = "RC_ERR_ALLOC" /\ grps' = g
                /\ UNCHANGED <<mem, tree, final>>
           ELSE \E j \in Junk :
                  LET m == IF have = want THEN mem ELSE Realloc(mem, want * DM_BLOCK_ALLOC, j)
                      w == PutBytes(m, top.pos, code, vendor, <<>>)
                  IN /\ mem' = w.m
                     /\ grps' = [g EXCEPT ![Len(g)].pos = @ + w.adv]
                     /\ tree' = [t EXCEPT ![Len(tree)] =
                                   Append(@, [code |-> code, vendor |-> vendor, data |-> <<>>,
                                              grp |-> TRUE, inner |-> <<>>])]
                     /\ rc' = "RC_OK"
                     /\ UNCHANGED <<pst, final>>

(* dm_finalize_group: patch the group AVP's length, close the level, and *)
(* advance the parent past the padded group.                              *)
FinalizeGroup ==
  /\ pst = "live" /\ ~final
  /\ IF Level = 0
     THEN rc' = "RC_ERR_AVP_MISFORMED" /\ UNCHANGED <<pst, mem, grps, tree, final>>
     ELSE LET top == grps[Len(grps)]
              avp_len == top.pos - top.start
              parent == Len(grps) - 1
          IN /\ mem' = Write(mem, Stride * top.start + 5, Be(avp_len, 3))
             /\ grps' = [SubSeq(grps, 1, parent) EXCEPT ![parent].pos = @ + PAD32(avp_len)]
             /\ tree' = [SubSeq(tree, 1, parent) EXCEPT
                           ![parent][Len(tree[parent])].inner = tree[Len(tree)]]
             /\ rc' = "RC_OK"
             /\ UNCHANGED <<pst, final>>

(* dm_finalize_packet                                                     *)
FinalizePacket ==
  /\ pst = "live" /\ ~final
  /\ IF Level # 0
     THEN rc' = "RC_ERR_AVP_MISFORMED" /\ UNCHANGED <<pst, mem, grps, tree, final>>
     ELSE /\ mem' = Write(mem, 1, Be(grps[1].pos, 3))
          /\ final' = TRUE /\ rc' = "RC_OK"
          /\ UNCHANGED <<pst, grps, tree>>

-----------------------------------------------------------------------------
(* The receiver's walk: does the cursor c decode to exactly the AVPs recs *)
(* (descending into groups), and then end the group?                      *)
RECURSIVE Matches(_, _)
Matches(c, recs) ==
  LET r == ExpectAvp(c, 0)
  IN IF recs = <<>>
     THEN r.rc = "RC_ERR_AVP_END" /\ ExpectGrpEnd(r.grp) = "RC_OK"
     ELSE LET e == Head(recs)
              body == [i \in 1..r.len |-> At(c, r.off + i, 0)]
          IN /\ r.rc = "RC_OK"
             /\ Num([i \in 1..4 |-> At(c, c.pos + i, 0)]) = e.code
             /\ (At(c, c.pos + 5, 0) & AVP_FLAG_VENDOR # 0) = (e.vendor # 0)
             /\ IF e.grp THEN Matches(InitAvpgrp(body, r.len), e.inner)
                         ELSE body = e.data
             /\ Matches(r.grp, Tail(recs))

(* The packet a receiver sees: dm_init_packet over the finalized block.  *)
Received == InitPacket([i \in 1..(Len(mem) - PktHdr) |-> mem[PktHdr + i]],
                       Num(SubSeq(mem, 2, 4)))

Init ==
  /\ pst = "none" /\ mem = <<>> /\ grps = <<>> /\ tree = <<>>
  /\ rc = "RC_OK" /\ final = FALSE

Next ==
  \/ \E code \in Codes : NewPacket(code)
  \/ \E code \in Codes, v \in Vendors :
       \/ \E data \in Payloads : PutLeaf(code, v, data)
       \/ NewGroup(code, v)
  \/ FinalizeGroup
  \/ FinalizePacket

Spec == Init /\ [][Next]_vars

-----------------------------------------------------------------------------
TypeOK ==
  /\ pst \in {"none", "live", "null"}
  /\ mem \in Seq(0..255)
  /\ final \in BOOLEAN

(* Round trip: a finalized packet, walked by the receiver with the pull   *)
(* decoder, yields exactly the AVPs and groups that were put, in order.   *)
RoundTrip == final => Matches(Received, tree[1])

==============================================================================

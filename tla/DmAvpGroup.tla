------------------------------- MODULE DmAvpGroup -------------------------------
(***************************************************************************)
(* The attribute-group codec of dmmsg.c (the first API): a DM_AVPGRP is a  *)
(* talloc block of info.size bytes whose first sizeof(DM_AVPGRP) bytes are *)
(* the group header, followed by info.avps_length bytes of encoded AVPs.   *)
(* The caller creates groups, appends raw, typed and embedded-group AVPs   *)
(* to them, copies received bytes into a group, and walks a group with     *)
(* get_avp.  Memory is modelled byte for byte: each AVP is its 4-byte code,*)
(* a flag byte, a 3-byte length, an optional 4-byte vendor id, the payload *)
(* and zero padding to a multiple of 4, all in network byte order.        *)
(***************************************************************************)
EXTENDS DmAvpCursor

CONSTANTS
  DM_BLOCK_ALLOC,  \* allocation granule of a group
  GrpHdr,          \* sizeof(DM_AVPGRP)
  Grps,            \* the caller's DM_AVPGRP * variables
  Codes,           \* AVP codes the caller appends
  Vendors,         \* vendor ids (0 = none)
  InFlags,         \* flag bytes the caller passes
  Payloads,        \* raw payloads, as byte sequences
  MaxBytes,        \* bound on info.avps_length of one group
  AllocFails       \* talloc may fail

ASSUME GrpHdr < DM_BLOCK_ALLOC /\ 0 \notin Codes /\ 0 \in Vendors

VARIABLES
  grp,  \* per caller variable: [st |-> "none"|"live"|"null", bytes, size]
  put,  \* per group: the AVPs appended, as get_avp must return them (history)
  ret   \* what the last call returned: 0 on success, 1 on failure

vars == <<grp, put, ret>>

NoGroup == [st |-> "none", bytes |-> <<>>, size |-> 0]
Rec(code, flags, vendor, data, inner, addr) ==
  [code |-> code, flags |-> flags & (AVP_FLAG_MANDATORY + AVP_FLAG_PRIVAT),
   vendor |-> vendor, data |-> data, inner |-> inner, addr |-> addr]

-----------------------------------------------------------------------------
(* Encoder.                                                               *)

(* mutant: the vendor branch advances 2 bytes for the 4-byte vendor id    *)
EncodeAvpVendor2(code, flags, vendor, data) ==
  LET fl == flags & (AVP_FLAG_MANDATORY + AVP_FLAG_PRIVAT)
      avp_len == Len(data) + 8 + (IF vendor # 0 THEN 2 ELSE 0)
  IN Be(code, 4) \o <<IF vendor # 0 THEN fl | AVP_FLAG_VENDOR ELSE fl>>
     \o Be(avp_len, 3) \o (IF vendor # 0 THEN Be(vendor, 2) ELSE <<>>)
     \o data \o Zeros(PAD32(avp_len) - avp_len)

(* mutant: the vendor id stored without htonl, as one host-order word     *)
EncodeAvpNoHtonl(code, flags, vendor, data) ==
  LET fl == flags & (AVP_FLAG_MANDATORY + AVP_FLAG_PRIVAT)
      avp_len == Len(data) + 8 + (IF vendor # 0 THEN 4 ELSE 0)
  IN Be(code, 4) \o <<IF vendor # 0 THEN fl | AVP_FLAG_VENDOR ELSE fl>>
     \o Be(avp_len, 3) \o (IF vendor # 0 THEN <<vendor, 0, 0, 0>> ELSE <<>>)
     \o data \o Zeros(PAD32(avp_len) - avp_len)

(* The bytes dm_avpgrp_add_raw writes at the end of the group.            *)
EncodeAvp(code, flags, vendor, data) ==
  LET fl == flags & (AVP_FLAG_MANDATORY + AVP_FLAG_PRIVAT)
      avp_len == Len(data) + 8 + (IF vendor # 0 THEN 4 ELSE 0)
  IN Be(code, 4)
     \o <<IF vendor # 0 THEN fl | AVP_FLAG_VENDOR ELSE fl>>
     \o Be(avp_len, 3)
     \o (IF vendor # 0 THEN Be(vendor, 4) ELSE <<>>)
     \o data \o Zeros(PAD32(avp_len) - avp_len)

(* The size check and realloc of insert_raw and add_raw: need is the room *)
(* reserved past avps_length.                                            *)
NeedsGrow(g, need) == GrpHdr + Len(g.bytes) + need > g.size
(* mutant: rounds the new size down to a block instead of up             *)
GrownSizeDown(g, need) == ((GrpHdr + Len(g.bytes) + need) \div DM_BLOCK_ALLOC) * DM_BLOCK_ALLOC
GrownSize(g, need) == ((GrpHdr + Len(g.bytes) + need) \div DM_BLOCK_ALLOC + 1) * DM_BLOCK_ALLOC

(* Appending bytes after growing by need; a failed realloc leaves the     *)
(* caller's pointer NULL.                                                 *)
Append1(g, need, new, rec) ==
  /\ grp[g].st = "live"
  /\ Len(grp[g].bytes) + Len(new) <= MaxBytes
  /\ \/ /\ grp' = [grp EXCEPT ![g].bytes = @ \o new,
                              ![g].size = IF NeedsGrow(grp[g], need)
                                          THEN GrownSize(grp[g], need) ELSE @]
        /\ put' = [put EXCEPT ![g] = Append(@, rec)]
        /\ ret' = 0
     \/ /\ AllocFails /\ NeedsGrow(grp[g], need)
        /\ grp' = [grp EXCEPT ![g] = [NoGroup EXCEPT !.st = "null"]]
        /\ put' = [put EXCEPT ![g] = <<>>]
        /\ ret' = 1

AddRaw(g, code, flags, vendor, data, inner, addr) ==
  Append1(g, 12 + PAD32(Len(data)), EncodeAvp(code, flags, vendor, data),
          Rec(code, flags, vendor, data, inner, addr))

(* new_dm_avpgrp                                                          *)
NewAvpgrp(g) ==
  /\ grp[g].st # "live"
  /\ grp' = [grp EXCEPT ![g] = [st |-> "live", bytes |-> <<>>, size |-> DM_BLOCK_ALLOC]]
  /\ put' = [put EXCEPT ![g] = <<>>]
  /\ ret' = 0

(* dm_decode_avpgrp: a new group holding a copy of received bytes.        *)
DecodeAvpgrp(g, src) ==
  /\ grp[g].st # "live" /\ grp[src].st = "live"
  /\ grp' = [grp EXCEPT ![g] = [st |-> "live", bytes |-> grp[src].bytes,
                                size |-> GrpHdr + Len(grp[src].bytes)]]
  /\ put' = [put EXCEPT ![g] = put[src]]
  /\ ret' = 0

(* dm_avpgrp_insert_raw, used to splice the encoded AVPs of src into g.   *)
InsertRaw(g, src) ==
  /\ g # src /\ grp[src].st = "live"
  /\ LET b == grp[src].bytes
     IN /\ grp[g].st = "live"
        /\ Len(grp[g].bytes) + Len(b) <= MaxBytes
        /\ \/ /\ grp' = [grp EXCEPT ![g].bytes = @ \o b,
                                    ![g].size = IF NeedsGrow(grp[g], Len(b))
                                                THEN GrownSize(grp[g], Len(b)) ELSE @]
              /\ put' = [put EXCEPT ![g] = @ \o put[src]]
              /\ ret' = 0
           \/ /\ AllocFails /\ NeedsGrow(grp[g], Len(b))
              /\ grp' = [grp EXCEPT ![g] = [NoGroup EXCEPT !.st = "null"]]
              /\ put' = [put EXCEPT ![g] = <<>>]
              /\ ret' = 1

(* The loop of dm_avpgrp_add_avpgrp: does a top-level AVP of the encoded  *)
(* bytes b, from offset pos, carry the mandatory flag?                    *)
(* mutant: only the first AVP of the source group is inspected           *)
HasMandatoryFirst(b, pos) == pos < Len(b) /\ b[pos + 5] & AVP_FLAG_MANDATORY # 0

RECURSIVE HasMandatory(_, _)
HasMandatory(b, pos) ==
  /\ pos < Len(b)
  /\ \/ b[pos + 5] & AVP_FLAG_MANDATORY # 0
     \/ HasMandatory(b, pos + PAD32(Num(SubSeq(b, pos + 6, pos + 8))))

(* dm_avpgrp_add_avpgrp: embed src as the payload of one AVP of g, unless *)
(* that would hide a mandatory AVP under a non-mandatory one.             *)
AddAvpgrp(g, code, flags, vendor, src) ==
  /\ g # src /\ grp[src].st = "live"
  /\ IF flags & AVP_FLAG_MANDATORY = 0 /\ HasMandatory(grp[src].bytes, 0)
     THEN grp[g].st = "live" /\ ret' = 1 /\ UNCHANGED <<grp, put>>
     ELSE AddRaw(g, code, flags, vendor, grp[src].bytes, put[src], <<>>)

(* dm_avpgrp_add_address: family tag and 4 or 16 address bytes.           *)
AddAddress(g, code, flags, vendor, af) ==
  \/ /\ af \in DOMAIN AddrLen
     /\ LET data == Be(IF af = "INET" THEN IANA_INET ELSE IANA_INET6, 2)
                    \o [i \in 1..AddrLen[af] |-> i]
        IN AddRaw(g, code, flags, vendor, data, <<>>, <<af, SubSeq(data, 3, Len(data))>>)
  \/ /\ af \notin DOMAIN AddrLen /\ grp[g].st = "live"
     /\ ret' = 1 /\ UNCHANGED <<grp, put>>

(* dm_avpgrp_add_uint32_string: a 32-bit number followed by the string.   *)
AddUint32String(g, code, flags, vendor, d1, d2) ==
  AddRaw(g, code, flags, vendor, Be(d1, 4) \o d2, <<>>, <<>>)

-----------------------------------------------------------------------------
(* Decoder.                                                               *)

(* get_avp on the AVP at offset pos of b.                                 *)
GetAvp(b, pos) ==
  LET at(i) == b[pos + i]
      avp_len == Num(<<at(6), at(7), at(8)>>)
      vend == at(5) & AVP_FLAG_VENDOR # 0
      hd == IF vend THEN 12 ELSE 8
  IN CASE pos + 8 > Len(b)                -> [rc |-> "OVERRUN"]
       [] avp_len < 8                     -> [rc |-> "DM_INVALID_AVP_LENGTH"]
       [] at(5) & AVP_FLAG_RESERVED # 0   -> [rc |-> "DM_INVALID_AVP_BITS"]
       [] vend /\ avp_len < 12            -> [rc |-> "DM_INVALID_AVP_LENGTH"]
       [] pos + avp_len > Len(b)          -> [rc |-> "OVERRUN"]
       [] OTHER ->
            [rc |-> "OK", code |-> Num(SubSeq(b, pos + 1, pos + 4)),
             flags |-> at(5) & (AVP_FLAG_MANDATORY + AVP_FLAG_PRIVAT),
             vendor |-> IF vend THEN Num(SubSeq(b, pos + 9, pos + 12)) ELSE 0,
             data |-> SubSeq(b, pos + hd + 1, pos + avp_len),
             next |-> pos + PAD32(avp_len)]

(* The caller's loop: get_avp until avps_length bytes are consumed.       *)
RECURSIVE DecodeAll(_, _)
DecodeAll(b, pos) ==
  IF pos >= Len(b) THEN <<>>
  ELSE LET a == GetAvp(b, pos)
       IN IF a.rc # "OK" THEN <<[code |-> 0, flags |-> 0, vendor |-> 0, data |-> <<>>]>>
          ELSE <<[code |-> a.code, flags |-> a.flags, vendor |-> a.vendor,
                  data |-> a.data]>> \o DecodeAll(b, a.next)

(* The same walk with the pull decoder: dm_init_avpgrp over the group's  *)
(* bytes, dm_expect_avp until the end, then dm_expect_grp_end.            *)
RECURSIVE CursorWalk(_)
CursorWalk(c) ==
  LET r == ExpectAvp(c, 0)
      bad == <<[code |-> 0, vendor |-> 0, data |-> <<>>]>>
  IN CASE r.rc = "RC_OK" ->
            <<[code |-> AvpCode(c, c.pos), vendor |-> AvpVendor(c, c.pos),
               data |-> SubSeq(c.data, r.off + 1, r.off + r.len)]>> \o CursorWalk(r.grp)
       [] r.rc = "RC_ERR_AVP_END" /\ ExpectGrpEnd(r.grp) = "RC_OK" -> <<>>
       [] OTHER -> bad

(* dm_get_address_avp: the family and address of an address payload.      *)
GetAddressAvp(src) ==
  LET fam == Num(SubSeq(src, 1, 2))
      len == Len(src)
  IN CASE fam = IANA_INET  /\ len >= AddrLen.INET + 2  -> <<"INET", SubSeq(src, 3, 6)>>
       [] fam = IANA_INET6 /\ len >= AddrLen.INET6 + 2 -> <<"INET6", SubSeq(src, 3, 18)>>
       [] OTHER -> <<"error">>

-----------------------------------------------------------------------------
Init ==
  /\ grp = [g \in Grps |-> NoGroup]
  /\ put = [g \in Grps |-> <<>>]
  /\ ret = 0

Next ==
  \E g \in Grps :
    \/ NewAvpgrp(g)
    \/ \E code \in Codes, fl \in InFlags, v \in Vendors :
         \/ \E data \in Payloads : AddRaw(g, code, fl, v, data, <<>>, <<>>)
         \/ \E af \in {"INET", "INET6", "AF_UNIX"} : AddAddress(g, code, fl, v, af)
         \/ \E src \in Grps : AddAvpgrp(g, code, fl, v, src)
         \/ AddUint32String(g, code, fl, v, 5, <<104, 105>>)
    \/ \E src \in Grps : InsertRaw(g, src) \/ DecodeAvpgrp(g, src)

Spec == Init /\ [][Next]_vars

-----------------------------------------------------------------------------
TypeOK ==
  \A g \in Grps :
    /\ grp[g].st \in {"none", "live", "null"}
    /\ grp[g].bytes \in Seq(0..255)
    /\ grp[g].size \in Nat
    /\ ret \in {0, 1}

(* Round trip: walking a group with get_avp returns exactly the AVPs that *)
(* were appended to it, by add_raw and every helper built on it, with     *)
(* their code, masked flags, vendor id and payload; every AVP occupies a  *)
(* multiple of 4 bytes; and an address payload decodes with               *)
(* dm_get_address_avp to the family and address that were encoded.        *)
RoundTrip ==
  \A g \in Grps : grp[g].st = "live" =>
    /\ Len(grp[g].bytes) % 4 = 0
    /\ DecodeAll(grp[g].bytes, 0) =
         [i \in DOMAIN put[g] |-> [code |-> put[g][i].code, flags |-> put[g][i].flags,
                                  vendor |-> put[g][i].vendor, data |-> put[g][i].data]]
    /\ \A i \in DOMAIN put[g] :
         put[g][i].addr # <<>> => GetAddressAvp(put[g][i].data) = put[g][i].addr

(* The two decoders agree on every group the encoder builds: the pull    *)
(* decoder returns the same codes, vendor ids and payloads as get_avp,    *)
(* and finds the group's end exactly where the encoder left it.           *)
DecodersAgree ==
  \A g \in Grps : grp[g].st = "live" =>
    CursorWalk(InitAvpgrp(grp[g].bytes, Len(grp[g].bytes))) =
      [i \in DOMAIN put[g] |-> [code |-> put[g][i].code, vendor |-> put[g][i].vendor,
                               data |-> put[g][i].data]]

(* The encoded AVPs of a group never extend past its allocation.          *)
GroupFits ==
  \A g \in Grps : grp[g].st = "live" => GrpHdr + Len(grp[g].bytes) <= grp[g].size

(* Coherence of embedding: at any depth of nesting, a mandatory AVP is    *)
(* only ever reached through embedding AVPs that are mandatory too.       *)
RECURSIVE HiddenMandatory(_, _)
HiddenMandatory(recs, under) ==
  \E i \in DOMAIN recs :
    \/ under /\ recs[i].flags & AVP_FLAG_MANDATORY # 0
    \/ HiddenMandatory(recs[i].inner, under \/ recs[i].flags & AVP_FLAG_MANDATORY = 0)

MandatoryVisible == \A g \in Grps : ~HiddenMandatory(put[g], FALSE)

==============================================================================

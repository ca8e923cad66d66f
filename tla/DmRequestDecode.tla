---------------------------- MODULE DmRequestDecode ----------------------------
(***************************************************************************)
(* The request API of dmmsg.c (the first API), end to end: the sender     *)
(* builds a request with new_dm_request and build_dm_request, and the     *)
(* receiver gets its bytes from the network in chunks, starts with        *)
(* dm_decode_request on the first chunk and feeds the rest with           *)
(* dm_add_data until dm_decode_complete says the packet is whole.         *)
(*                                                                         *)
(* Offsets are bytes from &req->packet; the allocation talloc_size makes  *)
(* is sizeof(DM_REQUEST_INFO) + the packet length, so the packet occupies *)
(* offsets 0 .. pkt_len-1 of it and DM_REQUEST_INFO lies before offset 0. *)
(***************************************************************************)
EXTENDS DmWire

CONSTANTS
  PayloadLens,   \* avps_length of the groups the sender builds
  Junk           \* contents of bytes talloc_size has not initialised

ReqHdr == 20   \* sizeof(DM_PACKET); sizeof(DM_REQUEST) is INFO + ReqHdr

(* new_dm_request(ctx, code, flags, appid, hopid, endid): the header      *)
(* fields after talloc_zero, the length still 0.                          *)
NewRequest(code, flags, appid, hopid, endid) ==
  <<1>> \o Be(0, 3) \o <<flags>> \o Be(code, 3)
  \o Be(appid, 4) \o Be(hopid, 4) \o Be(endid, 4)

(* build_dm_request with a group of n bytes of AVPs: the length field is  *)
(* sizeof(DM_PACKET) + avps_length and the AVPs follow the header.         *)
BuildRequest(hdr, n) ==
  [hdr EXCEPT ![2] = Be(ReqHdr + n, 3)[1], ![3] = Be(ReqHdr + n, 3)[2],
              ![4] = Be(ReqHdr + n, 3)[3]]
  \o [i \in 1..n |-> 100 + i]

(* dm_packet_length of the first bytes of a packet                       *)
PacketLength(b) == Num(SubSeq(b, 2, 4))

VARIABLES
  rest,      \* bytes received from the network and not yet handed over
  mem,       \* the packet part of the allocation (<<>> before it exists)
  avpptr,    \* req->info.avpptr, as an offset from &req->packet
  outside,   \* bytes memcpy wrote past the end of the allocation
  done       \* the caller saw dm_decode_complete return true

vars == <<rest, mem, avpptr, outside, done>>

(* dm_add_data's and dm_decode_complete's arithmetic.  current and        *)
(* remaining are size_t: their wrap-arounds cancel, so the result is      *)
(* exact in integers.                                                     *)
Current == Len(mem) - avpptr            \* req + info.size - avpptr
Remaining == PacketLength(mem) - Current

(* dm_decode_complete                                                     *)
DecodeComplete == Remaining = 0

(* memcpy of the bytes d to offset off of the allocation                 *)
Copy(m, off, d) ==
  [i \in DOMAIN m |-> IF off < i /\ i <= off + Len(d) THEN d[i - off] ELSE m[i]]
Spill(off, d) == Cardinality({i \in 1..Len(d) : off + i > Len(mem)})

(* The caller hands the first k bytes to dm_decode_request.  Below 4      *)
(* bytes it returns 0 and the caller waits for more.                      *)
DecodeRequest(k) ==
  /\ mem = <<>> /\ k >= 4
  /\ LET pkt_len == PacketLength(rest)
         len == IF k > pkt_len THEN pkt_len ELSE k
     IN \E j \in Junk :
          /\ mem' = Copy([i \in 1..pkt_len |-> j], 0, SubSeq(rest, 1, len))
          /\ avpptr' = ReqHdr + len
          /\ rest' = SubSeq(rest, len + 1, Len(rest))
  /\ UNCHANGED <<outside, done>>

(* The caller hands the next k bytes to dm_add_data while the request is  *)
(* not complete; it consumes what dm_add_data returns.                     *)
AddData(k) ==
  /\ mem # <<>> /\ ~DecodeComplete
  /\ LET len == IF Remaining < k THEN Remaining ELSE k
         d == SubSeq(rest, 1, len)
     IN /\ mem' = Copy(mem, avpptr, d)
        /\ outside' = outside + Spill(avpptr, d)
        /\ avpptr' = avpptr + len
        /\ rest' = SubSeq(rest, len + 1, Len(rest))
  /\ UNCHANGED done

(* The caller's loop ends when dm_decode_complete returns true.           *)
Finish ==
  /\ mem # <<>> /\ DecodeComplete /\ ~done
  /\ done' = TRUE
  /\ UNCHANGED <<rest, mem, avpptr, outside>>

Init ==
  /\ \E n \in PayloadLens :
       rest = BuildRequest(NewRequest(1, 128, 1, 7, 7), n)
  /\ mem = <<>> /\ avpptr = 0 /\ outside = 0 /\ done = FALSE

Next ==
  \/ \E k \in 1..Len(rest) : DecodeRequest(k) \/ AddData(k)
  \/ Finish

Spec == Init /\ [][Next]_vars

-----------------------------------------------------------------------------
TypeOK ==
  /\ rest \in Seq(Nat) /\ mem \in Seq(Nat \cup Junk)
  /\ avpptr \in Nat /\ outside \in Nat /\ done \in BOOLEAN

(* Reassembly (spec.md 8): fed the packet in any chunks, the decoder      *)
(* copies every byte into the allocation and nothing past it.             *)
CopiesInBounds == outside = 0
==============================================================================

----------------------------- MODULE DmReassembler -----------------------------
(***************************************************************************)
(* The read side of the connection at byte level: event_aux_diamRead as   *)
(* readEvent calls it.  On the first call of a read event it reads what   *)
(* the socket holds into readCtx->buffer, growing the buffer by           *)
(* BUFFER_CHUNK_SIZE whenever it is full; on later calls of the same      *)
(* event it strips the packet the caller has just processed (memmove) or  *)
(* frees the buffer when that packet was the last one.  Either way it    *)
(* then reports COMPLETE when a whole packet is at the front.  readEvent   *)
(* processes that packet and calls again, until INCOMPLETE or NOTHING     *)
(* ends the event.                                                         *)
(*                                                                         *)
(* The peer's stream is a sequence of packets.  Each begins with a 4-byte *)
(* header whose last three bytes hold its declared length (the layout     *)
(* diam_packet_length reads); the first byte and the body bytes carry the *)
(* packet's index, so that a packet delivered twice or spliced is seen.   *)
(* The stream reaches the socket in arbitrary splits.  Timeouts, resets   *)
(* and the abort label are modelled by DmConnection.                      *)
(***************************************************************************)
EXTENDS DmWire

CONSTANTS
  BUFFER_CHUNK_SIZE,  \* growth granule of the read buffer
  Lens,               \* declared lengths of the packets the peer sends
  MaxPkts,            \* packets in the stream
  MaxDeliveries       \* bound on the packets readEvent is handed

ASSUME BUFFER_CHUNK_SIZE > 0 /\ MaxPkts >= 1 /\ MaxDeliveries >= MaxPkts

(* A packet on the wire: the header with declared length L, then the body *)
(* up to L bytes; a length below the header still sends the header.       *)
Frame(i, L) == <<i>> \o Be(L, 3) \o [j \in 1..(L - 4) |-> i]

Stream(ls) == FlattenSeq([i \in DOMAIN ls |-> Frame(i, ls[i])])

VARIABLES
  sent,       \* declared lengths of the packets the peer sends (fixed)
  unsent,     \* bytes not yet in the socket's receive queue
  sock,       \* bytes in the receive queue, not yet read
  buf,        \* readCtx->buffer[0 .. bytes-1]; Len(buf) = readCtx->bytes
  cAlloc,     \* readCtx->cAlloc
  pc,         \* "idle" between events, "loop" inside readEvent's for(;;)
  already,    \* readEvent's alreadyRead
  delivered   \* the packets readEvent was handed with COMPLETE (history)

vars == <<sent, unsent, sock, buf, cAlloc, pc, already, delivered>>

(* mutant: the length read as a 32-bit word, version byte included      *)
PktLenWord(b) == Num(SubSeq(b, 1, 4))

(* diam_packet_length of the packet at the front of the buffer           *)
PktLen(b) == Num(SubSeq(b, 2, 4))

RECURSIVE ReadLoop(_, _, _)

(* mutant: read() is asked for bufsize bytes, not the space left         *)
ReadLoopIgnoresSpace(b, c, s) ==
  LET c2 == IF Len(b) = c * BUFFER_CHUNK_SIZE THEN c + 1 ELSE c
      k == IF Len(s) < c2 * BUFFER_CHUNK_SIZE THEN Len(s) ELSE c2 * BUFFER_CHUNK_SIZE
      b2 == b \o SubSeq(s, 1, k)
  IN IF k > 0 /\ Len(b2) = c2 * BUFFER_CHUNK_SIZE
     THEN ReadLoop(b2, c2, SubSeq(s, k + 1, Len(s)))
     ELSE [buf |-> b2, cAlloc |-> c2, sock |-> SubSeq(s, k + 1, Len(s))]

(* mutant: read() into readCtx->buffer, not readCtx->buffer + bytes       *)
ReadLoopAtStart(b, c, s) ==
  LET c2 == IF Len(b) = c * BUFFER_CHUNK_SIZE THEN c + 1 ELSE c
      space == c2 * BUFFER_CHUNK_SIZE - Len(b)
      k == IF Len(s) < space THEN Len(s) ELSE space
      old == b \o [i \in 1..k |-> 0]
      b2 == [i \in 1..(Len(b) + k) |-> IF i <= k THEN s[i] ELSE old[i]]
  IN IF k > 0 /\ Len(b2) = c2 * BUFFER_CHUNK_SIZE
     THEN ReadLoop(b2, c2, SubSeq(s, k + 1, Len(s)))
     ELSE [buf |-> b2, cAlloc |-> c2, sock |-> SubSeq(s, k + 1, Len(s))]

(* The inner do-while of the first call: grow when full, read what the    *)
(* socket holds up to the space left, repeat while the read filled the   *)
(* buffer.  An empty socket is EWOULDBLOCK: length 0 ends the loop.       *)
ReadLoop(b, c, s) ==
  LET c2 == IF Len(b) = c * BUFFER_CHUNK_SIZE THEN c + 1 ELSE c
      space == c2 * BUFFER_CHUNK_SIZE - Len(b)
      k == IF Len(s) < space THEN Len(s) ELSE space
      b2 == b \o SubSeq(s, 1, k)
      s2 == SubSeq(s, k + 1, Len(s))
  IN IF k > 0 /\ Len(b2) = c2 * BUFFER_CHUNK_SIZE
     THEN ReadLoop(b2, c2, s2)
     ELSE [buf |-> b2, cAlloc |-> c2, sock |-> s2]

(* postprocessRequest: readCtx->req is the packet at the front, of the    *)
(* length its header declares.                                            *)
FrontPacket(b) == SubSeq(b, 1, PktLen(b))

(* "process read data": INCOMPLETE ends the event; COMPLETE hands the     *)
(* front packet to readEvent, which calls again.                          *)
Process(b) ==
  IF Len(b) < 4 \/ Len(b) < PktLen(b)
  THEN pc' = "idle" /\ UNCHANGED delivered
  ELSE /\ Len(delivered) < MaxDeliveries
       /\ delivered' = Append(delivered, FrontPacket(b))
       /\ UNCHANGED pc

(* readEvent fires on EV_READ: the socket has data.                       *)
Fire ==
  /\ pc = "idle" /\ sock # <<>>
  /\ pc' = "loop" /\ already' = FALSE
  /\ UNCHANGED <<sent, unsent, sock, buf, cAlloc, delivered>>

(* event_aux_diamRead with alreadyRead = 0                                *)
FirstCall ==
  /\ pc = "loop" /\ ~already
  /\ LET r == ReadLoop(buf, cAlloc, sock)
     IN /\ buf' = r.buf /\ cAlloc' = r.cAlloc /\ sock' = r.sock
        /\ already' = TRUE
        /\ Process(r.buf)
  /\ UNCHANGED <<sent, unsent>>

(* mutant: bytes -= len without the memmove                              *)
NextCallNoMemmove ==
  /\ pc = "loop" /\ already
  /\ IF Len(buf) >= 4 /\ Len(buf) >= PktLen(buf)
     THEN IF Len(buf) - PktLen(buf) = 0
          THEN /\ buf' = <<>> /\ cAlloc' = 0 /\ pc' = "idle"
               /\ UNCHANGED delivered
          ELSE LET rest == SubSeq(buf, 1, Len(buf) - PktLen(buf))
               IN /\ buf' = rest
                  /\ Process(rest)
                  /\ UNCHANGED cAlloc
     ELSE /\ Process(buf) /\ UNCHANGED <<buf, cAlloc>>
  /\ UNCHANGED <<sent, unsent, sock, already>>

(* event_aux_diamRead with alreadyRead = 1: the front packet has been     *)
(* processed.  When it is all there is, the buffer is freed (NOTHING);   *)
(* otherwise it is removed and the next one checked.                      *)
NextCall ==
  /\ pc = "loop" /\ already
  /\ IF Len(buf) >= 4 /\ Len(buf) >= PktLen(buf)
     THEN IF Len(buf) - PktLen(buf) = 0
          THEN /\ buf' = <<>> /\ cAlloc' = 0 /\ pc' = "idle"
               /\ UNCHANGED delivered
          ELSE LET rest == SubSeq(buf, PktLen(buf) + 1, Len(buf))
               IN /\ buf' = rest
                  /\ Process(rest)
                  /\ UNCHANGED cAlloc
     ELSE /\ Process(buf) /\ UNCHANGED <<buf, cAlloc>>
  /\ UNCHANGED <<sent, unsent, sock, already>>

(* The peer's bytes reach the receive queue, in any split.               *)
Arrive ==
  /\ unsent # <<>>
  /\ \E k \in 1..Len(unsent) :
       /\ sock' = sock \o SubSeq(unsent, 1, k)
       /\ unsent' = SubSeq(unsent, k + 1, Len(unsent))
  /\ UNCHANGED <<sent, buf, cAlloc, pc, already, delivered>>

Init ==
  /\ sent \in UNION {[1..n -> Lens] : n \in 1..MaxPkts}
  /\ unsent = Stream(sent) /\ sock = <<>>
  /\ buf = <<>> /\ cAlloc = 0
  /\ pc = "idle" /\ already = FALSE /\ delivered = <<>>

Next == Fire \/ FirstCall \/ NextCall \/ Arrive

(* libevent reports a readable socket, readEvent keeps calling until      *)
(* INCOMPLETE or NOTHING, and the network delivers what was sent.        *)
Fairness == WF_vars(Fire) /\ WF_vars(FirstCall) /\ WF_vars(NextCall) /\ WF_vars(Arrive)

Spec == Init /\ [][Next]_vars /\ Fairness

-----------------------------------------------------------------------------
TypeOK ==
  /\ buf \in Seq(0..255) /\ sock \in Seq(0..255) /\ unsent \in Seq(0..255)
  /\ cAlloc \in Nat /\ pc \in {"idle", "loop"} /\ already \in BOOLEAN
  /\ Len(delivered) <= MaxDeliveries
  /\ Len(buf) <= cAlloc * BUFFER_CHUNK_SIZE

(* The packet readEvent is processing stays at the front of the buffer    *)
(* until the next call strips it.                                         *)
Held == IF pc = "loop" /\ already THEN 1 ELSE 0

(* Partial-read reassembly (spec.md 8): whatever splits the stream        *)
(* arrives in, readEvent is handed exactly the packets that were sent, in *)
(* order, each once and whole.                                            *)
Reassembled ==
  /\ Len(delivered) <= Len(sent)
  /\ \A i \in DOMAIN delivered : delivered[i] = Frame(i, sent[i])

(* No byte is lost, duplicated or reordered by growing, reading and the   *)
(* memmove: the packets already stripped, the buffer, the receive queue   *)
(* and the unsent rest are the stream, in order.                          *)
NoBytesLost ==
  Stream(sent) = Stream(SubSeq(sent, 1, Len(delivered) - Held)) \o buf \o sock \o unsent

(* Every packet sent is eventually handed to readEvent, and the read      *)
(* buffer is then freed.                                                  *)
AllDelivered == <>[](Len(delivered) = Len(sent) /\ buf = <<>> /\ cAlloc = 0)
==============================================================================

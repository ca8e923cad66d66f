------------------------------ MODULE DmConnection ------------------------------
(***************************************************************************)
(* The client side of one libdmconfig connection (dmconfig.c): the        *)
(* request list, the write event handler that drains it in FIFO order,    *)
(* the read event handler that reassembles packets, correlates answers    *)
(* by hop-by-hop id and dispatches server-initiated feedback, the         *)
(* feedback-callback slots, and the two teardown paths.  The peer is a    *)
(* server that answers received requests in any order and runs the       *)
(* feedback sessions the requests start.                                  *)
(*                                                                         *)
(* Data is abstracted to what correlation and teardown tell apart: every  *)
(* packet is two socket chunks long, so reads and writes can stop in the  *)
(* middle of a packet; payloads are reduced to result code and shape.     *)
(***************************************************************************)
EXTENDS Integers, Sequences, SequencesExt, FiniteSets, TLC

CONSTANTS
  Cmds,                 \* command codes the caller registers
  MaxReqs,              \* requests registered in one behaviour
  MAX_INT,              \* the hop-id sentinel that forces a reseed
  RandSeeds,            \* values the reseed expression can yield
  MaxFeedback,          \* non-terminal or misbehaving server packets
  SndBuf,               \* socket send buffer, in chunks
  Faults,               \* timeouts, resets, refused connect, bad answers
  CallerFrees,          \* the application may call dm_free_requests
  OneSessionPerFeature  \* caller never overlaps two uses of one slot

Chunks == 2
Rids == 1..MaxReqs

Features == {"notify", "fwupdate", "ping", "traceroute", "pcap"}
CmdCodes == {"LIST", "SUBSCRIBE", "UNSUBSCRIBE", "ENDSESSION",
             "FWUPDATE", "PING", "TRACEROUTE", "PCAP"}

ASSUME Cmds \subseteq CmdCodes
ASSUME MaxReqs \in Nat \ {0} /\ MaxFeedback \in Nat /\ SndBuf >= 1
ASSUME MAX_INT \in Nat \ {0} /\ RandSeeds \subseteq 1..(MAX_INT - 1)
ASSUME Faults \in BOOLEAN /\ OneSessionPerFeature \in BOOLEAN

(* The slot a dm_register_* call fills after registering its request; an *)
(* error answer to that command empties it again.                         *)
SlotOf == ("SUBSCRIBE" :> "notify") @@ ("FWUPDATE" :> "fwupdate")
          @@ ("PING" :> "ping") @@ ("TRACEROUTE" :> "traceroute")
          @@ ("PCAP" :> "pcap")

(* Server-initiated packets: the slot each process_* handler requires,   *)
(* and the completion handlers that always empty the slot afterwards.    *)
FbSlot == ("ACTIVE_NOTIFY" :> "notify") @@ ("FWUPDATE_PROGRESS" :> "fwupdate")
          @@ ("FWUPDATE_FINISH" :> "fwupdate") @@ ("CLIENT_PING" :> "ping")
          @@ ("PING_COMPLETED" :> "ping") @@ ("CLIENT_TRACEROUTE" :> "traceroute")
          @@ ("TRACEROUTE_COMPLETED" :> "traceroute") @@ ("PCAP_ABORTED" :> "pcap")
FbTerminal == {"PING_COMPLETED", "TRACEROUTE_COMPLETED", "PCAP_ABORTED"}

(* mutant: process_fwupdate_finish never clears the fwupdate slot        *)
EndsSessionNoFinish(p) == p.code \in FbTerminal

(* Whether the handler of a server packet empties its slot: the         *)
(* completion handlers always do; process_fwupdate_finish only when its  *)
(* first AVP decodes (body "none") and carries the code -1 (rc "end").   *)
EndsSession(p) ==
  \/ p.code \in FbTerminal
  \/ p.code = "FWUPDATE_FINISH" /\ p.rc = "end" /\ p.body = "none"

VARIABLES
  reqs,     \* requestlist: [rid, hop, code, st] in list order
  hopid,    \* the process-wide hopid (= endid) counter
  nextRid,  \* identity of the next registered request (history)
  wcur,     \* writeCtx.cur_request (a rid, 0 when NULL)
  wleft,    \* chunks left in writeCtx.buffer (0 when buffer is NULL)
  wwatch,   \* write event pending
  rwatch,   \* read event pending
  rd,       \* chunks of net actually held in the read buffer
  rbytes,   \* readCtx.bytes, in chunks
  ralloc,   \* readCtx.req is allocated
  slots,    \* feedback slots holding a callback
  outc,     \* callbacks invoked per request: [kind, from] (history)
  sock,     \* "connecting", "up" or "down"
  toSrv,    \* chunks written and not yet read by the server
  net,      \* packets sent by the server, not yet consumed by the client
  srvq,     \* requests the server has read and not answered
  srvAct,   \* feedback sessions the server is running, per slot
  fbLeft,   \* budget of non-terminal and misbehaving server packets
  recvd     \* rids in the order the server read them (history)

vars == <<reqs, hopid, nextRid, wcur, wleft, wwatch, rwatch, rd, rbytes,
          ralloc, slots, outc, sock, toSrv, net, srvq, srvAct, fbLeft, recvd>>
srvVars == <<sock, srvq, srvAct, fbLeft, recvd>>

Pkt(kind, hop, for, rc, body, code) ==
  [kind |-> kind, hop |-> hop, for |-> for, rc |-> rc, body |-> body, code |-> code]
Junk == Pkt("junk", 0, 0, "ok", "none", "none")
Feedback(code, rc, body) == Pkt("request", 0, 0, rc, body, code)
AnswerPkt(q, rc, body) == Pkt("answer", q.hop, q.rid, rc, body, q.code)

-----------------------------------------------------------------------------
(* The connection state the event handlers read and write, as a record,  *)
(* so that a handler's loop is one operator from record to record.       *)
Conn == [reqs |-> reqs, wcur |-> wcur, wleft |-> wleft, wwatch |-> wwatch,
         rwatch |-> rwatch, rd |-> rd, rbytes |-> rbytes, ralloc |-> ralloc,
         slots |-> slots, outc |-> outc, toSrv |-> toSrv, net |-> net]

SetConn(c) ==
  /\ reqs' = c.reqs    /\ wcur' = c.wcur     /\ wleft' = c.wleft
  /\ wwatch' = c.wwatch /\ rwatch' = c.rwatch /\ rd' = c.rd
  /\ rbytes' = c.rbytes /\ ralloc' = c.ralloc /\ slots' = c.slots
  /\ outc' = c.outc    /\ toSrv' = c.toSrv   /\ net' = c.net

HasStatus(rs, st) == \E i \in 1..Len(rs) : rs[i].st = st
FirstWithStatus(rs, st) == SelectInSeq(rs, LAMBDA r : r.st = st)

(* mutant: correlate by position among awaited requests, not by hop id   *)
FirstAwaiting(rs, h) == SelectInSeq(rs, LAMBDA r : r.st = "SHALL_READ")

FirstWithHop(rs, h) == SelectInSeq(rs, LAMBDA r : r.hop = h)

Callback(c, rid, kind, from) ==
  [c EXCEPT !.outc[rid] = Append(@, [kind |-> kind, from |-> from])]

-----------------------------------------------------------------------------
(* Read side: event_aux_diamRead and readEvent.                          *)

(* Stripping the processed packet off the front of the buffer; the      *)
(* buffer is freed when it was the last one.                             *)
StripPacket(c) ==
  [c EXCEPT !.net = Tail(@), !.rd = @ - Chunks, !.rbytes = @ - Chunks,
            !.ralloc = c.rbytes - Chunks > 0]

(* The stream once the read buffer is freed: fully read packets are      *)
(* lost, and the unread rest of a partly read packet is no longer on a   *)
(* packet boundary, so it reads as junk.                                 *)
Discard(n, k) ==
  LET rest == SubSeq(n, k \div Chunks + 1, Len(n))
  IN IF k % Chunks = 0 THEN rest ELSE <<Junk>> \o Tail(rest)

ReadAbort(c) ==
  [c EXCEPT !.rwatch = FALSE, !.net = Discard(c.net, c.rd), !.rd = 0,
            !.rbytes = 0, !.ralloc = FALSE, !.slots = {}]

(* The packet makes readEvent jump to abort: unknown server request,     *)
(* feedback for an empty slot, answer for no request or for one that is  *)
(* not yet fully written.                                                *)
Violation(c, p) ==
  CASE p.kind = "junk"    -> TRUE
    [] p.kind = "request" -> FbSlot[p.code] \notin c.slots
    [] OTHER -> LET i == FirstWithHop(c.reqs, p.hop)
                IN i = 0 \/ c.reqs[i].st # "SHALL_READ"

AnswerOutcome(p) ==
  CASE p.body = "norc" -> "read_error"
    [] p.rc = "err"    -> "err"
    [] OTHER           -> "ok"

SlotsAfterAnswer(sl, code, p) ==
  CASE p.body = "norc"                         -> sl
    [] p.rc = "err" /\ code \in DOMAIN SlotOf  -> sl \ {SlotOf[code]}
    [] p.rc = "ok" /\ code = "UNSUBSCRIBE"     -> sl \ {"notify"}
    [] p.rc = "ok" /\ code = "ENDSESSION"      -> {}
    [] OTHER                                   -> sl

(* mutant: the matched request is not unlinked from the list            *)
DispatchKeepsRequest(c, p) ==
  IF p.kind = "request"
  THEN [c EXCEPT !.slots = IF EndsSession(p) THEN @ \ {FbSlot[p.code]} ELSE @]
  ELSE LET r == c.reqs[FirstWithHop(c.reqs, p.hop)]
       IN [Callback(c, r.rid, AnswerOutcome(p), p.for) EXCEPT
              !.slots = SlotsAfterAnswer(@, r.code, p)]

Dispatch(c, p) ==
  IF p.kind = "request"
  THEN [c EXCEPT !.slots = IF EndsSession(p) THEN @ \ {FbSlot[p.code]} ELSE @]
  ELSE LET i == FirstWithHop(c.reqs, p.hop)
           r == c.reqs[i]
       IN [Callback(c, r.rid, AnswerOutcome(p), p.for) EXCEPT
              !.reqs = RemoveAt(@, i), !.slots = SlotsAfterAnswer(@, r.code, p)]

(* Something is still to be read: an awaited answer or a filled slot.    *)
(* mutant: the retire scan stops at any listed request, not a SHALL_READ *)
ExpectingAnyReq(c) == c.reqs # <<>> \/ c.slots # {}

Expecting(c) == HasStatus(c.reqs, "SHALL_READ") \/ c.slots # {}

(* mutant: one packet per read event; the rest waits for the next one    *)
ReadOnce(c) ==
  IF c.rd < Chunks THEN c
  ELSE IF Violation(c, Head(c.net)) THEN ReadAbort(c)
  ELSE LET d == Dispatch(c, Head(c.net)) IN
       IF Expecting(d)
       THEN StripPacket([d EXCEPT !.rwatch = TRUE])
       ELSE LET t == StripPacket([d EXCEPT !.rwatch = FALSE])
            IN IF t.rd = 0 THEN t ELSE ReadAbort(t)

(* readEvent's for(;;) loop after the initial read: process complete    *)
(* packets one by one; retire the read event once nothing is expected,  *)
(* and abort if bytes are then still buffered.                           *)
RECURSIVE ReadLoop(_)
ReadLoop(c) ==
  IF c.rd < Chunks THEN c
  ELSE IF Violation(c, Head(c.net)) THEN ReadAbort(c)
  ELSE LET d == Dispatch(c, Head(c.net)) IN
       IF Expecting(d)
       THEN LET t == StripPacket([d EXCEPT !.rwatch = TRUE])
            IN IF t.rd = 0 THEN t ELSE ReadLoop(t)
       ELSE LET t == StripPacket([d EXCEPT !.rwatch = FALSE])
            IN IF t.rd = 0 THEN t ELSE ReadAbort(t)

-----------------------------------------------------------------------------
(* Write side: event_aux_diamWrite and writeEvent.                       *)

(* mutant: the newest unwritten request is written first                 *)
StartWriteNewest(c) ==
  LET i == SelectLastInSeq(c.reqs, LAMBDA r : r.st = "SHALL_WRITE")
  IN [c EXCEPT !.reqs[i].st = "WRITING", !.wcur = c.reqs[i].rid, !.wleft = Chunks]

StartWrite(c) ==
  LET i == FirstWithStatus(c.reqs, "SHALL_WRITE")
  IN [c EXCEPT !.reqs[i].st = "WRITING", !.wcur = c.reqs[i].rid, !.wleft = Chunks]

CurIndex(c) == SelectInSeq(c.reqs, LAMBDA r : r.rid = c.wcur)

PutChunks(c, n) ==
  LET r == c.reqs[CurIndex(c)]
  IN [c EXCEPT !.toSrv = @ \o [j \in 1..n |-> [rid |-> r.rid, hop |-> r.hop,
                                               code |-> r.code,
                                               part |-> Chunks - c.wleft + j]],
               !.wleft = @ - n]

(* mutant: the write event is not re-armed after a complete write        *)
WrittenDisarmed(c) ==
  [c EXCEPT !.reqs[CurIndex(c)].st = "SHALL_READ", !.wleft = 0,
            !.rwatch = TRUE, !.wwatch = FALSE]

(* mutant: the read event is not armed when a request has been written   *)
WrittenNoReadArm(c) ==
  [c EXCEPT !.reqs[CurIndex(c)].st = "SHALL_READ", !.wleft = 0, !.wwatch = TRUE]

Written(c) ==
  [c EXCEPT !.reqs[CurIndex(c)].st = "SHALL_READ", !.wleft = 0,
            !.rwatch = TRUE, !.wwatch = TRUE]

(* writeEvent's error exit: the request being written gets its error    *)
(* callback, the whole list is freed, the read buffer is freed (its     *)
(* byte count is left as it was) and both events are deleted.           *)
WriteFailed(c) ==
  [Callback(c, c.wcur, "write_error", 0) EXCEPT
      !.reqs = <<>>, !.wcur = 0, !.wleft = 0, !.wwatch = FALSE,
      !.ralloc = FALSE, !.net = Discard(c.net, c.rd), !.rd = 0,
      !.rwatch = FALSE]

(* mutant: the write event is left armed once everything is written      *)
AllWrittenKeepsWatch(c) == c

(* All requests written: writeEvent deletes its event and returns.      *)
AllWritten(c) == [c EXCEPT !.wwatch = FALSE]

(* mutant: a short write is taken for a full one                          *)
RECURSIVE WriteLoopIgnoresSpace(_, _)
WriteLoopIgnoresSpace(c, up) ==
  IF c.wleft = 0 /\ ~HasStatus(c.reqs, "SHALL_WRITE")
  THEN {AllWritten(c)}
  ELSE LET s == IF c.wleft = 0 THEN StartWrite(c) ELSE c
       IN IF ~up THEN {WriteFailed(s)}
          ELSE WriteLoopIgnoresSpace(Written(PutChunks(s, s.wleft)), up)

(* writeEvent's do-loop: the outcomes of one write event.               *)
RECURSIVE WriteLoop(_, _)
WriteLoop(c, up) ==
  IF c.wleft = 0 /\ ~HasStatus(c.reqs, "SHALL_WRITE")
  THEN {AllWritten(c)}
  ELSE LET s     == IF c.wleft = 0 THEN StartWrite(c) ELSE c
           space == SndBuf - Len(s.toSrv)
       IN IF ~up THEN {WriteFailed(s)}
          ELSE IF space = 0 THEN {s}
          ELSE UNION {IF n < s.wleft THEN {PutChunks(s, n)}
                      ELSE WriteLoop(Written(PutChunks(s, n)), up)
                      : n \in 1..Min({s.wleft, space})}

-----------------------------------------------------------------------------
(* Registration: dm_generic_register_request and the dm_register_*      *)
(* wrappers that fill a feedback slot once the request is queued.        *)

(* mutant: no reseed at the sentinel                                     *)
NextHopNoWrap == IF hopid = 0 THEN RandSeeds ELSE {hopid + 1}

NextHop == IF hopid = 0 \/ hopid = MAX_INT THEN RandSeeds ELSE {hopid + 1}

(* The slots a command starts or ends: the caller discipline that never *)
(* overlaps two of them.                                                 *)
Touches(code) ==
  CASE code \in DOMAIN SlotOf -> {SlotOf[code]}
    [] code = "UNSUBSCRIBE"   -> {"notify"}
    [] code = "ENDSESSION"    -> Features
    [] OTHER                  -> {}

Disciplined(code) ==
  /\ \A i \in 1..Len(reqs) : Touches(reqs[i].code) \cap Touches(code) = {}
  /\ code \in DOMAIN SlotOf => SlotOf[code] \notin slots

(* dm_generic_register_request: stamp, append, arm the write event.     *)
RegisterRequest(code) ==
  /\ nextRid <= MaxReqs
  /\ \E h \in NextHop :
       /\ hopid' = h
       /\ reqs' = Append(reqs, [rid |-> nextRid, hop |-> h, code |-> code,
                                st |-> "SHALL_WRITE"])
  /\ nextRid' = nextRid + 1
  /\ wwatch' = TRUE
  /\ UNCHANGED <<wcur, wleft, rwatch, rd, rbytes, ralloc, outc, toSrv, net>>
  /\ UNCHANGED srvVars

(* A dm_register_* call: the generic registration, then the feedback    *)
(* slot of the command is filled.                                        *)
Register(code) ==
  /\ OneSessionPerFeature => Disciplined(code)
  /\ RegisterRequest(code)
  /\ slots' = IF code \in DOMAIN SlotOf THEN slots \cup {SlotOf[code]} ELSE slots

-----------------------------------------------------------------------------
(* Event handlers.                                                       *)

ConnectEvent ==
  /\ sock = "connecting"
  /\ sock' \in IF Faults THEN {"up", "down"} ELSE {"up"}
  /\ UNCHANGED <<reqs, hopid, nextRid, wcur, wleft, wwatch, rwatch, rd, rbytes,
                 ralloc, slots, outc, toSrv, net, srvq, srvAct, fbLeft, recvd>>

(* writeEvent on EV_WRITE: fires when the socket takes data, or has      *)
(* failed.                                                               *)
WriteReady == wwatch /\ sock # "connecting" /\ (sock = "up" => Len(toSrv) < SndBuf)

WriteEvent ==
  /\ WriteReady
  /\ \E c \in WriteLoop(Conn, sock = "up") : SetConn(c)
  /\ UNCHANGED <<hopid, nextRid>>
  /\ UNCHANGED srvVars

(* writeEvent on EV_TIMEOUT: event_aux_diamWrite reports CONNRESET.      *)
WriteTimeout ==
  /\ Faults
  /\ wwatch
  /\ SetConn(IF wleft = 0 /\ ~HasStatus(reqs, "SHALL_WRITE")
             THEN AllWritten(Conn)
             ELSE WriteFailed(IF wleft = 0 THEN StartWrite(Conn) ELSE Conn))
  /\ UNCHANGED <<hopid, nextRid>>
  /\ UNCHANGED srvVars

(* readEvent on EV_READ: the first event_aux_diamRead call reads k of    *)
(* the chunks that have arrived; on a closed socket it may hit the end   *)
(* of the stream.  A byte count left from a freed buffer makes the read  *)
(* land in freed memory; the model lets that end in an abort.            *)
ReadReady == rwatch /\ sock # "connecting" /\ (sock = "up" => rd < Chunks * Len(net))

ReadEvent ==
  /\ ReadReady
  /\ \E k \in 0..(Chunks * Len(net) - rd), eof \in BOOLEAN :
       /\ sock = "up" => k > 0 /\ ~eof
       /\ k = 0 => eof
       /\ LET c == [Conn EXCEPT !.rd = rd + k, !.rbytes = rbytes + k, !.ralloc = TRUE]
          IN SetConn(IF eof \/ rbytes # rd THEN ReadAbort(c) ELSE ReadLoop(c))
  /\ UNCHANGED <<hopid, nextRid>>
  /\ UNCHANGED srvVars

(* readEvent on EV_TIMEOUT: event_aux_diamRead reports CONNRESET.        *)
ReadTimeout ==
  /\ Faults
  /\ rwatch
  /\ SetConn(ReadAbort(Conn))
  /\ UNCHANGED <<hopid, nextRid>>
  /\ UNCHANGED srvVars

(* dm_free_requests, called by the application: the list is freed with  *)
(* no callback, both events are deleted, the write buffer is dropped,   *)
(* and the read buffer is freed when one is allocated.  The feedback     *)
(* slots and writeCtx.cur_request are left as they were.                *)
FreeRequests ==
  /\ CallerFrees
  /\ reqs' = <<>> /\ wleft' = 0 /\ wwatch' = FALSE /\ rwatch' = FALSE
  /\ IF ralloc
     THEN /\ ralloc' = FALSE /\ rbytes' = 0 /\ rd' = 0
          /\ net' = Discard(net, rd)
     ELSE UNCHANGED <<ralloc, rbytes, rd, net>>
  /\ UNCHANGED <<hopid, nextRid, wcur, slots, outc, toSrv>>
  /\ UNCHANGED srvVars

-----------------------------------------------------------------------------
(* The server.                                                           *)

ServerGone ==
  /\ sock' = "down"
  /\ toSrv' = <<>>
  /\ srvq' = <<>>
  /\ srvAct' = [f \in Features |-> 0]

(* The server reads one request; a stream in which a packet is cut off  *)
(* by the next one cannot be parsed, and the server drops the connection.*)
SrvRecv ==
  /\ sock = "up"
  /\ Len(toSrv) >= Chunks
  /\ IF toSrv[1].rid = toSrv[2].rid /\ toSrv[1].part = 1
     THEN /\ srvq' = Append(srvq, [rid |-> toSrv[1].rid, hop |-> toSrv[1].hop,
                                   code |-> toSrv[1].code])
          /\ recvd' = Append(recvd, toSrv[1].rid)
          /\ toSrv' = SubSeq(toSrv, Chunks + 1, Len(toSrv))
          /\ UNCHANGED <<sock, srvAct>>
     ELSE /\ ServerGone
          /\ UNCHANGED recvd
  /\ UNCHANGED <<reqs, hopid, nextRid, wcur, wleft, wwatch, rwatch, rd, rbytes,
                 ralloc, slots, outc, net, fbLeft>>

SessionsAfter(code) ==
  CASE code \in DOMAIN SlotOf -> [srvAct EXCEPT ![SlotOf[code]] = @ + 1]
    [] code = "UNSUBSCRIBE"   -> [srvAct EXCEPT !["notify"] = 0]
    [] code = "ENDSESSION"    -> [f \in Features |-> 0]
    [] OTHER                  -> srvAct

Bodies == IF Faults THEN {"none", "norc"} ELSE {"none"}

(* The server answers any request it has read, in any order.            *)
SrvAnswer ==
  /\ sock = "up"
  /\ \E j \in 1..Len(srvq), rc \in {"ok", "err"}, body \in Bodies :
       /\ net' = Append(net, AnswerPkt(srvq[j], rc, body))
       /\ srvq' = RemoveAt(srvq, j)
       /\ srvAct' = IF rc = "ok" /\ body = "none" THEN SessionsAfter(srvq[j].code)
                    ELSE srvAct
  /\ UNCHANGED <<reqs, hopid, nextRid, wcur, wleft, wwatch, rwatch, rd, rbytes,
                 ralloc, slots, outc, sock, toSrv, fbLeft, recvd>>

(* The packets a running session reports progress with: a firmware      *)
(* update also sends FINISH packets with a code other than -1.           *)
Progress == ("notify" :> {"ACTIVE_NOTIFY"})
            @@ ("fwupdate" :> {"FWUPDATE_PROGRESS", "FWUPDATE_FINISH"})
            @@ ("ping" :> {"CLIENT_PING"}) @@ ("traceroute" :> {"CLIENT_TRACEROUTE"})
Final == ("fwupdate" :> "FWUPDATE_FINISH") @@ ("ping" :> "PING_COMPLETED")
         @@ ("traceroute" :> "TRACEROUTE_COMPLETED") @@ ("pcap" :> "PCAP_ABORTED")

(* A running session reports progress, or ends with its final packet.   *)
(* The final FINISH of a firmware update carries -1; a faulty server can *)
(* send it with a first AVP that does not decode.                        *)
SrvProgress(f) ==
  /\ sock = "up" /\ srvAct[f] > 0 /\ fbLeft > 0
  /\ f \in DOMAIN Progress
  /\ \E code \in Progress[f] : net' = Append(net, Feedback(code, "ok", "none"))
  /\ fbLeft' = fbLeft - 1
  /\ UNCHANGED <<reqs, hopid, nextRid, wcur, wleft, wwatch, rwatch, rd, rbytes,
                 ralloc, slots, outc, sock, toSrv, srvq, srvAct, recvd>>

SrvFinal(f) ==
  /\ sock = "up" /\ srvAct[f] > 0
  /\ f \in DOMAIN Final
  /\ \E body \in IF f = "fwupdate" THEN Bodies ELSE {"none"} :
       net' = Append(net, Feedback(Final[f], "end", body))
  /\ srvAct' = [srvAct EXCEPT ![f] = @ - 1]
  /\ UNCHANGED <<reqs, hopid, nextRid, wcur, wleft, wwatch, rwatch, rd, rbytes,
                 ralloc, slots, outc, sock, toSrv, srvq, fbLeft, recvd>>

(* A faulty server answers a request twice.                             *)
SrvDuplicate ==
  /\ Faults /\ sock = "up" /\ fbLeft > 0
  /\ \E j \in 1..Len(srvq) :
       /\ net' = net \o <<AnswerPkt(srvq[j], "ok", "none"), AnswerPkt(srvq[j], "ok", "none")>>
       /\ srvq' = RemoveAt(srvq, j)
  /\ fbLeft' = fbLeft - 1
  /\ UNCHANGED <<reqs, hopid, nextRid, wcur, wleft, wwatch, rwatch, rd, rbytes,
                 ralloc, slots, outc, sock, toSrv, srvAct, recvd>>

PeerReset ==
  /\ Faults /\ sock = "up"
  /\ ServerGone
  /\ UNCHANGED <<reqs, hopid, nextRid, wcur, wleft, wwatch, rwatch, rd, rbytes,
                 ralloc, slots, outc, net, fbLeft, recvd>>

-----------------------------------------------------------------------------
Init ==
  /\ reqs = <<>>      /\ hopid = 0        /\ nextRid = 1
  /\ wcur = 0         /\ wleft = 0        /\ wwatch = FALSE
  /\ rwatch = FALSE   /\ rd = 0           /\ rbytes = 0
  /\ ralloc = FALSE   /\ slots = {}       /\ outc = [r \in Rids |-> <<>>]
  /\ sock = "connecting" /\ toSrv = <<>>  /\ net = <<>>
  /\ srvq = <<>>      /\ srvAct = [f \in Features |-> 0]
  /\ fbLeft = MaxFeedback /\ recvd = <<>>

Client ==
  \/ \E code \in Cmds : Register(code)
  \/ ConnectEvent
  \/ WriteEvent
  \/ ReadEvent
  \/ WriteTimeout
  \/ ReadTimeout
  \/ FreeRequests

Server ==
  \/ SrvRecv
  \/ SrvAnswer
  \/ \E f \in Features : SrvProgress(f) \/ SrvFinal(f)
  \/ SrvDuplicate
  \/ PeerReset

Next == Client \/ Server

(* The libevent loop keeps delivering events while any armed event's     *)
(* condition holds; the server keeps reading, answering and ending the    *)
(* sessions it runs.  Every action is bounded, so fairness on the two     *)
(* groups forces each enabled action of a group to happen eventually.     *)
(* The handlers always take a step when their guard holds, so the guards  *)
(* are the enabling condition of EventLoop: the first conjunct of         *)
(* Fairness is WF_vars(EventLoop) written out.                            *)
EventLoop == ConnectEvent \/ WriteEvent \/ ReadEvent

EventLoopReady == sock = "connecting" \/ WriteReady \/ ReadReady

ServerWork == SrvRecv \/ SrvAnswer \/ \E f \in Features : SrvFinal(f)

Fairness ==
  /\ []<>~EventLoopReady \/ []<><<EventLoop>>_vars
  /\ WF_vars(ServerWork)

Spec == Init /\ [][Next]_vars /\ Fairness

-----------------------------------------------------------------------------
TypeOK ==
  /\ reqs \in Seq([rid : Rids, hop : 1..MAX_INT, code : Cmds,
                   st : {"SHALL_WRITE", "WRITING", "SHALL_READ"}])
  /\ hopid \in 0..MAX_INT /\ nextRid \in 1..(MaxReqs + 1)
  /\ wcur \in 0..MaxReqs /\ wleft \in 0..Chunks
  /\ wwatch \in BOOLEAN /\ rwatch \in BOOLEAN /\ ralloc \in BOOLEAN
  /\ rd \in 0..(Chunks * Len(net)) /\ rbytes \in Nat
  /\ slots \subseteq Features
  /\ outc \in [Rids -> Seq([kind : {"ok", "err", "read_error", "write_error"},
                             from : 0..MaxReqs])]
  /\ sock \in {"connecting", "up", "down"}
  /\ Len(toSrv) <= SndBuf
  /\ srvAct \in [Features -> Nat] /\ fbLeft \in 0..MaxFeedback

(* Every registered request's callback runs at most once, even when a   *)
(* faulty server answers twice or the connection is torn down.          *)
AtMostOneOutcome == \A r \in Rids : Len(outc[r]) <= 1

(* An answer callback of a request always carries the answer the server *)
(* sent for that request, whatever order the answers arrive in.         *)
AnswerToItsRequest ==
  \A r \in Rids : \A i \in 1..Len(outc[r]) :
    outc[r][i].kind # "write_error" => outc[r][i].from = r

(* The server reads requests in the order they were registered, each    *)
(* at most once.                                                         *)
WrittenInOrder ==
  \A i, j \in 1..Len(recvd) : i < j => recvd[i] < recvd[j]

(* A request that is not completely written always has the write event  *)
(* armed, so it cannot be forgotten in the list.                         *)
UnwrittenHasWriteWatch ==
  HasStatus(reqs, "SHALL_WRITE") \/ HasStatus(reqs, "WRITING") => wwatch

(* A request whose answer is awaited always has the read event armed.   *)
AwaitedHasReadWatch == HasStatus(reqs, "SHALL_READ") => rwatch

(* The converse, the retire check of readEvent (dmconfig.c:1107-1118):   *)
(* the read event is pending only while an answer is awaited or a        *)
(* feedback slot is filled.  A read event left armed once the last answer *)
(* is dispatched keeps event_base_dispatch, and so every blocking call,   *)
(* from returning; a request queued but not yet written is not a reason  *)
(* to keep reading.                                                       *)
ReadArmedOnlyWhenExpecting == rwatch => HasStatus(reqs, "SHALL_READ") \/ slots # {}

(* A registered request leaves the list only through its callback.      *)
NoSilentDrop ==
  \A r \in Rids : r < nextRid =>
    (\E i \in 1..Len(reqs) : reqs[i].rid = r) \/ outc[r] # <<>>

(* readCtx.bytes never counts bytes of a freed buffer.                   *)
ReadBufferAllocated == rbytes > 0 => ralloc

(* Every registered request eventually gets its callback.                *)
EveryRequestResolved == \A r \in Rids : (r < nextRid) ~> (outc[r] # <<>>)

(* Every diagnostics session (firmware update, ping, traceroute, packet  *)
(* capture) eventually releases its feedback slot: its completion packet *)
(* is read and dispatched, or its command failed, so readEvent can       *)
(* retire the read event once no answer is awaited.                      *)
SessionsRelease == \A f \in Features \ {"notify"} : f \in slots ~> f \notin slots


-----------------------------------------------------------------------------
(* Refinement mapping onto RequestService: the requests registered are   *)
(* nextRid - 1, the server's received order is recvd, and a request is   *)
(* answered once the server has received it and no longer holds it.      *)
AnsweredRids == {recvd[i] : i \in DOMAIN recvd} \ {srvq[j].rid : j \in DOMAIN srvq}

RS == INSTANCE RequestService
        WITH issued <- nextRid - 1, served <- recvd, answered <- AnsweredRids,
             outc <- outc, Kinds <- {"ok", "err", "read_error"}

(* The connection, together with a well-behaved server, implements the   *)
(* request service: registration, FIFO writing, hop-id correlation,      *)
(* unlinking and the read loop's callbacks only ever take steps that     *)
(* the abstract service allows.                                           *)
ImplementsRequestService == RS!Spec

==============================================================================

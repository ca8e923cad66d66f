# TLA+ models of libdmconfig

This directory holds TLA+ models of the configuration-protocol client library
`src/libdmconfig` (`dmconfig.c`, `dmmsg.c`), and of the SNMP RADIUS handlers
in `src/mand/snmp`. They are checked with TLC. Each
module is translated from the C source. `PROJECT.json` maps every modelled
definition to the lines it stands for, and lists the runs, the mutants that
each property must catch, the findings and the hazards.

## 1. The system

libdmconfig is a single-threaded client that speaks a Diameter-like
request/answer protocol to the configuration daemon. All its work happens in
libevent callbacks. Its parts are listed below.

| Part | Code | State | Operations |
|---|---|---|---|
| Packet/AVP codec | `dmmsg.c` (`dm_*`), the `diam_*` calls in `dmconfig.c` | packet buffer, write cursor, group stack; a request's allocation and write pointer | new packet, put AVP, open/close a group, finalize; decode and expect AVPs; build a request and decode one fed in chunks |
| Reassembler | `event_aux_diamRead` (dmconfig.c:160-250) | `readCtx.req`, `bytes`, `cAlloc` | read what is available and grow the buffer by chunks; strip the first packet; report INCOMPLETE, COMPLETE, NOTHING or CONNRESET |
| Write scheduler | `event_aux_diamWrite` (252-298) | `writeCtx.buffer`, `bytes` | write what the socket takes; report INCOMPLETE, COMPLETE, NOTHING or CONNRESET |
| Request multiplexer | `dm_generic_register_request` (390-468), `writeEvent` (826-916), the answer half of `readEvent` (1012-1105) | `requestlist_head` (a dummy-headed list whose entries are SHALL_WRITE, WRITING or SHALL_READ), the global `hopid`/`endid` | register; write in FIFO order; match an answer by hop id; unlink; call the callback |
| Feedback dispatcher | the request half of `readEvent` (967-1010), `process_*` (1142-1493), the slot setters in `dm_register_*` (1832-2031) | `dmCtx->callbacks`, one slot per feature | notify, fwupdate progress/finish, ping, traceroute, pcap aborted |
| Connection manager | `connectEvent` (807-824), the retire check and `abort` label of `readEvent` (1107-1139), the error exit of `writeEvent` (897-915), `dm_free_requests` (300-317) | socket, read and write events | connect; retire the read event; abort; fail after a write error |
| Blocking facade | `dm_init_socket`, `dm_generic_send_request`, `dm_send_*` (591-782, 1520-1681) | an `rc` on the stack | register a request, then run `event_base_dispatch` until no event is pending |
| SNMP RADIUS handlers | `radiusAccServ_handler`, `radiusAuthClient_handler` (`src/mand/snmp`) | none; each GET reads the data store | answer each varbind of a GET with its value or an exception |

**How the parts interact.** Registering a request appends it to the list and
arms the write event. `writeEvent` takes the first SHALL_WRITE request and
marks it WRITING. Once the packet is written, it becomes SHALL_READ and the
read event is armed. `readEvent` reads what has arrived and handles every
complete packet in the buffer:

- An answer is matched to the first list entry with the same hop id. It is
  unlinked and its callback runs.
- A server request is handed to its `process_*` handler, which needs its
  callback slot.

After each packet, `readEvent` keeps the read event while a SHALL_READ request
or a filled slot remains. Otherwise it deletes the event. Any protocol error,
timeout or reset jumps to `abort`. That deletes the read event, frees the
buffer and clears all slots. It does **not** touch the request list.

A write error is handled differently. It calls back only the request being
written, then frees the whole list and the read buffer.

**What is hard.**

- Answers come back in any order, while the next requests are still being
  written.
- Reads and writes stop in the middle of a packet.
- Two teardown paths each clean up a different part of the state.
- Requests share one global id counter that reseeds itself at a sentinel.
- A read event lives as long as something is expected, but "expected" is
  computed from two different sources: the list and the slots.

**What correctness means** (spec.md §4, §7, §8):

- Every registered request gets exactly one outcome.
- The outcome carries its own answer, whatever order answers arrive in.
- Requests are written in FIFO order.
- An awaited answer always has an armed read event.
- Teardown fails every pending request and leaves no stale buffer state.
- With a well-behaved server, every request is eventually answered.
- AVPs round-trip through the codec, and a packet's declared length is at
  least its header size.

## 2. Modules

### DmConnection (done)

The client side of one connection, against a nondeterministic server.

**State.**

| Variable | Code |
|---|---|
| `reqs` | `requestlist_head`, as a sequence of `[rid, hop, code, st]` |
| `hopid` | the global counter |
| `wcur`, `wleft` | `writeCtx.cur_request` and the chunks left in `writeCtx.buffer` |
| `wwatch`, `rwatch` | whether each event is pending |
| `rd` | the chunks actually held in the read buffer |
| `rbytes` | `readCtx.bytes`. It can differ from `rd` after a write error. |
| `ralloc` | `readCtx.req != NULL` |
| `slots` | the filled callback slots |

The environment is modelled by these variables:

- `sock`: connecting, up or down;
- `toSrv`: chunks written by the client and not yet read by the server;
- `net`: packets sent by the server;
- `srvq`: requests the server has read and not answered;
- `srvAct`: the feedback sessions the server runs.

Two history variables feed the properties: `outc` holds each request's
callback invocations and `recvd` the order in which the server read the
requests.

**Data abstraction.** Every packet is two socket chunks long, so both reads
and writes can stop mid-packet. An answer is reduced to its hop id, its result
code (ok or err) and its shape (normal, or without an RC AVP). A partly read
packet that is discarded by a teardown leaves its unread rest on the socket.
The model represents that rest as a `junk` packet, and reading it later aborts
the connection.

**Actions.** One action per entry point:

- `RegisterRequest(code)` is `dm_generic_register_request`. `NextHop` is its
  hop-id `switch`. `Register(code)` is a `dm_register_*` wrapper: the generic
  registration followed by the slot assignment.
- `ConnectEvent` is `connectEvent`.
- `WriteEvent` is `writeEvent` on EV_WRITE. Its whole do-loop is the
  recursive `WriteLoop`, which returns the set of outcomes for the byte counts
  the socket may accept.
- `WriteTimeout` is `writeEvent` on EV_TIMEOUT.
- `ReadEvent` is `readEvent` on EV_READ. The initial read is followed by the
  recursive `ReadLoop`, which covers the packet dispatch (`Violation`,
  `Dispatch`), the retire check (`Expecting`) and the strip
  (`StripPacket`).
- `ReadTimeout` is `readEvent` on EV_TIMEOUT.
- Server actions: `SrvRecv`, `SrvAnswer` (any pending request, in any order),
  `SrvProgress`, `SrvFinal`.
- Fault actions (`Faults = TRUE` only): `SrvDuplicate` (the server answers
  twice), `PeerReset`, a refused connect, and the timeouts.
- `FreeRequests` (`CallerFrees = TRUE` only) is `dm_free_requests`, called
  by the application. It drops the list without callbacks, deletes both
  events, and frees the read buffer if one is allocated. It leaves the slots
  and the socket alone.

**Which packets end a session.** `EndsSession(p)` is the rule by which a
dispatched feedback packet empties its slot. `process_ping_completed`,
`process_traceroute_completed` and `process_pcap_aborted` always clear their
slot. `process_fwupdate_finish` clears it only when the decoded FINISH code is
-1 (dmconfig.c:1201). It returns early, with the slot still set, when the
first AVP does not decode (dmconfig.c:1187). A firmware update therefore also
sends FINISH packets with other codes as progress (`Progress`). Its last
FINISH may carry a malformed body, which only a faulty server sends
(`Bodies`).

**Caller discipline.** `OneSessionPerFeature` keeps the caller from
overlapping two uses of the same feedback slot. The library has a single slot
per feature, so a caller that overlaps them gets undefined results anyway.

**Assumption about the status enum.** The status enum is not in this
repository. The model assumes the upstream order (SHALL_WRITE = 0). Then the
dummy list head, which is zeroed, never counts as SHALL_READ in the retire
scan (dmconfig.c:1107).

### DmFacade (done)

The blocking API on top of DmConnection, composed by `EXTENDS`.

| Variable | Code |
|---|---|
| `caller` | where the calling thread is: in `dm_init_socket`, between calls, inside `event_base_dispatch`, or given up after a refused connect |
| `cur` | the request whose stack frame (`struct _result result`) is live |
| `frc` | `result.rc` |
| `returned` | history of returned calls |
| `stale` | records a `generic_answerHandler` run on a frame that has returned |

**Actions.**

- `InitSocket` is `dm_init_socket`.
- `SendRequest` is `dm_generic_send_request` up to the dispatch: it calls the
  generic registration, which fills no slot, then presets `result.rc`.
- `DispatchEvent` is one event handled inside `event_base_dispatch`. It can be
  a write event, a read event or a timeout. Each callback it causes runs
  `AnswerHandler`.
- `Return` fires when no event is pending.
- The server runs throughout. The event loop runs only while the caller
  dispatches.

**Fairness (`facade_live`).** Weak fairness on each facade action and on the
server. That state space is small, so the real `WF` is used.

### DmReassembler

`DmReassembler` models `event_aux_diamRead` (dmconfig.c:160-250) byte by
byte, called the way `readEvent` calls it. The peer's stream is a sequence of
packets. Each begins with a 4-byte header whose last three bytes hold the
declared length; this is the layout `diam_packet_length` reads, assumed
because the `diam_*` library is not in the tree. The first byte and the body
carry the packet's index, so duplicated or spliced packets are visible.

State:
- `unsent`: the bytes not yet arrived.
- `sock`: the receive queue.
- `buf`: the read buffer, with `Len(buf)` = `readCtx.bytes`.
- `cAlloc`: the number of allocated chunks.
- `pc` and `already`: inside `readEvent`'s loop, and its `alreadyRead`.
- `delivered`: the packets handed over with COMPLETE.

Actions:

| Action | Code |
|---|---|
| `Fire` | `readEvent` on EV_READ. |
| `FirstCall` | The read loop `ReadLoop`: grow when full, read what the socket holds up to the space left, repeat while the read filled the buffer. Then "process read data" (`Process`). |
| `NextCall` | Free the buffer if the processed packet was the last one (NOTHING); otherwise strip it with `memmove` and check the next one. |
| `Arrive` | The network moves any prefix of the rest of the stream into the receive queue. |

`read` returns what the queue holds up to the size asked for. Arbitrary
arrival splits therefore cover every split a read can see. Timeouts, resets
and the abort label are DmConnection's.

### RequestService (abstract) and the refinement

`RequestService` is what the multiplexer promises (spec.md §4, §7). Requests
are numbered in registration order.

| Action | What it means |
|---|---|
| `Register` | A request is registered. |
| `Serve` | The server receives the oldest request it has not received, so no request is skipped. |
| `Answer(r)` | The server answers any request it has received. |
| `Resolve(S)` | The callbacks of some answered, unresolved requests run, each with its own answer. Several requests may resolve at once, because one `readEvent` handles every complete packet in its buffer. |

`DmConnection` defines `RS == INSTANCE RequestService WITH ...` with this
mapping:

| Abstract | Concrete |
|---|---|
| `issued` | `nextRid - 1` |
| `served` | the server's `recvd` |
| `answered` | requests received and no longer in `srvq` |
| `outc` | `outc` |

`ImplementsRequestService == RS!Spec` is a property of `conn_live`. It is not
checked under faults. There the code deliberately leaves the abstract
service's steps: a write error reports `write_error` without an answer, and a
reset drops the server's queue. Those behaviours are what the violation runs
show.

### The dmmsg.c codec: DmWire, DmAvpCursor, DmPullDecode, DmAvpGroup, DmPacketBuild

`dmmsg.c` has two codec APIs. Neither is called anywhere in the repository:
`dmconfig.c` uses an external `diam_*` library. The header `dmmsg.h` is not in
the tree, so the models assume the following:

- The Diameter flag values are V = 128, M = 64 and P = 32, with the
  reserved bits = 31.
- An AVP is a 4-byte code, 1 flag byte, a 3-byte length, an optional 4-byte
  vendor id, then the payload.
- A `struct dm_packet` header is 20 bytes, with the 24-bit length at bytes
  2..4.
- `sizeof(DM_AVPGRP)` is `GrpHdr` and the allocation granule is
  `DM_BLOCK_ALLOC`. Both are constants; the runs use 16 and 32.

Memory is a byte sequence. `Be(x, w)` is `htonl`/`uint32to24`, and `Num` is
their inverse. Codes and vendor ids are read lazily (`AvpCode`, `AvpVendor`),
because TLC's integers are 32-bit signed.

- **DmWire** holds the wire constants, `PAD32`, `Be` and `Num`.
- **DmAvpCursor** holds operators only: `dm_init_avpgrp`, `dm_init_packet`,
  `dm_expect_avp` and `dm_expect_grp_end`. `ExpectAvp` returns the return
  code, the advanced cursor and the payload's offset and length. A read past
  the data yields one of `Junk`: it is undefined behaviour, so the model picks
  among the values the build can produce. A length field below 20 makes the
  `size_t` subtraction in `dm_init_packet` wrap. The model represents the
  wrapped value as `HugeSize` (2^30), which is larger than any offset reached.
- **DmPullDecode** is a caller walking one received packet:
  - State: `cur` (the `DM2_AVPGRP`), `got` (the AVPs handed out), `done` and
    `overread`.
  - Init picks a received body and a length field. The body holds the bytes
    the length field declares, or none when it is below the header.
  - `Expect` is one `dm_expect_avp` call, followed by `dm_expect_grp_end` at
    the end of the group.
- **DmAvpGroup** models the first API over a set of caller variables `Grps`.
  - State: `grp[g]` is `[st, bytes, size]`, where `st` is `"none"`, `"live"`,
    or `"null"` once a failed realloc has stored NULL through the caller's
    pointer.
  - `put[g]` is the history of what was appended.
  - There is one action per function: `new_dm_avpgrp`, `add_raw`,
    `add_avpgrp` (with its recursive mandatory scan), `add_address`,
    `add_uint32_string`, `insert_raw` and `dm_decode_avpgrp`.
  - Every call that grows a group goes through `Append1`. `Append1` is
    `add_raw`/`insert_raw`'s size computation and `talloc_realloc_size`,
    which may fail when `AllocFails` is set.
  - Two decoders are operators that walk a group: `get_avp` (recursive
    `DecodeAll`) and the pull cursor (`CursorWalk`).
  - `dm_get_address_avp` is `GetAddressAvp`.
- **DmPacketBuild** models the push encoder.
  - State: `pst`, the block `mem`, the group stack `grps` (`req->grp[0..level]`),
    the put history `tree`, `rc` and `final`.
  - Actions: `dm_new_packet`, `dm_put_avp` (including
    `dm_packet_ensure_space`, done as one step), `dm_new_group`,
    `dm_finalize_group` and `dm_finalize_packet`.
  - A write past the block is lost. Bytes that a realloc adds hold one of
    `Junk`.
  - `Stride` is the scale of `req->packet + pos`. In C that expression is
    arithmetic on a `DM_PACKET *`, so it is scaled by 20. The runs use 1,
    which is the byte arithmetic the code evidently intends; see the hazard at
    dmmsg.c:527.
  - `RoundTrip` feeds the finalized block to `dm_init_packet` and walks it
    with the pull decoder.

**Properties.**

| Module | Property | Statement |
|---|---|---|
| DmAvpGroup | `RoundTrip` | `get_avp` returns exactly what was appended, and addresses decode back to themselves. |
| DmAvpGroup | `DecodersAgree` | The pull decoder reads the same AVPs from every group the encoder builds, and ends exactly at its end. |
| DmAvpGroup | `GroupFits` | The AVPs stay inside the allocation. |
| DmAvpGroup | `MandatoryVisible` | A mandatory AVP is never hidden under a non-mandatory group at any depth. |
| DmPullDecode | `AvpsTileGroup` | The AVPs handed out tile the group. |
| DmPullDecode | `NoOverread` | No byte is read outside the received body. |
| DmPacketBuild | `RoundTrip` | A finalized packet decodes to what was put. |

### RadiusMib: the SNMP RADIUS scalar groups (`src/mand/snmp`)

mand serves two read-only scalar groups of the RADIUS MIBs to net-snmp.
`radiusAccServ_handler` serves subids 1..15 (RFC 2621) and
`radiusAuthClient_handler` serves subids 1..4 (RFC 2618). net-snmp hands a
handler the varbinds of one PDU that fall in its group, as a linked list.
The handler walks the list once and sets a value or an exception on each
varbind.

- **State.** `vbs` is the varbind list: its subid, type and value. Every
  varbind starts as `ASN_NULL`. `globs` records whether the
  `Accounting.Stats` table lookup succeeded. `phase` and `mode` are the
  agent's request.
- **Data.** A value read from the store is the name of the statistic it came
  from. That is all the property needs to tell values apart.
- **Actions.**
  - `Receive` is the agent. It builds a PDU of up to `MaxVarbinds` varbinds
    of one group, in either mode.
  - `radiusAccServ_handler` and `radiusAuthClient_handler` are the handlers.
    Each is one step: a fold of `Step` over the list. `AccServCase` and
    `AuthClientCase` are their switches. Each case says what it sets and
    whether it sets it on the current varbind (`request->requestvb`) or on
    the head of the list (`requests->requestvb`).
  - Modes other than GET only log.
  - `Respond` returns to idle.
- `OwnAnswers`: in a GET, every varbind carries the answer for its own name.

### DmRequestDecode: the first API's request functions (`dmmsg.c` 58-157)

The sender builds a request with `new_dm_request` and `build_dm_request`.
The receiver gets the bytes from the network in chunks of any size. It
starts with `dm_decode_request` on the first chunk, and then feeds
`dm_add_data` until `dm_decode_complete` returns true.

- **Offsets.** They count bytes from `&req->packet`. `talloc_size` allocates
  `sizeof(DM_REQUEST_INFO)` plus the packet length, so the packet occupies
  offsets `0 .. pkt_len-1`.
- **State.**
  - `mem` is that part of the allocation. Bytes not yet written hold one of
    `Junk`.
  - `avpptr` is `req->info.avpptr`.
  - `rest` holds the bytes not yet handed over.
  - `outside` counts bytes `memcpy` wrote past the allocation.
- **Arithmetic.** `Current` and `Remaining` are `dm_add_data`'s size_t
  expressions. Their wrap-arounds cancel, so integers give the exact result.
- `CopiesInBounds`: every byte is copied inside the allocation.

### Planned modules (later sittings)

1. **Allocation failure in `dm_generic_register_request`** (413-432). It
   frees the list head but leaves the pointer dangling. Every later use of
   the list is undefined behaviour, which needs a model of what freed talloc
   memory reads as.

## 3. Runs

| Run | Config | Expect | What it shows |
|---|---|---|---|
| `conn_faults` | `MCDmConnection_faults.cfg` | pass | With timeouts, resets, a refused connect, answers without an RC, duplicate answers and the application calling `dm_free_requests` at any point, every callback runs at most once and with its own answer. Requests reach the server in registration order, and an unwritten request always has the write event armed. |
| `conn_live` | `MCDmConnection_live.cfg` | pass | With a well-behaved server and the session commands, the read event is pending exactly while an answer is awaited or a feedback slot is filled (`AwaitedHasReadWatch`, `ReadArmedOnlyWhenExpecting`), and every registered request eventually gets its callback. Every firmware-update session eventually frees its feedback slot, even after FINISH packets with codes other than -1 (`SessionsRelease`). The run also checks that the system refines `RequestService`. |
| `write_error_drops` | `MCDmConnection_writefail.cfg` | violation | The write error exit frees the whole list but calls back only the request being written. The others vanish without an outcome. |
| `read_abort_strands` | `MCDmConnection_abort.cfg` | violation | A read timeout or protocol error leaves SHALL_READ requests in the list with no read event and no connection-error callback. They stay unresolved until a later request re-arms reading, and then a late answer is dispatched to them. |
| `facade_live` | `MCDmFacade_live.cfg` | pass | With a well-behaved server, four blocking calls each return, and each returns only after its own callback stored its rc. This holds even though the hop id wraps and reseeds to any value in between (MAX_INT = 3), because only one request is ever in flight. |
| `facade_stale_callback` | `MCDmFacade_stale.cfg` | violation | A read timeout ends the dispatch while the request is still listed. The blocking call returns `RC_ERR_CONNECTION`. The next call re-arms reading, and the old answer then runs `generic_answerHandler` on the returned call's stack frame. |
| `reassembler` | `MCDmReassembler.cfg` | pass | Streams of one to three packets (declared lengths 4 and 11, chunk size 8) arrive in every split. Each packet is handed to `readEvent` once, whole and in order (`Reassembled`). No byte is lost or moved by growth, reads and `memmove` (`NoBytesLost`). Everything is eventually delivered and the buffer freed (`AllDelivered`). |
| `avpgroup` | `MCDmAvpGroup.cfg` | pass | Two groups are built by every append function (including embedding each into the other, and copies through `insert_raw` and `dm_decode_avpgrp`), with realloc failures. Every live group round-trips through both decoders, fits its allocation, and keeps mandatory AVPs visible. |
| `pull_decode_overread` | `MCDmPullDecode_overread.cfg` | violation | A length field below 20 wraps the group size in `dm_init_packet`, and the first `dm_expect_avp` reads the AVP header from memory that was never received. |
| `packet_vendor` | `MCDmPacketBuild_vendor.cfg` | violation | A vendor AVP put with `dm_put_avp` has `avp_len` 2 short, so the pull decoder rejects it (or misreads its payload). |
| `snmp_ident` | `RadiusMib_ident.cfg` | violation | A GET of two objects of one RADIUS group, one of them the Ident object, is answered wrongly. The Ident value overwrites the first varbind, and the Ident varbind stays `ASN_NULL`. |
| `request_decode` | `MCDmRequestDecode.cfg` | violation | A request built by `new_dm_request` and `build_dm_request` is fed back in chunks. `dm_decode_request` puts the write pointer 20 bytes past the copied data, and the first `dm_add_data` writes past the allocation. `dm_decode_complete` computes the same wrong `remaining`, so it never returns true. |

**Bounds.**

- `MaxReqs = 3`: three requests are enough to have one being written, one
  awaited and one answered out of order.
- Packets are 2 chunks and `SndBuf = 2`, so writes can stall mid-packet and
  the write loop can finish one request and start the next in a single event.
- `MaxFeedback`:
  - 1 in the fault runs: one progress or duplicate packet;
  - 2 in `conn_live`: a firmware update can send both a PROGRESS and a
    non-final FINISH before its last FINISH.
- `MAX_INT = 4` with `RandSeeds = {1}` keeps ids distinct in the passing runs.
  In `MCDmConnection_hopwrap.cfg`, `MAX_INT = 3` and the reseed may return any value in
  `1..MAX_INT-1`, which is what `(float)rand()/RAND_MAX*(MAX_INT-1)+1` can
  produce.
- The liveness run uses SUBSCRIBE, UNSUBSCRIBE, FWUPDATE and ENDSESSION.
  FWUPDATE is the feature whose ending packet is conditional. PING,
  TRACEROUTE and PCAP end on a packet that always clears the slot, and PING
  is exercised in `conn_faults`. With PING and PCAP also included, the
  liveness check takes longer than 15 minutes. `conn_faults` keeps PING rather
  than FWUPDATE: with FWUPDATE it takes 154 s, so the malformed-FINISH path
  (hazard at dmconfig.c:1187) is not checked.

**Configurations kept beside the runs.**

- `MCDmConnection_hopwrap.cfg` (`MAX_INT = 3`, any reseed in
  `1..MAX_INT-1`): TLC violates `AnswerToItsRequest`. After `hopid` reaches
  MAX_INT, the reseed can return an id still in flight, and an answer is
  delivered to the wrong request. spec.md accepts the reseed's collision risk,
  so this is recorded as a hazard (dmconfig.c:402) and not as a run.
- `MCDmConnection_stale.cfg`: TLC violates `ReadBufferAllocated`. This is a
  code bug. writeEvent's error exit (dmconfig.c:911) frees `readCtx.req` but
  leaves `readCtx.bytes`. The next readEvent skips the grow branch and reads
  into the freed block. It shares the write error exit with
  `write_error_drops`, so it is kept as a configuration and not a run.
- `MCDmPullDecode.cfg` checks `TypeOK` and `AvpsTileGroup` over every body
  of up to four AVP-like words. It passes. It was a run until the request
  decoder's overflow took its slot. `avpgroup`'s `DecodersAgree` still walks
  every encoder-built group with `dm_expect_avp`.
- **request_decode:** request payloads of 0, 4 and 12 bytes, and every chunk
  split. The header-only request already overflows.
- In the reassembler, `Lens = {0, 8}` violates `Reassembled`. A declared length
  of 0 is stripped as 0 bytes, and the same packet is handed over on every
  call (hazard at dmconfig.c:235).

**Bounds of the reassembler.** The chunk size is 8. Two bare headers fill a
chunk exactly, which exercises the read loop's "buffer full, grow and read
again" path. An 11-byte packet spans two chunks. Up to three packets exercise
the strip-then-check path with a complete and with an incomplete successor.
Every arrival split is explored.

**Bounds of the codec runs.**

- **avpgroup:**
  - two groups;
  - code 300;
  - vendor ids 0 and 70000, the latter needing 3 bytes;
  - flag bytes 0 and 255, so masking matters;
  - payloads of 1 and 5 bytes, which are padded differently;
  - MaxBytes 28, so a group crosses the 32-byte block boundary with the
    16-byte header.
- **pull_decode (kept configuration `MCDmPullDecode.cfg`, which passes):**
  `Bodies` is every sequence of up to four words drawn from
  a set of words. The words are chosen so that AVP lengths below 8, below 12
  with the vendor flag, exact and overlong all occur. Length fields
  run from 4 to 36.
- **packet_vendor:**
  - payloads of 0, 1 and 2 bytes;
  - one nesting level;
  - MaxPos 64, so the block is reallocated across the 32-byte boundary.

  With only non-vendor AVPs and MaxPos 80, the same model also loses the AVP
  written at pos 52. The modulo in `dm_packet_ensure_space` reallocates the
  block to 32 bytes; that case is recorded as a hazard.

**Fairness (`reassembler`).** There is weak fairness on `Fire`, on both
calls and on arrival:

- libevent reports a readable socket;
- `readEvent` keeps calling until INCOMPLETE or NOTHING;
- the network delivers what was sent.

**Deadlock.** `CHECK_DEADLOCK FALSE` everywhere. The event loop really stops:
`event_base_dispatch` returns once no event is pending and the caller has
nothing more to register. The codec models stop too: a decode walk stops at
an error or at the end of its group, and a finalized packet takes no more
calls. The reassembler stops once the finite stream is delivered.

**Fairness (`conn_live` only).** There is weak fairness on the event loop as a
whole (connect, write and read events) and on the server's work (reading,
answering, and ending sessions with their final packet). libevent delivers every pending event whose
condition holds, and a well-behaved server answers. Every action is bounded,
so fairness on each group forces every enabled action of that group. The event
loop's enabling condition is written out as the handlers' guards, because each
handler takes a step whenever its guard holds. Registration, progress packets
and faults carry no fairness.

## 4. Not modelled

- `src/tools/crc.h` declares `fw_crc8/16/32` but the repository does not
  define them. Its only code is the three `APPEND_CRC*` macros, which store
  the complemented checksum in little-endian order. No state or control
  flow is left to model.
- net-snmp itself (agent, scalar-group helper) is the environment of
  `RadiusMib`, not a model.
- `tr069_cfgsessions.h`: `setCfgSessionStatus` runs the end-of-session work
  when an active status becomes INACTIVE. That work is five calls to
  functions that are not in the repository, and the new status is stored
  only afterwards. The only control is one guard, and the behaviour lies in
  the callees, so the file gives a model nothing to check.
- The argument marshalling of the `dm_register_*`, `dm_send_*` and
  `dm_decode_*` wrappers is modelled only through the request code they
  register.
- A failed realloc in `dm_avpgrp_add_raw`/`insert_raw` stores NULL through the
  caller's pointer and leaks the old group. `avpgroup` explores that path, but
  no run asserts the spec's rule that a failed append leaves the group as it
  was (hazard at dmmsg.c:232).
- Decoding of feedback payloads is modelled only where it changes state:
  whether the FINISH code is -1, and whether its first AVP decodes
  (`EndsSession`). Any other field that fails to decode becomes an error value
  passed to the callback (spec §7). Each `process_*` handler passes the fields
  it has decoded so far, as spec §4.7 requires.
- A feature's slot is one model slot, but the code has up to two callbacks
  per feature. For example, fwupdate has `progress_cb` and `finish_cb`.
  `readEvent`'s retire check looks only at the primary one, while each handler
  requires its own. A fwupdate registered with a NULL progress callback
  aborts the connection on the first PROGRESS packet. This is listed as a
  hazard.
- The connect loop of `dm_register_connect_callback` retries `connect()` at
  once on EAGAIN, with no delay and no bound. Whether it ends depends on the
  kernel and the server's accept rate, so `DmConnection` starts from the state
  after the loop. The spin is listed as a hazard (dmconfig.c:364).

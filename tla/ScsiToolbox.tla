---------------------------- MODULE ScsiToolbox ----------------------------
(***************************************************************************)
(* The BlueSCSI Toolbox round trip of a SCSI target (rtl/scsi.v): file     *)
(* transfers between the Mac and the HPS that are longer than the buffer   *)
(* which carries them.                                                     *)
(*                                                                         *)
(* A SEND collects its payload through a ring of sectors (slots 1 ..       *)
(* TB_MAXSEC - 1) while finished sectors are shipped to the HPS as LBA 1,  *)
(* 2, ...; slot 0, which holds the CDB, is shipped last as LBA 0 and makes *)
(* the HPS run the command.  Then the status block is read back from LBA   *)
(* 0.  A GET fetches its response from LBA 1, 2, ... through the whole     *)
(* ring while the Mac is served from it.                                   *)
(*                                                                         *)
(* The HPS polls the request lines when it likes, transfers one block with *)
(* tb_ack high and lets go.  Its side is the bench's mirror of it          *)
(* (verilator/scsi_bench/scsi_bench.cpp, TbHps and Hps): a poll takes the  *)
(* live LBA, and tail blocks of an earlier chunk are never cleared.        *)
(*                                                                         *)
(* A sector is BLOCK units of data; a unit is the triple <<kind, command,  *)
(* index>> that says what was stored there.  The watchdogs may fire in     *)
(* any clock.  A retry budget runs out only on a request the HPS has not   *)
(* polled: a transfer it has taken is over long before (4.2 s).            *)
(***************************************************************************)
EXTENDS Integers, FiniteSets

CONSTANTS
  TB_MAXSEC,           \* sectors of the ring
  BLOCK,               \* units of a sector
  HEAD,                \* units before the payload of a request block (16 bytes)
  AHEAD,               \* units a longword read takes beyond the current one
  TB_SEC_MAX,          \* sectors a response may span
  TB_RETRY_MAX,        \* looks at the status block
  TB_STALL_RETRY_MAX,  \* re-arms of a sector transfer
  Lens,                \* lengths of the responses, in units
  Chunks,              \* values of CDB[6] of a SEND DATA: blocks, 0 = legacy
  MaxCmds,             \* commands of a behaviour
  LateStatus,          \* the status budget may run out on an unpolled request
  MixedChunks          \* an upload may mix chunks of one block and of several

ASSUME ToolboxAssumption ==
  /\ {TB_MAXSEC, BLOCK, HEAD, AHEAD, TB_SEC_MAX, MaxCmds} \subseteq Nat
  /\ TB_MAXSEC >= 3 /\ HEAD >= 1 /\ HEAD + 1 < BLOCK /\ AHEAD < BLOCK
  /\ TB_SEC_MAX >= 1
  /\ {TB_RETRY_MAX, TB_STALL_RETRY_MAX} \subseteq Nat
  /\ Lens \subseteq Nat /\ Chunks \subseteq 0 .. TB_SEC_MAX
  /\ {LateStatus, MixedChunks} \subseteq BOOLEAN

VARIABLES
  phase, status, data_cnt,              \* the target's phase FSM
  cmd,                                  \* the command block it received
  tb_state, tb_rd_r, tb_wr_r, tb_lba_r, tb_fetch_sec, tb_retry,
  tb_status, tb_len, tb_sec_done, tb_fetch_busy, tb_get_fault,
  tb_col_slot, tb_col_lba, tb_ship_done, tb_ship_slot, tb_send_fault,
  tb_send_pos,
  tb_buf,                               \* the ring
  hps,                                  \* the HPS: what it is doing, for which request
  handler,                              \* Main has the Toolbox handler
  tail, upload, upload_open, answer,    \* the handler's files and its answer
  client                                \* the Mac's side of an upload

host  == <<phase, status, data_cnt, cmd, client>>
lines == <<tb_rd_r, tb_wr_r, tb_lba_r, tb_fetch_sec, tb_retry>>
get   == <<tb_status, tb_len, tb_sec_done, tb_fetch_busy, tb_get_fault>>
send  == <<tb_col_slot, tb_col_lba, tb_ship_done, tb_ship_slot, tb_send_fault>>
files == <<handler, tail, upload, upload_open, answer>>
vars  == <<host, tb_state, lines, get, send, tb_send_pos, tb_buf, hps, files>>

GOOD  == "good"
CHECK == "check"

Unit    == 0 .. BLOCK - 1
Slot    == 0 .. TB_MAXSEC - 1
Nothing == <<"none", 0, 0>>
Empty   == [u \in Unit |-> Nothing]

Most(S) == CHOOSE x \in S : \A y \in S : y <= x
Least(a, b) == IF a < b THEN a ELSE b

MaxLen  == Most(Lens \cup {1})
TailMax == Most(Chunks \cup {1})          \* the last sector a chunk reaches
FileMax == MaxCmds * TailMax              \* blocks of an upload

Kinds == {"none", "cdb", "pay", "resp", GOOD, CHECK}
Cell  == Kinds \X (0 .. MaxCmds) \X (0 .. Most({MaxLen, FileMax, TailMax * BLOCK}))
Block == [Unit -> Cell]
Ops   == {"prep", "data", "end", "get"}

\* Fault: the ring does not wrap.
FaultNextSlot(s) == s + 1

\* The next slot of the payload ring; slot 0 is the request block's.
NextSlot(s) == IF s >= TB_MAXSEC - 1 THEN 1 ELSE s + 1

tb_ack == hps.st \in {"ack", "moved"}

\* tb_send_len and data_len: a legacy chunk is one block, and a name one unit.
data_len == IF cmd.op = "prep" THEN 1
            ELSE IF cmd.blocks = 0 THEN BLOCK
            ELSE Least(cmd.blocks, TB_SEC_MAX) * BLOCK

\* What the handler writes of a chunk: CDB[6] blocks, or the legacy count.
Valid(c) == IF c.blocks = 0 THEN c.n ELSE c.blocks * BLOCK

tb_srv_len == Least(tb_len, TB_SEC_MAX * BLOCK)
tb_nsec == IF tb_len = 0 THEN 1
           ELSE Least((tb_len + BLOCK - 1) \div BLOCK, TB_SEC_MAX)

tb_col_lin == data_cnt + HEAD
tb_collect == phase = "DATA_IN"

\* Fault: the collect may run a whole ring ahead.
Faulttb_col_stall == tb_collect /\ tb_col_lba - tb_ship_done > TB_MAXSEC

\* The collect is about to reuse a slot that has not been shipped.
tb_col_stall == tb_collect /\ tb_col_lba - tb_ship_done >= TB_MAXSEC - 1

tb_ship_pending == tb_col_lba # 0 /\ tb_ship_done < tb_col_lba - 1

SecOf(b) == b \div BLOCK

\* Fault: the look-ahead of a longword is not waited for.
Faulttb_get_stall == SecOf(data_cnt) >= tb_sec_done

\* The unit being served, or the ones a longword takes with it, are not here.
tb_get_stall ==
  \/ SecOf(data_cnt) >= tb_sec_done
  \/ SecOf(data_cnt + AHEAD) < tb_nsec /\ SecOf(data_cnt + AHEAD) >= tb_sec_done

-----------------------------------------------------------------------------
(* The Mac *)

\* sent: the units of the payload the target has taken from the Mac.
NoClient == [open |-> FALSE, chunks |-> 0, pos |-> 0, sent |-> 0, kept |-> {}]

Idle == phase = "IDLE" /\ tb_state = "IDLE" /\ cmd.id < MaxCmds

\* The official client numbers its chunks: CDB[3..5] counts chunks, not blocks.
Select(op, n, blocks) ==
  /\ cmd' = [id |-> cmd.id + 1, op |-> op, n |-> n, blocks |-> blocks,
             index |-> client.chunks, pos |-> client.pos]
  /\ phase' = IF op \in {"prep", "data"} THEN "DATA_IN" ELSE "TB"
  /\ UNCHANGED <<status, data_cnt, client, tb_state, lines, get, send,
                 tb_send_pos, tb_buf, hps, files>>

GetFile     == Idle /\ \E n \in Lens : Select("get", n, 0)
SendPrep    == Idle /\ ~client.open /\ Select("prep", 0, 0)
SendEnd     == Idle /\ client.open /\ client.chunks > 0 /\ Select("end", 0, 0)

\* An upload keeps to one size class of chunk unless MixedChunks.
SameClass(blocks) ==
  client.chunks > 0 => (blocks > 1) = (\A c \in client.kept : c.blocks > 1)

SendData ==
  /\ Idle
  /\ client.open
  /\ \E blocks \in Chunks :
       /\ MixedChunks \/ SameClass(blocks)
       /\ \E n \in (IF blocks = 0 THEN 1 .. BLOCK ELSE {0}) :
            Select("data", n, blocks)

\* A unit of the payload: stored at its linear place in the ring.
PutUnit ==
  /\ tb_collect
  /\ tb_state \in {"COLL", "COLLW"}
  /\ data_cnt < data_len
  /\ ~tb_col_stall
  /\ tb_buf' = [tb_buf EXCEPT ![tb_col_slot][tb_col_lin % BLOCK] =
                                <<"pay", cmd.id, data_cnt>>]
  /\ data_cnt' = data_cnt + 1
  /\ IF tb_col_lin % BLOCK = BLOCK - 1
     THEN /\ tb_col_slot' = NextSlot(tb_col_slot)
          /\ tb_col_lba' = tb_col_lba + 1
     ELSE UNCHANGED <<tb_col_slot, tb_col_lba>>
  /\ UNCHANGED <<phase, status, cmd, client, tb_state, lines, get,
                 tb_ship_done, tb_ship_slot, tb_send_fault, tb_send_pos, hps, files>>

\* The payload is over, or the Mac pauses for longer than the watchdog of a SEND
\* DATA (tb_out_stalled): a legacy client that sends its count and no more, or
\* any client inside a chunk.  The count is cleared a clock later, on which
\* TBS_COLL still sees it.
EndPayload ==
  /\ tb_collect
  /\ tb_state \in {"COLL", "COLLW"}
  /\ \/ data_cnt = data_len
     \/ cmd.op = "data" /\ ~tb_col_stall
  /\ phase' = "TB"
  /\ data_cnt' = IF tb_state = "COLL" /\ ~tb_ship_pending THEN data_cnt ELSE 0
  /\ client' = [client EXCEPT !.sent = data_cnt]
  /\ UNCHANGED <<status, cmd, tb_state, lines, get, send, tb_send_pos,
                 tb_buf, hps, files>>

\* Fault: the serve starts only when the whole response is in.
FaultHandoff ==
  /\ phase = "TB"
  /\ tb_state = "RDY"
  /\ status' = tb_status
  /\ phase' = IF tb_len # 0 THEN "DATA_OUT" ELSE "STATUS_OUT"
  /\ UNCHANGED <<data_cnt, cmd, client, tb_state, lines, get, send, tb_send_pos,
                 tb_buf, hps, files>>

\* The round trip is done: adopt its status, serve the response if there is one.
Handoff ==
  /\ phase = "TB"
  /\ tb_state \in {"RDY", "STREAM"}
  /\ status' = tb_status
  /\ phase' = IF tb_len # 0 THEN "DATA_OUT" ELSE "STATUS_OUT"
  /\ UNCHANGED <<data_cnt, cmd, client, tb_state, lines, get, send, tb_send_pos,
                 tb_buf, hps, files>>

\* The Mac takes a unit.
TakeUnit ==
  /\ phase = "DATA_OUT"
  /\ ~tb_get_fault
  /\ ~tb_get_stall
  /\ data_cnt < tb_srv_len
  /\ data_cnt' = data_cnt + 1
  /\ phase' = IF data_cnt' = tb_srv_len THEN "STATUS_OUT" ELSE phase
  /\ UNCHANGED <<status, cmd, client, tb_state, lines, get, send, tb_send_pos,
                 tb_buf, hps, files>>

\* Fault: the status latched at the handoff survives the abort.
FaultAbortServe ==
  /\ phase = "DATA_OUT"
  /\ tb_get_fault
  /\ phase' = "STATUS_OUT"
  /\ UNCHANGED <<status, data_cnt, cmd, client, tb_state, lines, get, send,
                 tb_send_pos, tb_buf, hps, files>>

\* tb_get_abort: the fetch was given up, the data phase is closed with CHECK.
AbortServe ==
  /\ phase = "DATA_OUT"
  /\ tb_get_fault
  /\ phase' = "STATUS_OUT"
  /\ status' = CHECK
  /\ UNCHANGED <<data_cnt, cmd, client, tb_state, lines, get, send, tb_send_pos,
                 tb_buf, hps, files>>

\* What the client makes of the status: a CHECK ends its upload.
Concluded ==
  IF status # GOOD THEN NoClient
  ELSE IF cmd.op = "prep" THEN [NoClient EXCEPT !.open = TRUE]
  ELSE IF cmd.op = "data"
       THEN [client EXCEPT !.chunks = @ + 1,
                           !.pos = @ + (data_len \div BLOCK),
                           !.sent = 0,
                           !.kept = @ \cup {[id |-> cmd.id, pos |-> cmd.pos,
                                             blocks |-> cmd.blocks, n |-> cmd.n,
                                             sent |-> client.sent]}]
  ELSE IF cmd.op = "end" THEN NoClient
  ELSE client

EndCommand ==
  /\ phase = "STATUS_OUT"
  /\ phase' = "IDLE"
  /\ data_cnt' = 0
  /\ client' = Concluded
  /\ UNCHANGED <<status, cmd, tb_state, lines, get, send, tb_send_pos, tb_buf,
                 hps, files>>

-----------------------------------------------------------------------------
(* The round-trip FSM *)

\* The line the FSM takes down on the first clock of tb_ack.
WrSeen == tb_ack /\ tb_wr_r /\ tb_state \in {"COLLW", "REQ"}
RdSeen == tb_ack /\ tb_rd_r /\ tb_state \in {"STAT", "DATA", "STREAM"}

Issue(rd, wr, lba, sec) ==
  tb_rd_r' = rd /\ tb_wr_r' = wr /\ tb_lba_r' = lba /\ tb_fetch_sec' = sec

\* TBS_IDLE: a round trip starts, or a payload for which the ring is armed.
Arm ==
  /\ tb_state = "IDLE"
  /\ phase \in {"TB", "DATA_IN"}
  /\ tb_state' = IF phase = "TB" THEN "LOAD" ELSE "COLL"
  /\ tb_fetch_sec' = 0 /\ tb_retry' = 0 /\ tb_get_fault' = FALSE
  /\ IF phase = "DATA_IN"
     THEN /\ tb_col_slot' = 0 /\ tb_col_lba' = 0
          /\ tb_ship_done' = 0 /\ tb_ship_slot' = 1
          /\ tb_send_fault' = FALSE
     ELSE UNCHANGED send
  /\ UNCHANGED <<host, tb_rd_r, tb_wr_r, tb_lba_r, tb_status, tb_len, tb_sec_done,
                 tb_fetch_busy, tb_send_pos, tb_buf, hps, files>>

\* TBS_COLL: the oldest finished sector goes out, in order.
ShipNext ==
  /\ tb_state = "COLL"
  /\ tb_ship_pending
  /\ Issue(tb_rd_r, TRUE, tb_ship_done + 1, tb_ship_slot)
  /\ tb_retry' = 0
  /\ tb_state' = "COLLW"
  /\ UNCHANGED <<host, get, send, tb_send_pos, tb_buf, hps, files>>

\* TBS_COLL after the payload: the short last sector, then the CDB block.
ShipLast ==
  /\ tb_state = "COLL"
  /\ ~tb_ship_pending
  /\ phase = "TB"
  /\ IF tb_col_lba # 0 /\ tb_col_lin % BLOCK # 0
     THEN /\ Issue(tb_rd_r, TRUE, tb_col_lba, tb_col_slot)
          /\ tb_retry' = 0
          /\ tb_col_lba' = 0
          /\ tb_state' = "COLLW"
     ELSE /\ tb_fetch_sec' = 0
          /\ tb_state' = "LOAD"
          /\ UNCHANGED <<tb_rd_r, tb_wr_r, tb_lba_r, tb_retry, tb_col_lba>>
  /\ data_cnt' = 0
  /\ UNCHANGED <<phase, status, cmd, client, get, tb_col_slot, tb_ship_done,
                 tb_ship_slot, tb_send_fault, tb_send_pos, tb_buf, hps, files>>

\* Fault: a sector given up is not remembered.
FaultShipped(fault) ==
  /\ tb_ship_done' = tb_ship_done + 1
  /\ tb_ship_slot' = NextSlot(tb_ship_slot)
  /\ tb_send_fault' = tb_send_fault
  /\ tb_state' = "COLL"

\* TBS_COLLW: the sector counts as shipped, fault or not.
Shipped(fault) ==
  /\ tb_ship_done' = tb_ship_done + 1
  /\ tb_ship_slot' = NextSlot(tb_ship_slot)
  /\ tb_send_fault' = (tb_send_fault \/ fault)
  /\ tb_state' = "COLL"

\* The watchdog of a sector transfer: the same request again, with its slot
\* and LBA, unless a transfer is in flight.
Rearm ==
  /\ tb_state \in {"COLLW", "DATA", "STREAM"}
  /\ tb_state = "STREAM" => tb_fetch_busy
  /\ tb_retry < TB_STALL_RETRY_MAX
  /\ tb_retry' = tb_retry + 1
  /\ tb_wr_r' = (tb_wr_r \/ (tb_state = "COLLW" /\ ~tb_ack))
  /\ tb_rd_r' = (tb_rd_r \/ (tb_state # "COLLW" /\ ~tb_ack))
  /\ UNCHANGED <<host, tb_state, tb_lba_r, tb_fetch_sec, get, send, tb_send_pos,
                 tb_buf, hps, files>>

Unpolled == tb_retry = TB_STALL_RETRY_MAX /\ hps.st = "idle"

\* TBS_COLLW gives up a sector: the chunk will report CHECK.
ShipGiveUp ==
  /\ tb_state = "COLLW"
  /\ Unpolled
  /\ Shipped(TRUE)
  /\ tb_wr_r' = FALSE
  /\ UNCHANGED <<host, tb_rd_r, tb_lba_r, tb_fetch_sec, tb_retry, get, tb_col_slot,
                 tb_col_lba, tb_send_pos, tb_buf, hps, files>>

\* tb_send_fixoff: the offset of a chunk of several blocks is replaced by the
\* core's own running position.
Offset == IF cmd.op = "data" /\ cmd.blocks > 1 THEN tb_send_pos ELSE cmd.index

\* TBS_LOAD: the CDB is written over the head of slot 0 and requested.
Load ==
  /\ tb_state = "LOAD"
  /\ tb_buf' = [tb_buf EXCEPT ![0] =
                  [u \in Unit |-> IF u < HEAD THEN <<"cdb", cmd.id, Offset>> ELSE @[u]]]
  /\ tb_send_pos' = CASE cmd.op = "prep" -> 0
                       [] cmd.op = "data" -> tb_send_pos + data_len \div BLOCK
                       [] OTHER -> tb_send_pos
  /\ Issue(tb_rd_r, TRUE, 0, 0)
  /\ tb_state' = "REQ"
  /\ UNCHANGED <<host, tb_retry, get, send, hps, files>>

\* The signature 0xB5 beside the status.
Signed(word) == word[1] \in {GOOD, CHECK}

\* TBS_LATCH, a few clocks after TBS_STAT: the status block if its signature
\* is there, else another look, else CHECK.
Look ==
  LET word == tb_buf[0][0] IN
  \/ /\ Signed(word)
     /\ tb_status' = IF tb_send_fault THEN CHECK ELSE word[1]
     /\ tb_len' = word[3]
     /\ tb_state' = "LATCH2"
     /\ UNCHANGED lines
  \/ /\ ~Signed(word)
     /\ tb_retry < TB_RETRY_MAX
     /\ tb_retry' = tb_retry + 1
     /\ Issue(TRUE, tb_wr_r, 0, tb_fetch_sec)
     /\ tb_state' = "STAT"
     /\ UNCHANGED <<tb_status, tb_len>>
  \/ /\ ~Signed(word)
     /\ tb_retry = TB_RETRY_MAX
     /\ tb_status' = CHECK
     /\ tb_len' = 0
     /\ tb_state' = "RDY"
     /\ UNCHANGED lines

\* The watchdog of TBS_STAT forces a look.  Unless LateStatus, the HPS polls
\* the status read before the last one.
StatTimeout ==
  /\ tb_state = "STAT"
  /\ ~RdSeen
  /\ \/ Signed(tb_buf[0][0])
     \/ tb_retry < TB_RETRY_MAX
     \/ LateStatus /\ hps.st = "idle"
  /\ Look
  /\ UNCHANGED <<host, tb_sec_done, tb_fetch_busy, tb_get_fault, send, tb_send_pos,
                 tb_buf, hps, files>>

\* Fault: the fetch is armed into a live ack.
FaultLatch2 ==
  /\ tb_state = "LATCH2"
  /\ IF tb_len # 0
     THEN /\ Issue(TRUE, tb_wr_r, 1, 0)
          /\ tb_sec_done' = 0 /\ tb_fetch_busy' = TRUE /\ tb_retry' = 0
          /\ tb_state' = "DATA"
     ELSE /\ tb_state' = "RDY"
          /\ UNCHANGED <<lines, tb_sec_done, tb_fetch_busy>>
  /\ UNCHANGED <<host, tb_status, tb_len, tb_get_fault, send, tb_send_pos, tb_buf,
                 hps, files>>

\* TBS_LATCH2: with the line quiet, fetch the response or finish.
Latch2 ==
  /\ tb_state = "LATCH2"
  /\ ~tb_ack
  /\ IF tb_len # 0
     THEN /\ Issue(TRUE, tb_wr_r, 1, 0)
          /\ tb_sec_done' = 0 /\ tb_fetch_busy' = TRUE /\ tb_retry' = 0
          /\ tb_state' = "DATA"
     ELSE /\ tb_state' = "RDY"
          /\ UNCHANGED <<lines, tb_sec_done, tb_fetch_busy>>
  /\ UNCHANGED <<host, tb_status, tb_len, tb_get_fault, send, tb_send_pos, tb_buf,
                 hps, files>>

LastSector == tb_fetch_sec + 1 >= tb_nsec

\* A fetched sector is resident.  TBS_DATA asks for the next one at once.
SectorIn ==
  /\ tb_sec_done' = tb_sec_done + 1
  /\ tb_retry' = 0
  /\ tb_state' = IF LastSector THEN "RDY" ELSE "STREAM"
  /\ tb_fetch_busy' = (tb_state = "DATA" /\ ~LastSector)
  /\ IF tb_state = "DATA" /\ ~LastSector
     THEN Issue(TRUE, tb_wr_r, tb_lba_r + 1, tb_fetch_sec + 1)
     ELSE UNCHANGED <<tb_rd_r, tb_wr_r, tb_lba_r, tb_fetch_sec>>

\* TBS_STREAM: fetch on, never into a slot the Mac is still to be served from.
FetchNext ==
  /\ tb_state = "STREAM"
  /\ ~tb_fetch_busy
  /\ ~LastSector
  /\ ~tb_ack
  /\ tb_fetch_sec + 1 < SecOf(data_cnt) + TB_MAXSEC
  /\ Issue(TRUE, tb_wr_r, tb_lba_r + 1, tb_fetch_sec + 1)
  /\ tb_fetch_busy' = TRUE
  /\ UNCHANGED <<host, tb_state, tb_retry, tb_status, tb_len, tb_sec_done,
                 tb_get_fault, send, tb_send_pos, tb_buf, hps, files>>

\* A fetch is given up: before the serve as a bare CHECK, in it as a fault.
FetchGiveUp ==
  /\ tb_state \in {"DATA", "STREAM"}
  /\ tb_fetch_busy
  /\ Unpolled
  /\ IF tb_state = "DATA"
     THEN tb_status' = CHECK /\ tb_len' = 0 /\ UNCHANGED tb_get_fault
     ELSE tb_get_fault' = TRUE /\ UNCHANGED <<tb_status, tb_len>>
  /\ tb_rd_r' = FALSE
  /\ tb_fetch_busy' = FALSE
  /\ tb_state' = "RDY"
  /\ UNCHANGED <<host, tb_wr_r, tb_lba_r, tb_fetch_sec, tb_retry, tb_sec_done, send,
                 tb_send_pos, tb_buf, hps, files>>

\* TBS_RDY: the phase FSM has left PHASE_TB (and seen the fault).
Retire ==
  /\ tb_state = "RDY"
  /\ phase # "TB"
  /\ ~(phase = "DATA_OUT" /\ tb_get_fault)
  /\ tb_state' = "IDLE"
  /\ UNCHANGED <<host, lines, get, send, tb_send_pos, tb_buf, hps, files>>

\* A bus reset.  tb_send_pos and the buffer survive it.
BusReset ==
  /\ phase # "IDLE"
  /\ hps.st = "idle"
  /\ phase' = "IDLE" /\ data_cnt' = 0
  /\ client' = NoClient
  /\ tb_state' = "IDLE"
  /\ Issue(FALSE, FALSE, 0, 0) /\ tb_retry' = 0
  /\ tb_status' = CHECK /\ tb_len' = 0 /\ tb_sec_done' = 0
  /\ tb_fetch_busy' = FALSE /\ tb_get_fault' = FALSE
  /\ tb_col_slot' = 0 /\ tb_col_lba' = 0 /\ tb_ship_done' = 0
  /\ tb_ship_slot' = 1 /\ tb_send_fault' = FALSE
  /\ UNCHANGED <<status, cmd, tb_send_pos, tb_buf, hps, files>>

-----------------------------------------------------------------------------
(* The HPS *)

HpsIdle == [st |-> "idle", wr |-> FALSE, lba |-> 0]

\* The poll takes the live request, a write before a read.
Poll ==
  /\ hps.st = "idle"
  /\ tb_wr_r \/ tb_rd_r
  /\ hps' = [st |-> "taken", wr |-> tb_wr_r, lba |-> tb_lba_r]
  /\ UNCHANGED <<host, tb_state, lines, get, send, tb_send_pos, tb_buf, files>>

Raise ==
  /\ hps.st = "taken"
  /\ hps' = [hps EXCEPT !.st = "ack"]
  /\ UNCHANGED <<host, tb_state, lines, get, send, tb_send_pos, tb_buf, files>>

\* It does so before a word is transferred or the ack falls.
ClearLine ==
  /\ WrSeen \/ RdSeen
  /\ tb_wr_r' = (tb_wr_r /\ ~WrSeen)
  /\ tb_rd_r' = (tb_rd_r /\ ~RdSeen)
  /\ UNCHANGED <<host, tb_state, tb_lba_r, tb_fetch_sec, tb_retry, get, send,
                 tb_send_pos, tb_buf, hps, files>>

\* op_send_data: the head of the block and the tails, blind, at the offset.
Chunk(blk) ==
  [u \in 0 .. Valid(cmd) - 1 |->
     LET l == u + HEAD IN
     IF l < BLOCK THEN blk[l] ELSE tail[SecOf(l)][l % BLOCK]]

Stored(blk, off) ==
  [b \in DOMAIN upload |->
     [u \in Unit |-> LET k == (b - off) * BLOCK + u IN
                     IF k \in DOMAIN Chunk(blk) THEN Chunk(blk)[k] ELSE upload[b][u]]]

Answer(st, len) == answer' = [st |-> st, id |-> cmd.id, len |-> len]

\* request at LBA 0: run the command of the block.
Run(blk) ==
  LET cdb == blk[0] IN
  IF cdb[1] # "cdb" \/ cdb[2] # cmd.id
  THEN Answer(CHECK, 0) /\ UNCHANGED <<upload, upload_open>>
  ELSE CASE cmd.op = "get" ->
              Answer(GOOD, cmd.n) /\ UNCHANGED <<upload, upload_open>>
         [] cmd.op = "prep" ->
              /\ Answer(GOOD, 0)
              /\ upload' = [b \in DOMAIN upload |-> Empty]
              /\ upload_open' = TRUE
         [] cmd.op = "data" ->
              /\ Answer(IF upload_open THEN GOOD ELSE CHECK, 0)
              /\ upload' = IF upload_open THEN Stored(blk, cdb[3]) ELSE upload
              /\ UNCHANGED upload_open
         [] cmd.op = "end" ->
              /\ Answer(IF upload_open THEN GOOD ELSE CHECK, 0)
              /\ upload_open' = FALSE
              /\ UNCHANGED upload

\* A block from the core: a tail block is kept, the CDB block runs.
TakeBlock ==
  /\ hps.st = "ack" /\ hps.wr
  /\ ~WrSeen
  /\ LET blk == tb_buf[tb_fetch_sec % TB_MAXSEC] IN
     IF hps.lba # 0
     THEN tail' = [tail EXCEPT ![hps.lba] = blk] /\ UNCHANGED <<upload, upload_open, answer>>
     ELSE Run(blk) /\ UNCHANGED tail
  /\ hps' = [hps EXCEPT !.st = "moved"]
  /\ UNCHANGED <<host, tb_state, lines, get, send, tb_send_pos, tb_buf, handler>>

\* fill: the status block, or a sector of the response with zeros behind it.
Fill(lba) ==
  [u \in Unit |->
     IF lba = 0
     THEN IF u = 0 /\ handler THEN <<answer.st, answer.id, answer.len>> ELSE Nothing
     ELSE LET k == (lba - 1) * BLOCK + u IN
          IF k < answer.len THEN <<"resp", answer.id, k>> ELSE Nothing]

GiveBlock ==
  /\ hps.st = "ack" /\ ~hps.wr
  /\ ~RdSeen
  /\ tb_buf' = [tb_buf EXCEPT ![tb_fetch_sec % TB_MAXSEC] = Fill(hps.lba)]
  /\ hps' = [hps EXCEPT !.st = "moved"]
  /\ UNCHANGED <<host, tb_state, lines, get, send, tb_send_pos, files>>

\* The ack falls: what the FSM makes of the edge depends on its state.
AckFall ==
  CASE tb_state = "COLLW" ->
         /\ Shipped(FALSE)
         /\ tb_retry' = 0
         /\ UNCHANGED <<tb_rd_r, tb_wr_r, tb_lba_r, tb_fetch_sec, get, tb_col_slot, tb_col_lba>>
    [] tb_state = "REQ" ->
         /\ Issue(TRUE, tb_wr_r, 0, tb_fetch_sec)
         /\ tb_state' = "STAT"
         /\ UNCHANGED <<tb_retry, get, send>>
    [] tb_state = "STAT" ->
         /\ Look
         /\ UNCHANGED <<tb_sec_done, tb_fetch_busy, tb_get_fault, send>>
    [] tb_state = "DATA" \/ (tb_state = "STREAM" /\ tb_fetch_busy) ->
         /\ SectorIn
         /\ UNCHANGED <<tb_status, tb_len, tb_get_fault, send>>
    [] OTHER -> UNCHANGED <<tb_state, lines, get, send>>

Drop ==
  /\ hps.st = "moved"
  /\ ~WrSeen /\ ~RdSeen
  /\ hps' = HpsIdle
  /\ AckFall
  /\ UNCHANGED <<host, tb_send_pos, tb_buf, files>>

-----------------------------------------------------------------------------
Init ==
  /\ phase = "IDLE" /\ status = GOOD /\ data_cnt = 0
  /\ cmd = [id |-> 0, op |-> "get", n |-> 0, blocks |-> 0, index |-> 0, pos |-> 0]
  /\ tb_state = "IDLE" /\ tb_rd_r = FALSE /\ tb_wr_r = FALSE /\ tb_lba_r = 0
  /\ tb_fetch_sec = 0 /\ tb_retry = 0
  /\ tb_status = CHECK /\ tb_len = 0 /\ tb_sec_done = 0
  /\ tb_fetch_busy = FALSE /\ tb_get_fault = FALSE
  /\ tb_col_slot = 0 /\ tb_col_lba = 0 /\ tb_ship_done = 0 /\ tb_ship_slot = 1
  /\ tb_send_fault = FALSE /\ tb_send_pos = 0
  /\ tb_buf = [s \in Slot |-> Empty]
  /\ hps = HpsIdle
  /\ handler \in BOOLEAN
  /\ tail = [k \in 1 .. TailMax |-> Empty]
  /\ upload = [b \in 0 .. FileMax |-> Empty]
  /\ upload_open = FALSE
  /\ answer = [st |-> CHECK, id |-> 0, len |-> 0]
  /\ client = NoClient

Mac == GetFile \/ SendPrep \/ SendData \/ SendEnd
Bus == PutUnit \/ EndPayload \/ Handoff \/ TakeUnit \/ AbortServe \/ EndCommand
Fsm == Arm \/ ShipNext \/ ShipLast \/ Load \/ Latch2 \/ FetchNext \/ Retire \/ ClearLine
Hps == Poll \/ Raise \/ TakeBlock \/ GiveBlock \/ Drop
Watchdog == Rearm \/ ShipGiveUp \/ FetchGiveUp \/ StatTimeout

Next == Mac \/ Bus \/ Fsm \/ Hps \/ Watchdog \/ BusReset

Spec == Init /\ [][Next]_vars

\* The clock runs, the Mac goes on with a transfer it has begun, and the HPS
\* comes back to its poll loop.
FairSpec == Spec /\ WF_vars(Bus) /\ WF_vars(Fsm) /\ WF_vars(Hps)

-----------------------------------------------------------------------------
(* Properties *)

\* Every register and every cell has a value of its type.
TypeOK ==
  /\ phase \in {"IDLE", "DATA_IN", "TB", "DATA_OUT", "STATUS_OUT"}
  /\ {status, tb_status, answer.st} \subseteq {GOOD, CHECK}
  /\ data_cnt \in 0 .. Most({MaxLen, TailMax * BLOCK, BLOCK})
  /\ cmd.id \in 0 .. MaxCmds /\ cmd.op \in Ops
  /\ tb_state \in {"IDLE", "COLL", "COLLW", "LOAD", "REQ", "STAT", "LATCH2", "DATA",
                   "STREAM", "RDY"}
  /\ {tb_rd_r, tb_wr_r, tb_fetch_busy, tb_get_fault, tb_send_fault, handler,
      upload_open, client.open} \subseteq BOOLEAN
  /\ tb_lba_r \in 0 .. TB_SEC_MAX
  /\ tb_fetch_sec \in 0 .. TB_SEC_MAX - 1
  /\ tb_retry \in 0 .. Most({TB_RETRY_MAX, TB_STALL_RETRY_MAX})
  /\ tb_len \in Nat /\ tb_sec_done \in 0 .. TB_SEC_MAX
  /\ tb_col_slot \in Slot /\ tb_ship_slot \in 1 .. TB_MAXSEC - 1
  /\ tb_col_lba \in 0 .. TailMax /\ tb_ship_done \in 0 .. TailMax
  /\ tb_send_pos \in Nat
  /\ tb_buf \in [Slot -> Block]
  /\ hps.st \in {"idle", "taken", "ack", "moved"} /\ hps.wr \in BOOLEAN
  /\ hps.lba \in 0 .. TB_SEC_MAX
  /\ tail \in [1 .. TailMax -> Block] /\ upload \in [0 .. FileMax -> Block]

\* The Mac is served the response to its own command, unit by unit, the units
\* of a longword included: never the ring slot's previous occupant.
ServedFresh ==
  phase = "DATA_OUT" /\ ~tb_get_fault /\ ~tb_get_stall =>
    \A j \in 0 .. AHEAD :
      data_cnt + j < tb_srv_len =>
        tb_buf[SecOf(data_cnt + j) % TB_MAXSEC][(data_cnt + j) % BLOCK]
          = <<"resp", cmd.id, data_cnt + j>>

\* The linear place of a sector's unit holds the payload unit that belongs there.
Holds(blk, sec) ==
  \A u \in Unit : blk[u] = <<"pay", cmd.id, sec * BLOCK + u - HEAD>>

\* A finished sector that has not been shipped is whole in the slot it will be
\* shipped from: the collect has not lapped it.
UnshippedKept ==
  tb_state \in {"COLL", "COLLW"} /\ phase = "DATA_IN" =>
    \A k \in tb_ship_done + 1 .. tb_col_lba - 1 :
      Holds(tb_buf[1 + ((k - 1) % (TB_MAXSEC - 1))], k)

\* The transfer the HPS has in hand is the one the FSM is waiting for, so an
\* ack edge is never counted for another request.
AckOwned ==
  hps.st # "idle" =>
    /\ hps.lba = tb_lba_r
    /\ hps.wr = (tb_state \in {"COLLW", "REQ"})
    /\ tb_state \in {"COLLW", "REQ", "STAT", "LATCH2", "DATA", "STREAM"}
    /\ tb_state = "STREAM" => tb_fetch_busy

\* Of a chunk the Mac was told is good, every unit the target took from the Mac
\* is in the file, where it belongs: the chunk is there whole unless the payload
\* watchdog closed it, and then as far as it got.
FileMatches ==
  \A c \in client.kept : \A u \in 0 .. Least(Valid(c), c.sent) - 1 :
    upload[c.pos + SecOf(u)][u % BLOCK] = <<"pay", c.id, u>>

\* A GET that ends GOOD has delivered the whole response, as far as the
\* protocol's limit goes.
GetWhole ==
  phase = "STATUS_OUT" /\ cmd.op = "get" /\ status = GOOD =>
    data_cnt = Least(cmd.n, TB_SEC_MAX * BLOCK)

\* Every command ends, whatever watchdogs fire.
CommandEnds == phase # "IDLE" ~> phase = "IDLE"
=============================================================================

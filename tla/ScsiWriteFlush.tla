--------------------------- MODULE ScsiWriteFlush ---------------------------
(***************************************************************************)
(* The WRITE data path of one disk target (rtl/scsi.v): the Mac fills one  *)
(* half of a double buffer by pseudo-DMA while the flush engine has the    *)
(* HPS read the other half out and write it to the image.                  *)
(*                                                                         *)
(* A step is one clock edge.  data_cnt is kept as blk = data_cnt[31:9] and *)
(* off = data_cnt[8:0], so data_cnt[9] is the parity of blk.  A byte in    *)
(* the buffer stands for the sector of the current command it belongs to;  *)
(* its offset is its place.                                                *)
(***************************************************************************)
EXTENDS Integers

CONSTANTS
  BLOCK,        \* bytes in a sector (512 in the RTL)
  LBAs,         \* block addresses a WRITE may carry
  TLens,        \* transfer lengths a WRITE may carry, in sectors
  Straddle      \* TRUE: a word may start at the last byte of a sector

ASSUME WriteAssumption ==
  /\ BLOCK \in Nat /\ BLOCK >= 2
  /\ LBAs \subseteq Nat /\ TLens \subseteq Nat
  /\ Straddle \in BOOLEAN

VARIABLES
  phase,
  cmd_lba,        \* the LBA field of the command block in cmd[]
  tlen,           \* latched transfer length
  lba,            \* LBA of the next flush, bumped per answered flush
  blk, off,       \* data_cnt, split at bit 9
  data_complete,
  beats,          \* ACK pulses left of the pseudo-DMA write under way
  io_wr,          \* the flush request
  wr_pending,     \* a block waits for its flush
  old_wr, old_io_ack,
  sd_buff_sel,    \* the half being flushed
  half,           \* the two halves: the sector each byte belongs to
  hps,            \* HPS channel: "idle", "busy" (request taken), "ack"
  hps_lba,        \* the address the HPS took with the request
  hps_pos,        \* bytes it has read out
  hps_data,       \* sectors the bytes it has read belong to
  image           \* sectors that came to stand at cmd_lba, cmd_lba + 1, ...

hostVars == <<phase, cmd_lba, tlen, blk, off, data_complete, beats, half>>
ioVars   == <<io_wr, wr_pending, old_wr, old_io_ack, sd_buff_sel, lba>>
hpsVars  == <<hps, hps_lba, hps_pos, hps_data, image>>
vars     == <<hostVars, ioVars, hpsVars>>

Offsets  == 0 .. BLOCK - 1
Blank(t) == [b \in 0 .. t - 1 |-> {}]
Stale    == -1       \* a byte of an earlier command
Counting == {"DATA_IN", "STATUS_OUT", "MESSAGE_OUT"}  \* data_cnt is kept

-----------------------------------------------------------------------------
(* Wires *)

\* ncr5380.sv masks a disk's ack with its BSY.
IoAck   == hps = "ack" /\ phase # "IDLE"
AckFall == old_io_ack /\ ~IoAck

\* Fault: a flush the HPS is reading out does not count.
flush_busy_unacked == io_wr \/ wr_pending

\* Fault: the level that asks for a flush counts, not the latched request.
flush_busy_level == io_wr \/ old_wr \/ IoAck

flush_busy == io_wr \/ wr_pending \/ IoAck

\* Fault: only the data phase waits for a flush.
io_busy_data == flush_busy /\ phase = "DATA_IN" /\ blk % 2 = sd_buff_sel

io_busy == /\ flush_busy
           /\ phase = "DATA_IN" => blk % 2 = sd_buff_sel

data_done == data_complete \/ tlen = 0

req == /\ phase # "IDLE"
       /\ ~io_busy
       /\ ~(phase = "DATA_IN" /\ data_done)

\* Fault: the first byte of a sector counts as the end of one.
req_wr_first == /\ (phase = "DATA_IN" /\ off = 0) \/ phase = "STATUS_OUT"
                /\ tlen # 0

\* A sector is complete, or the data phase is over.
req_wr == /\ (phase = "DATA_IN" /\ off = 0 /\ blk # 0) \/ phase = "STATUS_OUT"
          /\ tlen # 0

-----------------------------------------------------------------------------
(* Registers updated on every clock edge *)

\* The issue of a flush is the last assignment of its block and wins over a
\* new block's edge.
FlushEngine(rst) ==
  LET issue == ~IoAck /\ wr_pending /\ ~io_wr
  IN /\ old_wr' = (~rst /\ req_wr)
     /\ wr_pending' = (~rst /\ ~issue /\ ((~old_wr /\ req_wr) \/ wr_pending))
     /\ io_wr' = (~rst /\ ~IoAck /\ (issue \/ io_wr))

BufferSelect ==
  /\ old_io_ack' = IoAck
  /\ sd_buff_sel' = IF phase = "IDLE" THEN 0
                    ELSE IF AckFall THEN 1 - sd_buff_sel ELSE sd_buff_sel

\* Fault: the flush address stands still.
LbaHold == lba' = lba

LbaCounter == lba' = IF AckFall THEN lba + 1 ELSE lba

\* The HPS takes a request with the address presented with it, raises ack,
\* reads the selected half byte by byte, drops ack and writes the sector.
HpsRest == UNCHANGED hpsVars
HpsTake == /\ hps = "idle" /\ io_wr
           /\ hps' = "busy" /\ hps_lba' = lba
           /\ hps_pos' = 0 /\ hps_data' = {}
           /\ UNCHANGED image
HpsRise == /\ hps = "busy" /\ hps' = "ack"
           /\ UNCHANGED <<hps_lba, hps_pos, hps_data, image>>
HpsRead == /\ hps = "ack" /\ hps_pos < BLOCK
           /\ hps_data' = hps_data \cup {half[sd_buff_sel][hps_pos]}
           /\ hps_pos' = hps_pos + 1
           /\ UNCHANGED <<hps, hps_lba, image>>
HpsFall == /\ hps = "ack" /\ hps_pos = BLOCK
           /\ hps' = "idle"
           /\ image' = [b \in 0 .. tlen - 1 |->
                          IF cmd_lba + b = hps_lba THEN hps_data ELSE image[b]]
           /\ UNCHANGED <<hps_lba, hps_pos, hps_data>>
HpsMove == HpsTake \/ HpsRise \/ HpsRead \/ HpsFall

\* Everything but the host's registers and lba, which a command reloads.
Clock(rst) == FlushEngine(rst) /\ BufferSelect /\ (HpsRest \/ HpsMove)

\* data_cnt while no byte is handshaken.
DataRest ==
  IF phase \in Counting
  THEN UNCHANGED <<blk, off, data_complete>>
  ELSE blk' = 0 /\ off' = 0 /\ data_complete' = FALSE

\* Fault: the offset runs past its sector.
NextOffNoWrap == off + 1

\* data_cnt when a byte is handshaken.
NextBlk == IF off + 1 = BLOCK THEN blk + 1 ELSE blk
NextOff == IF off + 1 = BLOCK THEN 0 ELSE off + 1
DataAdvance ==
  /\ blk' = IF data_complete THEN blk ELSE NextBlk
  /\ off' = IF data_complete THEN off ELSE NextOff
  /\ data_complete' = (NextBlk = tlen /\ NextOff = 0)

-----------------------------------------------------------------------------
(* Host operations *)

\* Nothing handshaken on this edge.
Wait ==
  /\ ~(phase = "DATA_IN" /\ data_done)
  /\ DataRest
  /\ LbaCounter
  /\ Clock(FALSE)
  /\ UNCHANGED <<phase, cmd_lba, tlen, beats, half>>

\* Selection, after the HPS has answered a flush that a reset aborted.
Select ==
  /\ phase = "IDLE"
  /\ hps = "idle"
  /\ phase' = "CMD_IN"
  /\ DataRest
  /\ LbaCounter
  /\ Clock(FALSE)
  /\ UNCHANGED <<cmd_lba, tlen, beats, half>>

\* The last byte of a WRITE command arrives.  What the buffer holds belongs
\* to earlier commands.
Command(l, t) ==
  /\ phase = "CMD_IN"
  /\ req
  /\ cmd_lba' = l /\ lba' = l /\ tlen' = t
  /\ phase' = "DATA_IN"
  /\ half' = [h \in {0, 1} |-> [o \in Offsets |-> Stale]]
  /\ image' = Blank(t)
  /\ DataRest
  /\ FlushEngine(FALSE) /\ BufferSelect
  /\ UNCHANGED <<beats, hps, hps_lba, hps_pos, hps_data>>

\* The Mac's pseudo-DMA write of n bytes is accepted: n ACK pulses follow,
\* whatever REQ does.  The driver stays inside the armed length.
Store(n) ==
  /\ phase = "DATA_IN" /\ beats = 0
  /\ req
  /\ blk + 1 < tlen \/ off + n <= BLOCK
  /\ Straddle \/ off + n <= BLOCK
  /\ beats' = n
  /\ DataRest
  /\ LbaCounter
  /\ Clock(FALSE)
  /\ UNCHANGED <<phase, cmd_lba, tlen, half>>

\* One of its ACK pulses: the byte is stored, then data_cnt advances.
Beat ==
  /\ beats > 0
  /\ beats' = beats - 1
  /\ half' = [half EXCEPT ![blk % 2][off] = blk]
  /\ DataAdvance
  /\ LbaCounter
  /\ Clock(FALSE)
  /\ UNCHANGED <<phase, cmd_lba, tlen>>

\* The data phase closes on the edge after its last byte.
EndData ==
  /\ phase = "DATA_IN"
  /\ data_done
  /\ phase' = "STATUS_OUT"
  /\ DataRest
  /\ LbaCounter
  /\ Clock(FALSE)
  /\ UNCHANGED <<cmd_lba, tlen, beats, half>>

\* The status byte, then the message byte, are handshaken.
LastBytes ==
  /\ phase \in {"STATUS_OUT", "MESSAGE_OUT"}
  /\ req
  /\ phase' = IF phase = "STATUS_OUT" THEN "MESSAGE_OUT" ELSE "IDLE"
  /\ DataAdvance
  /\ LbaCounter
  /\ Clock(FALSE)
  /\ UNCHANGED <<cmd_lba, tlen, beats, half>>

\* SCSI bus reset.
BusReset ==
  /\ phase' = "IDLE"
  /\ beats' = 0
  /\ DataRest
  /\ LbaCounter
  /\ Clock(TRUE)
  /\ UNCHANGED <<cmd_lba, tlen, half>>

Init ==
  /\ phase = "IDLE"
  /\ cmd_lba \in LBAs /\ lba = cmd_lba /\ tlen = 0
  /\ blk = 0 /\ off = 0 /\ data_complete = FALSE /\ beats = 0
  /\ io_wr = FALSE /\ wr_pending = FALSE /\ old_wr = FALSE
  /\ old_io_ack = FALSE /\ sd_buff_sel = 0
  /\ half = [h \in {0, 1} |-> [o \in Offsets |-> Stale]]
  /\ hps = "idle" /\ hps_lba = 0 /\ hps_pos = 0 /\ hps_data = {}
  /\ image = Blank(0)

Next ==
  \/ Wait
  \/ Select
  \/ \E l \in LBAs, t \in TLens : Command(l, t)
  \/ \E n \in {1, 2} : Store(n)
  \/ Beat
  \/ EndData
  \/ LastBytes
  \/ BusReset

Spec == Init /\ [][Next]_vars

(***************************************************************************)
(* Fairness.  The clock runs; the NCR 5380 finishes an accepted access;    *)
(* Main polls its request lines and finishes each transfer; the driver of  *)
(* an accepted WRITE keeps sending.                                        *)
(***************************************************************************)
Fairness ==
  /\ WF_vars(Wait)
  /\ WF_vars(Beat)
  /\ WF_vars(EndData)
  /\ WF_vars(LastBytes)
  /\ WF_vars(Next /\ <<hps, hps_pos>>' # <<hps, hps_pos>>)
  /\ SF_vars(Store(1))

FairSpec == Spec /\ Fairness

-----------------------------------------------------------------------------
(* Properties *)

\* Every register has a value of its type.
TypeOK ==
  /\ phase \in {"IDLE", "CMD_IN", "DATA_IN", "STATUS_OUT", "MESSAGE_OUT"}
  /\ cmd_lba \in Nat /\ lba \in Nat /\ tlen \in Nat
  /\ blk \in Nat /\ off \in Offsets /\ data_complete \in BOOLEAN
  /\ beats \in 0 .. 2
  /\ io_wr \in BOOLEAN /\ wr_pending \in BOOLEAN /\ old_wr \in BOOLEAN
  /\ old_io_ack \in BOOLEAN /\ sd_buff_sel \in {0, 1}
  /\ half \in [{0, 1} -> [Offsets -> Int]]
  /\ hps \in {"idle", "busy", "ack"} /\ hps_lba \in Nat
  /\ hps_pos \in 0 .. BLOCK /\ hps_data \in SUBSET Int
  /\ image \in [0 .. tlen - 1 -> SUBSET Int]

\* A good status is offered only when every sector of the WRITE stands in the
\* image at its own address, whole: no byte of a neighbour, none stale.
StatusMeansWritten ==
  (phase \in {"STATUS_OUT", "MESSAGE_OUT"} /\ req) =>
     \A b \in 0 .. tlen - 1 : image[b] = {b}

\* No torn or foreign sector ever reaches the image while the command runs:
\* the Mac never stores into a half the flush has not read out.
SectorsWhole ==
  phase \in Counting => \A b \in 0 .. tlen - 1 : image[b] \in {{}, {b}}

\* No flush outlives its command: the final ack never meets a dropped BSY.
FlushDrained ==
  phase \in {"IDLE", "CMD_IN"} => ~io_wr /\ ~wr_pending

\* An accepted WRITE always runs to the end of its message phase.
WriteCompletes == (phase = "DATA_IN") ~> (phase = "IDLE")

\* What the target promises the host: see WriteStream.  The transfer lasts
\* until the last flush is over.
Stream == INSTANCE WriteStream WITH
  state <- CASE phase = "DATA_IN" -> "xfer"
             [] phase = "STATUS_OUT" ->
                  IF flush_busy \/ old_io_ack THEN "xfer" ELSE "done"
             [] phase = "MESSAGE_OUT" -> "done"
             [] OTHER -> "idle",
  len   <- tlen,
  blk   <- IF phase = "DATA_IN" \/ (phase = "STATUS_OUT" /\ (flush_busy \/ old_io_ack))
           THEN blk ELSE 0,
  off   <- IF phase = "DATA_IN" THEN off ELSE 0,
  image <- IF phase \in Counting THEN image ELSE Blank(0)

\* The WRITE path implements the in-order, whole-sector stream: every sector
\* sent is persisted once, in its place, before the command is done.
ImplementsStream == Stream!Spec

-----------------------------------------------------------------------------
(* The inductive invariant behind the safety properties, for accesses that  *)
(* stay inside a sector.                                                    *)

Bit(p) == IF p THEN 1 ELSE 0

\* Sectors whose flush the target has counted, and those the image holds.
Flushed == lba - cmd_lba
Landed  == Flushed + Bit(old_io_ack /\ hps = "idle")

\* A complete sector the flush engine has not noticed yet.
NewBlock == req_wr /\ ~old_wr

\* The stages of the one outstanding flush: requested, being read out,
\* answered and not counted yet.
Flushing == io_wr \/ old_io_ack
FlushStage ==
  \/ ~io_wr /\ ~old_io_ack /\ hps = "idle"
  \/ io_wr /\ ~old_io_ack /\ (hps # "idle" => hps_lba = lba)
  \/ ~io_wr /\ old_io_ack /\ hps = "ack" /\ hps_lba = lba
  \/ ~io_wr /\ old_io_ack /\ hps = "idle"

\* Every complete sector is flushed, being flushed, waiting, or just noticed;
\* the host is inside a sector only if the other half alone is unflushed.
Accounts ==
  /\ Flushed \in Nat /\ sd_buff_sel = Flushed % 2
  /\ blk = Flushed + Bit(Flushing) + Bit(wr_pending) + Bit(NewBlock)
  /\ NewBlock => ~wr_pending /\ beats = 0
  /\ off > 0 \/ beats > 0 => blk < tlen /\ blk <= Landed + 1
  /\ wr_pending /\ ~io_wr /\ hps = "idle" =>
       off = 0 /\ (old_io_ack => beats = 0)
  /\ off + beats <= BLOCK
  /\ blk <= tlen
  /\ data_complete <=> (tlen # 0 /\ blk = tlen)

\* What the halves, the HPS and the image hold.
Contents ==
  /\ \A o \in 0 .. off - 1 : half[blk % 2][o] = blk
  /\ \A b \in Landed .. blk - 1 : \A o \in Offsets : half[b % 2][o] = b
  /\ hps = "busy" => hps_pos = 0 /\ hps_data = {}
  /\ hps = "ack" => hps_data = IF hps_pos = 0 THEN {} ELSE {Flushed}
  /\ \A b \in 0 .. tlen - 1 : image[b] = IF b < Landed THEN {b} ELSE {}

\* The inductive invariant of the WRITE path.
WriteInv ==
  /\ TypeOK
  /\ phase = "IDLE" => ~io_wr /\ ~wr_pending /\ beats = 0
  /\ phase = "CMD_IN" =>
       /\ ~io_wr /\ ~wr_pending /\ ~old_wr /\ ~old_io_ack /\ hps = "idle"
       /\ sd_buff_sel = 0 /\ beats = 0
       /\ blk = 0 /\ off = 0 /\ ~data_complete
  /\ phase \in {"DATA_IN", "STATUS_OUT"} => FlushStage /\ Accounts /\ Contents
  /\ phase = "STATUS_OUT" => blk = tlen /\ off = 0 /\ beats = 0 /\ (old_wr \/ tlen = 0)
  /\ phase = "MESSAGE_OUT" =>
       /\ ~io_wr /\ ~wr_pending /\ hps = "idle" /\ beats = 0
       /\ \A b \in 0 .. tlen - 1 : image[b] = {b}
=============================================================================

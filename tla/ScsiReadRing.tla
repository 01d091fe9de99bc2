---------------------------- MODULE ScsiReadRing ----------------------------
(***************************************************************************)
(* The READ data path of one SCSI target (rtl/scsi.v): the sector ring the *)
(* prefetch engine fills from the HPS (the ARM side of MiSTer) while the   *)
(* Mac drains it by pseudo-DMA, and, on the CD-ROM target, the CD-audio    *)
(* engine that borrows the same HPS channel between sector fetches.        *)
(*                                                                         *)
(* The RTL is synchronous: every always block updates its registers on the *)
(* same clock edge.  A step of this module is one clock edge.  Each host   *)
(* operation is an action; it is conjoined with Clock, which gives the     *)
(* next value of every register no host operation owns, and in which the   *)
(* HPS and the CD-audio engine may each make a move on that same edge.     *)
(*                                                                         *)
(* data_cnt is kept as its two bit fields: blk = data_cnt[31:9] (the       *)
(* code's rd_cur_blk) and off = data_cnt[8:0].  A sector is identified by  *)
(* its LBA, in 512-byte units (the CD-ROM target scales its 2048-byte      *)
(* addresses when it latches them).                                        *)
(***************************************************************************)
EXTENDS Integers

CONSTANTS
  CDROM,        \* TRUE: the CD-ROM target, which owns a CD-audio engine
  RING_BLOCKS,  \* sectors the ring holds
  BLOCK,        \* bytes in a sector (512 in the RTL)
  LBA_SPACE,    \* values of the LBA register (2^32 in the RTL)
  BLK_SPACE,    \* values of a sector counter (2^23 in the RTL)
  TLenMax,      \* largest transfer length (2^16 - 1 in the RTL)
  LBAs,         \* block addresses a READ may carry
  TLens,        \* transfer lengths a READ may carry, in sectors
  MediaLoss,    \* TRUE: the image may be unmounted at any time, and mounted
  MediaReturn,  \* TRUE: a lost image may be mounted again inside a READ
  LateAnswers   \* TRUE: the host may select again after a bus reset before
                \* the HPS has answered the fetch that the reset aborted

ASSUME RingAssumption ==
  /\ CDROM \in BOOLEAN /\ MediaLoss \in BOOLEAN
  /\ MediaReturn \in BOOLEAN /\ LateAnswers \in BOOLEAN
  /\ RING_BLOCKS \in Nat /\ RING_BLOCKS >= 2
  /\ BLOCK \in Nat /\ BLOCK >= 4
  /\ LBAs \subseteq Nat
  /\ TLenMax \in Nat /\ BLK_SPACE \in Nat /\ TLenMax < BLK_SPACE
  /\ TLens \subseteq 0 .. TLenMax
  /\ LBA_SPACE \in Nat
  /\ CDROM \/ \A l \in LBAs, t \in TLens : l + t < LBA_SPACE

VARIABLES
  phase,          \* the target's bus phase
  mounted,        \* an image is mounted
  cmd_lba,        \* the LBA field of the command block in cmd[]
  tlen,           \* latched transfer length
  lba,            \* LBA of the next fetch, bumped per answered fetch
  blk, off,       \* data_cnt, split at bit 9
  data_complete,
  rd_hps_blk,     \* sectors the HPS has delivered for this command
  io_rd_d,        \* the ring's fetch request
  rd_busy,        \* a prefetch is outstanding
  old_io_ack,
  buf,            \* the ring: what each slot holds
  hps,            \* HPS channel: "idle", "busy" (request taken), "ack"
  hps_lba,        \* the address the HPS took with the request
  mst,            \* the CD-audio engine's master FSM (M_BUILD, M_CMD: see below)
  blob_blk,       \* it is at the second block of the TOC
  toc_ready,      \* the TOC of the disc is known
  fst,            \* the engine's frame fetch FSM
  ca_rd,          \* the engine's request
  captured        \* sectors the last pseudo-DMA access took bytes from

hostVars == <<phase, cmd_lba, tlen, blk, off, data_complete, captured>>
ioVars   == <<io_rd_d, rd_busy, old_io_ack, rd_hps_blk, lba>>
hpsVars  == <<hps, hps_lba, buf>>
caVars   == <<mst, blob_blk, toc_ready, fst, ca_rd>>
vars     == <<hostVars, ioVars, hpsVars, caVars, mounted>>

Slots    == 0 .. RING_BLOCKS - 1
NoSector == -1       \* a slot never filled, or half overwritten
CaWindow == -2       \* an address of the CD-audio window
Counting == {"DATA_OUT", "STATUS_OUT", "MESSAGE_OUT"}  \* data_cnt is kept

-----------------------------------------------------------------------------
(* Wires *)

Slot(b) == b % RING_BLOCKS

\* io_ack as the target sees it: ncr5380.sv masks a disk's with its BSY.
IoAck   == hps = "ack" /\ (CDROM \/ phase # "IDLE")
AckFall == old_io_ack /\ ~IoAck

\* ca_io_active: the TOC or the frame fetch owns the channel.
ca_act  == mst = "M_ACQ_WAIT" \/ fst = "F_WAIT"
IoRd    == io_rd_d \/ ca_rd

\* Fault: the offset does not carry into the sector index.
AdvOffNoCarry(n) == off + n

\* Advancing data_cnt by n, and the furthest byte an access can touch (+3).
AdvBlk(n)     == IF off + n >= BLOCK THEN blk + 1 ELSE blk
AdvOff(n)     == IF off + n >= BLOCK THEN off + n - BLOCK ELSE off + n
rd_ahead_blk    == AdvBlk(3)
rd_ahead_needed == rd_ahead_blk < tlen

\* Fault: only the current sector is checked, not the one an access reaches.
io_busy_current ==
  \/ phase = "DATA_OUT" /\ mounted /\ blk >= rd_hps_blk
  \/ phase # "DATA_OUT" /\ (io_rd_d \/ (IoAck /\ ~ca_act))

io_busy ==
  \/ /\ phase = "DATA_OUT" /\ mounted
     /\ blk >= rd_hps_blk \/ (rd_ahead_needed /\ rd_ahead_blk >= rd_hps_blk)
  \/ phase # "DATA_OUT" /\ (io_rd_d \/ (IoAck /\ ~ca_act))

data_done == data_complete \/ tlen = 0

req == /\ phase # "IDLE"
       /\ ~io_busy
       /\ ~(phase = "DATA_OUT" /\ data_done)

\* Fault: the ring is taken to hold one sector more than it does.
rd_ring_over == (rd_hps_blk - blk) % BLK_SPACE <= RING_BLOCKS

\* Unsigned subtraction: it wraps when the host is past the fetch frontier.
rd_ring_space == (rd_hps_blk - blk) % BLK_SPACE < RING_BLOCKS

req_rd == /\ phase = "DATA_OUT" /\ tlen # 0 /\ ~data_complete
          /\ rd_hps_blk < tlen
          /\ rd_ring_space

ca_grant == /\ phase \in {"IDLE", "DATA_OUT"}
            /\ ~io_rd_d /\ ~IoAck /\ mounted

-----------------------------------------------------------------------------
(* Registers updated on every clock edge *)

\* Fault: the fall of an ack does not end the outstanding prefetch.
IoEngineStuck(rst) ==
  LET issue == req_rd /\ ~IoRd /\ ~rd_busy
  IN /\ io_rd_d' = (~rst /\ ~IoAck /\ (issue \/ io_rd_d))
     /\ rd_busy' = (~rst /\ ((~IoAck /\ issue) \/ rd_busy))

\* Fetch engine.  The clear of rd_busy on an ack's fall is the last
\* assignment of its block and wins over an issue on the same edge.
IoEngine(rst) ==
  LET issue == req_rd /\ ~IoRd /\ ~rd_busy
  IN /\ io_rd_d' = (~rst /\ ~IoAck /\ (issue \/ io_rd_d))
     /\ rd_busy' = (~rst /\ ~AckFall /\ ((~IoAck /\ issue) \/ rd_busy))

RingCounter ==
  /\ old_io_ack' = IoAck
  /\ rd_hps_blk' = IF phase \notin Counting THEN 0
                   ELSE IF AckFall /\ ~ca_act THEN rd_hps_blk + 1
                   ELSE rd_hps_blk

\* Fault: the fetch address is not bumped.
LbaHold == lba' = lba

LbaCounter == lba' = IF ~AckFall THEN lba
                     ELSE IF lba + 1 < LBA_SPACE THEN lba + 1 ELSE 0

\* Where port A writes the words of a transfer, if it does.
Fill(content) ==
  buf' = IF ~ca_act /\ (CDROM \/ phase # "IDLE")
         THEN [buf EXCEPT ![Slot(rd_hps_blk)] = content]
         ELSE buf

\* The HPS takes a request with the address presented with it, answers
\* later by raising ack, streams the words, and drops ack.  It does not
\* look at the request again once it has taken it.
HpsRest == UNCHANGED hpsVars
HpsTake == /\ hps = "idle" /\ IoRd
           /\ hps' = "busy"
           /\ hps_lba' = IF ca_act THEN CaWindow ELSE lba
           /\ UNCHANGED buf
HpsRise == /\ hps = "busy"
           /\ hps' = "ack"
           /\ Fill(NoSector)
           /\ UNCHANGED hps_lba
HpsFall == /\ hps = "ack"
           /\ hps' = "idle"
           /\ Fill(hps_lba)
           /\ UNCHANGED hps_lba
HpsMove == HpsTake \/ HpsRise \/ HpsFall

\* CD-audio engine.  Its master FSM fetches the TOC of a new disc in two
\* blocks, each when the target grants the channel, builds its tables from
\* them (M_BUILD), runs commands and keeps the position (M_CMD).  pulse: the
\* HPS reports a mount.
TocStart == mst = "M_ACQ_REQ" /\ mounted /\ ca_grant /\ fst # "F_WAIT"

TocMove(pulse) ==
  \/ /\ mst = "M_IDLE"
     /\ IF mounted /\ (pulse \/ ~toc_ready)
        THEN mst' = "M_ACQ_REQ" /\ blob_blk' = FALSE /\ toc_ready' = FALSE
        ELSE mst' \in {"M_IDLE", "M_CMD"} /\ UNCHANGED <<blob_blk, toc_ready>>
  \/ /\ mst = "M_ACQ_REQ"
     /\ mst' = IF ~mounted THEN "M_IDLE" ELSE IF TocStart THEN "M_ACQ_WAIT" ELSE mst
     /\ UNCHANGED <<blob_blk, toc_ready>>
  \/ /\ mst = "M_ACQ_WAIT"
     /\ mst' = IF ~AckFall THEN mst ELSE IF blob_blk THEN "M_BUILD" ELSE "M_ACQ_REQ"
     /\ blob_blk' = (blob_blk \/ AckFall)
     /\ UNCHANGED toc_ready
  \/ /\ mst \in {"M_BUILD", "M_CMD"}
     /\ mst' \in {mst, "M_IDLE"}
     /\ toc_ready' = (toc_ready \/ (mst = "M_BUILD" /\ mst' = "M_IDLE"))
     /\ UNCHANGED blob_blk

\* Playback queues a frame at any time: a READ stops it, but not a frame
\* already queued, nor a PLAY that is still waiting for the master FSM.  The
\* frame is fetched when the channel is granted and the master FSM rests,
\* unless the position changes first (flush).
FrameStart == fst = "F_REQ" /\ ca_grant /\ mst = "M_IDLE" /\ ~ca_rd

FrameMove ==
  \/ /\ fst = "F_IDLE"
     /\ fst' \in IF mounted /\ toc_ready THEN {"F_IDLE", "F_REQ"} ELSE {"F_IDLE"}
  \/ /\ fst = "F_REQ"
     /\ fst' \in {"F_IDLE", IF FrameStart THEN "F_WAIT" ELSE "F_REQ"}
  \/ /\ fst = "F_WAIT"
     /\ fst' = IF AckFall THEN "F_IDLE" ELSE "F_WAIT"

CaClock(pulse) ==
  IF ~CDROM THEN UNCHANGED caVars
  ELSE /\ TocMove(pulse)
       /\ FrameMove
       /\ ca_rd' = (TocStart \/ (FrameStart /\ fst' = "F_WAIT") \/ (ca_rd /\ ~IoAck))

MediaMove ==
  IF ~MediaLoss THEN mounted' = mounted
  ELSE mounted' \in IF phase = "DATA_OUT" /\ ~MediaReturn
                    THEN {mounted, FALSE} ELSE BOOLEAN

\* A mount report comes with a change of the medium; it may leave it mounted.
Pulses == IF MediaLoss /\ (phase # "DATA_OUT" \/ MediaReturn \/ mounted' # mounted)
          THEN BOOLEAN ELSE {FALSE}

\* Everything but the host's registers and lba, which a command reloads.
Clock(rst) ==
  /\ IoEngine(rst)
  /\ RingCounter
  /\ HpsRest \/ HpsMove
  /\ MediaMove
  /\ \E pulse \in Pulses : CaClock(pulse)

\* data_cnt while no byte is handshaken.
DataRest ==
  IF phase \in Counting
  THEN UNCHANGED <<blk, off, data_complete>>
  ELSE blk' = 0 /\ off' = 0 /\ data_complete' = FALSE

\* data_cnt when n bytes are handshaken.
DataAdvance(n) ==
  /\ blk' = IF data_complete THEN blk ELSE AdvBlk(n)
  /\ off' = IF data_complete THEN off ELSE AdvOff(n)
  /\ data_complete' = (AdvBlk(n) = tlen /\ AdvOff(n) = 0)

-----------------------------------------------------------------------------
(* Host operations *)

\* Nothing handshaken on this edge.
Wait ==
  /\ ~(phase = "DATA_OUT" /\ data_done)
  /\ DataRest
  /\ LbaCounter
  /\ Clock(FALSE)
  /\ UNCHANGED <<phase, cmd_lba, tlen, captured>>

\* Selection.  An aborted fetch is still being answered only if LateAnswers.
Select ==
  /\ phase = "IDLE"
  /\ CDROM \/ mounted
  /\ LateAnswers \/ hps = "idle" \/ hps_lba = CaWindow
  /\ phase' = "CMD_IN"
  /\ DataRest
  /\ LbaCounter
  /\ Clock(FALSE)
  /\ UNCHANGED <<cmd_lba, tlen, captured>>

\* The last byte of a READ command arrives: latch it, start the data phase.
Command(l, t) ==
  /\ phase = "CMD_IN"
  /\ req
  /\ cmd_lba' = l
  /\ lba' = l
  /\ tlen' = t
  /\ phase' = IF CDROM /\ ~mounted THEN "STATUS_OUT" ELSE "DATA_OUT"
  /\ DataRest
  /\ Clock(FALSE)
  /\ UNCHANGED captured

\* One pseudo-DMA read of n bytes: all n are taken at its end, then n ACK
\* pulses advance data_cnt.  The driver stays inside the armed length.
Take(n) ==
  /\ phase = "DATA_OUT"
  /\ req
  /\ AdvBlk(n) < tlen \/ (AdvBlk(n) = tlen /\ AdvOff(n) = 0)
  /\ captured' = {buf[Slot(b)] : b \in blk .. AdvBlk(n - 1)}
  /\ DataAdvance(n)
  /\ LbaCounter
  /\ Clock(FALSE)
  /\ UNCHANGED <<phase, cmd_lba, tlen>>

\* The data phase closes on the edge after its last byte.
EndData ==
  /\ phase = "DATA_OUT"
  /\ data_done
  /\ phase' = "STATUS_OUT"
  /\ DataRest
  /\ LbaCounter
  /\ Clock(FALSE)
  /\ UNCHANGED <<cmd_lba, tlen, captured>>

\* The status byte, then the message byte, are handshaken.
LastBytes ==
  /\ phase \in {"STATUS_OUT", "MESSAGE_OUT"}
  /\ req
  /\ phase' = IF phase = "STATUS_OUT" THEN "MESSAGE_OUT" ELSE "IDLE"
  /\ DataAdvance(1)
  /\ LbaCounter
  /\ Clock(FALSE)
  /\ UNCHANGED <<cmd_lba, tlen, captured>>

\* SCSI bus reset.
BusReset ==
  /\ phase' = "IDLE"
  /\ DataRest
  /\ LbaCounter
  /\ Clock(TRUE)
  /\ UNCHANGED <<cmd_lba, tlen, captured>>

Init ==
  /\ phase = "IDLE" /\ mounted = TRUE
  /\ cmd_lba \in LBAs /\ lba = cmd_lba /\ tlen = 0
  /\ blk = 0 /\ off = 0 /\ data_complete = FALSE
  /\ rd_hps_blk = 0 /\ io_rd_d = FALSE /\ rd_busy = FALSE
  /\ old_io_ack = FALSE
  /\ buf = [s \in Slots |-> NoSector]
  /\ hps = "idle" /\ hps_lba = CaWindow
  /\ mst = "M_IDLE" /\ blob_blk = FALSE /\ toc_ready = FALSE
  /\ fst = "F_IDLE" /\ ca_rd = FALSE
  /\ captured = {}

Next ==
  \/ Wait
  \/ Select
  \/ \E l \in LBAs, t \in TLens : Command(l, t)
  \/ \E n \in {1, 2, 4} : Take(n)
  \/ EndData
  \/ LastBytes
  \/ BusReset

Spec == Init /\ [][Next]_vars

(***************************************************************************)
(* Fairness.  The clock runs; Main polls its request lines and finishes    *)
(* each transfer; the driver of an accepted READ keeps taking bytes.  No   *)
(* fairness on selection, new commands, resets, media changes or the       *)
(* CD-audio engine.                                                        *)
(***************************************************************************)
Fairness ==
  /\ WF_vars(Wait /\ mounted' = mounted)
  /\ WF_vars(EndData)
  /\ WF_vars(LastBytes)
  /\ WF_vars(Next /\ hps' # hps)
  /\ SF_vars(Take(1))

FairSpec == Spec /\ Fairness

-----------------------------------------------------------------------------
(* Properties *)

\* Every register has a value of its type.
TypeOK ==
  /\ phase \in {"IDLE", "CMD_IN", "DATA_OUT", "STATUS_OUT", "MESSAGE_OUT"}
  /\ mounted \in BOOLEAN /\ data_complete \in BOOLEAN
  /\ cmd_lba \in Nat /\ lba \in Nat /\ tlen \in 0 .. TLenMax
  /\ blk \in Nat /\ off \in 0 .. BLOCK - 1
  /\ rd_hps_blk \in Nat
  /\ io_rd_d \in BOOLEAN /\ rd_busy \in BOOLEAN /\ old_io_ack \in BOOLEAN
  /\ buf \in [Slots -> Int]
  /\ hps \in {"idle", "busy", "ack"} /\ hps_lba \in Int
  /\ mst \in {"M_IDLE", "M_ACQ_REQ", "M_ACQ_WAIT", "M_BUILD", "M_CMD"}
  /\ fst \in {"F_IDLE", "F_REQ", "F_WAIT"}
  /\ blob_blk \in BOOLEAN /\ toc_ready \in BOOLEAN /\ ca_rd \in BOOLEAN
  /\ captured \subseteq Int

\* Whenever REQ is up in the data phase of a READ, every byte one pseudo-DMA
\* access can take (data_cnt .. data_cnt+3, inside the transfer) comes from
\* the sector the command asked for: no slot's previous occupant, no half
\* filled slot, no sector of another command.
ServedValid ==
  (phase = "DATA_OUT" /\ mounted /\ req) =>
     \A b \in blk .. rd_ahead_blk :
        b < tlen => buf[Slot(b)] = cmd_lba + b

\* The host never passes the fetch frontier, so the unsigned subtraction in
\* rd_ring_space never wraps.
FetchFrontier == phase = "DATA_OUT" => blk <= rd_hps_blk

\* A READ fetches exactly its own sectors: never past its length, nothing
\* left in flight once its data phase is over.
FetchExact ==
  /\ phase = "DATA_OUT" => rd_hps_blk <= tlen
  /\ phase \in {"STATUS_OUT", "MESSAGE_OUT"} =>
       ~io_rd_d /\ ~rd_busy /\ (hps # "idle" => hps_lba = CaWindow)

\* CD-audio acks stay out of the data path's accounting: the next fetch
\* address is always the command's address plus the sectors delivered.
LbaTracksRing == phase = "DATA_OUT" => lba = cmd_lba + rd_hps_blk

\* The ring and the CD-audio engine never request at the same time.
RequestorsDisjoint == ~(io_rd_d /\ ca_rd)

\* A delivered sector the host has not drained yet is never overwritten.
UnreadKept ==
  [][phase = "DATA_OUT" /\ phase' = "DATA_OUT" =>
       \A b \in blk' .. rd_hps_blk - 1 : buf'[Slot(b)] = buf[Slot(b)]]_vars

\* An accepted READ always runs to the end of its message phase.
ReadCompletes == (phase = "DATA_OUT") ~> (phase = "IDLE")

\* What the target promises the host: see ReadStream.
Stream == INSTANCE ReadStream WITH
  state <- CASE phase = "DATA_OUT" -> "xfer"
             [] phase \in {"STATUS_OUT", "MESSAGE_OUT"} -> "done"
             [] OTHER -> "idle",
  lba   <- cmd_lba,
  len   <- tlen,
  blk   <- IF phase = "DATA_OUT" THEN blk ELSE 0,
  off   <- IF phase = "DATA_OUT" THEN off ELSE 0,
  out   <- captured

\* The READ path implements the in-order sector stream: every access gets
\* exactly the sectors its bytes belong to, none lost, repeated or foreign.
ImplementsStream == Stream!Spec

-----------------------------------------------------------------------------
(* The inductive invariant behind the safety properties, for a disk target  *)
(* whose medium stays in and whose aborted fetches are drained.             *)

\* No fetch requested, taken or being answered.
Quiet == ~io_rd_d /\ ~rd_busy /\ hps = "idle" /\ ~old_io_ack

\* The stages of the one outstanding fetch.
FetchStage ==
  \/ Quiet
  \/ rd_busy /\ io_rd_d /\ ~old_io_ack /\ (hps # "idle" => hps_lba = lba)
  \/ rd_busy /\ ~io_rd_d /\ old_io_ack /\ hps = "ack" /\ hps_lba = lba
  \/ /\ rd_busy /\ ~io_rd_d /\ old_io_ack /\ hps = "idle"
     /\ buf[Slot(rd_hps_blk)] = lba

\* Where the two cursors of the ring may be.
Cursors ==
  /\ blk <= rd_hps_blk /\ rd_hps_blk <= tlen
  /\ rd_hps_blk <= blk + RING_BLOCKS
  /\ rd_busy => rd_hps_blk < tlen /\ rd_hps_blk < blk + RING_BLOCKS
  /\ blk = tlen => off = 0
  /\ data_complete <=> (tlen # 0 /\ blk = tlen)

\* Every delivered sector not drained yet is in its slot.
RingContent == \A b \in blk .. rd_hps_blk - 1 : buf[Slot(b)] = cmd_lba + b

\* The inductive invariant of the READ path.
RingInv ==
  /\ TypeOK
  /\ mounted /\ ~ca_rd /\ ~ca_act
  /\ hps # "idle" => hps_lba # CaWindow
  /\ phase = "IDLE" => ~io_rd_d /\ ~rd_busy
  /\ phase \in {"CMD_IN", "STATUS_OUT", "MESSAGE_OUT"} => Quiet
  /\ phase = "DATA_OUT" =>
       /\ FetchStage
       /\ lba = cmd_lba + rd_hps_blk
       /\ cmd_lba + tlen < LBA_SPACE
       /\ Cursors
       /\ RingContent

=============================================================================

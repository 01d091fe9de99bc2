------------------------- MODULE ScsiReadRingProofs -------------------------
(***************************************************************************)
(* Proofs about ScsiReadRing, for every ring depth, sector size, address   *)
(* set and transfer length: RingInv is inductive for a disk target, and    *)
(* the safety properties and the refinement of ReadStream follow from it.  *)
(* What holds also when the medium is taken out inside a READ is proved    *)
(* from DriveInv, of which RingInv is the case of a medium that stays in.  *)
(***************************************************************************)
EXTENDS ScsiReadRing, TLAPS

\* The target the theorems are about: a disk whose medium stays in, and a
\* host that lets the HPS finish an aborted fetch before it selects again.
DiskTarget == CDROM = FALSE /\ MediaLoss = FALSE /\ LateAnswers = FALSE

\* The same with a medium that may come and go at any time.
DiskDrive == CDROM = FALSE /\ LateAnswers = FALSE

\* A fetch is requested, being answered, or answered on the last edge.
Pending ==
  \/ rd_busy /\ io_rd_d /\ ~old_io_ack
  \/ rd_busy /\ ~io_rd_d /\ old_io_ack /\ hps # "busy"

\* Without its medium a READ runs on past the fetch frontier; the frontier is
\* still within its length and no more than a ring ahead of the host.
DriveCursors ==
  /\ blk <= tlen /\ rd_hps_blk <= tlen
  /\ rd_hps_blk <= blk + RING_BLOCKS
  /\ rd_busy => rd_hps_blk < tlen /\ rd_hps_blk < blk + RING_BLOCKS
  /\ blk = tlen => off = 0
  /\ data_complete <=> (tlen # 0 /\ blk = tlen)

\* The inductive invariant: such a READ may end with a fetch outstanding, which
\* the status phase waits for.
DriveInv ==
  /\ TypeOK
  /\ ~ca_rd /\ ~ca_act
  /\ hps # "idle" => hps_lba # CaWindow
  /\ phase = "IDLE" => ~io_rd_d /\ ~rd_busy
  /\ phase \in {"CMD_IN", "MESSAGE_OUT"} => Quiet
  /\ phase = "STATUS_OUT" => Quiet \/ Pending
  /\ phase = "DATA_OUT" =>
       /\ FetchStage
       /\ lba = cmd_lba + rd_hps_blk
       /\ cmd_lba + tlen < LBA_SPACE
       /\ DriveCursors
       /\ RingContent

\* The registers of the CD-audio engine.
CaTypeOK ==
  /\ mst \in {"M_IDLE", "M_ACQ_REQ", "M_ACQ_WAIT", "M_BUILD", "M_CMD"}
  /\ fst \in {"F_IDLE", "F_REQ", "F_WAIT"}
  /\ blob_blk \in BOOLEAN /\ toc_ready \in BOOLEAN /\ ca_rd \in BOOLEAN

-----------------------------------------------------------------------------
(* Slots *)

\* A sector index always selects a slot of the ring.
LEMMA SlotType == ASSUME NEW b \in Nat PROVE Slot(b) \in Slots
  BY RingAssumption DEF Slot, Slots

\* Division with remainder, as the slot lemma needs it.
LEMMA DivMod ==
  ASSUME NEW a \in Nat, NEW r \in Nat, r > 0
  PROVE  /\ a = r * (a \div r) + (a % r)
         /\ a \div r \in Nat /\ a % r \in Nat
  OBVIOUS

\* Two sectors less than a ring depth apart never share a slot.
LEMMA SlotDistinct ==
  ASSUME NEW a \in Nat, NEW b \in Nat, a < b, b < a + RING_BLOCKS
  PROVE  Slot(a) # Slot(b)
<1> DEFINE r == RING_BLOCKS
           p == a \div r
           q == b \div r
<1>1. r \in Nat /\ r > 0
  BY RingAssumption
<1>2. /\ a = r * p + (a % r) /\ p \in Nat /\ a % r \in Nat
      /\ b = r * q + (b % r) /\ q \in Nat /\ b % r \in Nat
  BY <1>1, DivMod
<1>3. SUFFICES ASSUME a % r = b % r PROVE FALSE
  BY DEF Slot
<1>4. b < a + r
  OBVIOUS
<1> HIDE DEF p, q, r
<1>5. b - a = r * (q - p)
  <2>1. b - a = r * q - r * p
    BY <1>1, <1>2, <1>3
  <2>2. r * q - r * p = r * (q - p)
    BY <1>1, <1>2
  <2> QED BY <2>1, <2>2
<1>6. CASE q - p <= 0
  <2>1. r * (q - p) <= 0
    BY <1>1, <1>2, <1>6
  <2> QED BY <2>1, <1>5
<1>7. CASE q - p >= 1
  <2>1. r * (q - p) >= r
    BY <1>1, <1>2, <1>7
  <2> QED BY <2>1, <1>1, <1>4, <1>5
<1> QED BY <1>2, <1>6, <1>7

-----------------------------------------------------------------------------
(* Clock steps *)

\* A clock edge keeps the types of what it drives, and the CD-audio engine of
\* a disk target absent.
LEMMA ClockTypes ==
  ASSUME DiskDrive, DriveInv, NEW rst \in BOOLEAN, Clock(rst)
  PROVE  /\ mounted' \in BOOLEAN
         /\ ~ca_rd' /\ ~ca_act' /\ CaTypeOK'
         /\ io_rd_d' \in BOOLEAN /\ rd_busy' \in BOOLEAN
         /\ old_io_ack' \in BOOLEAN
         /\ rd_hps_blk' \in Nat
         /\ buf' \in [Slots -> Int]
         /\ hps' \in {"idle", "busy", "ack"} /\ hps_lba' \in Int
         /\ hps' # "idle" => hps_lba' # CaWindow
<1> USE DEF DiskDrive, DriveInv, TypeOK
<1>0. mounted' \in BOOLEAN
  <2>1. mounted' = mounted \/ mounted' \in {mounted, FALSE} \/ mounted' \in BOOLEAN
    BY Zenon DEF Clock, MediaMove
  <2> QED BY <2>1, Zenon
<1>1. ~ca_rd' /\ ~ca_act' /\ CaTypeOK'
  <2>1. UNCHANGED caVars
    BY DEF Clock, CaClock
  <2> QED BY <2>1 DEF caVars, ca_act, CaTypeOK
<1>2. /\ io_rd_d' \in BOOLEAN /\ rd_busy' \in BOOLEAN
      /\ old_io_ack' \in BOOLEAN
  BY DEF Clock, IoEngine, RingCounter, IoAck, AckFall
<1>3. rd_hps_blk' \in Nat
  BY DEF Clock, RingCounter
<1>4. ASSUME NEW c \in Int, Fill(c) PROVE buf' \in [Slots -> Int]
  BY <1>4, SlotType DEF Fill
<1>5. /\ buf' \in [Slots -> Int]
      /\ hps' \in {"idle", "busy", "ack"} /\ hps_lba' \in Int
      /\ hps' # "idle" => hps_lba' # CaWindow
  <2>1. CASE HpsRest
    BY <2>1 DEF HpsRest, hpsVars
  <2>2. CASE HpsTake
    BY <2>2 DEF HpsTake, CaWindow
  <2>3. CASE HpsRise
    BY <2>3, <1>4 DEF HpsRise, NoSector
  <2>4. CASE HpsFall
    BY <2>4, <1>4 DEF HpsFall
  <2> QED BY <2>1, <2>2, <2>3, <2>4 DEF Clock, HpsMove
<1> QED BY <1>0, <1>1, <1>2, <1>3, <1>5

\* On a quiet channel outside the data phase a clock edge changes nothing
\* of the channel.
LEMMA QuietKept ==
  ASSUME DiskDrive, DriveInv, Quiet, phase # "DATA_OUT",
         NEW rst \in BOOLEAN, Clock(rst)
  PROVE  Quiet'
  BY DEF DiskDrive, DriveInv, TypeOK, Quiet, Clock, IoEngine, RingCounter,
         IoAck, AckFall, req_rd, IoRd, HpsRest, HpsMove, HpsTake, HpsRise,
         HpsFall, hpsVars

\* An outstanding fetch outside the data phase moves to its end, and no other
\* is begun.
LEMMA PendingKept ==
  ASSUME DiskDrive, DriveInv, Quiet \/ Pending, phase = "STATUS_OUT", Clock(FALSE)
  PROVE  (Quiet \/ Pending)'
<1>1. /\ IoAck <=> hps = "ack"
      /\ IoRd <=> io_rd_d
      /\ ~req_rd
  BY DEF DiskDrive, DriveInv, IoAck, IoRd, req_rd
<1>2. /\ io_rd_d' = (~IoAck /\ io_rd_d)
      /\ rd_busy' = (~AckFall /\ rd_busy)
      /\ old_io_ack' = IoAck
  BY <1>1 DEF Clock, IoEngine, RingCounter
<1>3. HpsRest \/ HpsTake \/ HpsRise \/ HpsFall
  BY DEF Clock, HpsMove
<1>4. hps \in {"idle", "busy", "ack"}
  BY DEF DriveInv, TypeOK
<1>5. \/ hps' = hps
      \/ hps = "idle" /\ io_rd_d /\ hps' = "busy"
      \/ hps = "busy" /\ hps' = "ack"
      \/ hps = "ack" /\ hps' = "idle"
  BY <1>1, <1>3 DEF HpsRest, HpsTake, HpsRise, HpsFall, hpsVars
<1> QED BY <1>1, <1>2, <1>4, <1>5 DEF Quiet, Pending, AckFall

\* A bus reset withdraws the fetch request.
LEMMA ResetClears ==
  ASSUME Clock(TRUE)
  PROVE  ~io_rd_d' /\ ~rd_busy'
  BY DEF Clock, IoEngine

\* The unsigned subtraction of two counters in order does not wrap.
LEMMA NoWrap ==
  ASSUME NEW x \in Nat, NEW m \in Nat, x < m
  PROVE  x % m = x
  OBVIOUS

\* Inside a data phase: the fetch moves through its stages, and the address,
\* the cursors and the ring stay consistent, when the host's cursor moves
\* forward.
LEMMA DataClock ==
  ASSUME DiskDrive, DriveInv, phase = "DATA_OUT", Clock(FALSE), LbaCounter,
         cmd_lba' = cmd_lba, tlen' = tlen,
         NEW nb \in Nat, blk' = nb, blk <= nb
  PROVE  /\ FetchStage'
         /\ lba' = cmd_lba' + rd_hps_blk'
         /\ lba' \in Nat
         /\ rd_hps_blk <= rd_hps_blk' /\ rd_hps_blk' <= tlen'
         /\ rd_hps_blk' <= blk' + RING_BLOCKS
         /\ rd_busy' => rd_hps_blk' < tlen' /\ rd_hps_blk' < blk' + RING_BLOCKS
         /\ RingContent'
<1> USE DEF DiskDrive, DriveInv, TypeOK, DriveCursors
<1>a. RING_BLOCKS \in Nat /\ RING_BLOCKS >= 2 /\ LBA_SPACE \in Nat
      /\ BLK_SPACE \in Nat /\ TLenMax \in Nat /\ TLenMax < BLK_SPACE
  BY RingAssumption
<1>b. rd_ring_space => rd_hps_blk < blk + RING_BLOCKS
  <2>1. CASE blk <= rd_hps_blk
    <3>1. rd_hps_blk - blk \in Nat /\ rd_hps_blk - blk < BLK_SPACE
      BY <1>a, <2>1
    <3>2. (rd_hps_blk - blk) % BLK_SPACE = rd_hps_blk - blk
      BY <3>1, <1>a, NoWrap
    <3> QED BY <3>2, <1>a DEF rd_ring_space
  <2>2. CASE rd_hps_blk < blk
    BY <1>a, <2>2
  <2> QED BY <2>1, <2>2
<1>c. Slot(rd_hps_blk) \in Slots
  BY SlotType
<1>d. IoAck <=> hps = "ack"
  BY DEF IoAck
<1>e. IoRd <=> io_rd_d
  BY DEF IoRd
<1>f. ASSUME NEW c, Fill(c)
      PROVE  buf' = [buf EXCEPT ![Slot(rd_hps_blk)] = c]
  BY <1>f DEF Fill
<1>g. rd_hps_blk' = IF AckFall THEN rd_hps_blk + 1 ELSE rd_hps_blk
  BY DEF Clock, RingCounter, Counting
<1>h. /\ io_rd_d' = (~IoAck /\ ((req_rd /\ ~IoRd /\ ~rd_busy) \/ io_rd_d))
      /\ rd_busy' = (~AckFall /\ ((~IoAck /\ req_rd /\ ~IoRd /\ ~rd_busy)
                                  \/ rd_busy))
      /\ old_io_ack' = IoAck
  BY DEF Clock, IoEngine, RingCounter
<1>i. req_rd => rd_hps_blk < tlen /\ rd_hps_blk < blk + RING_BLOCKS
  BY <1>b DEF req_rd
<1>j. HpsRest \/ HpsTake \/ HpsRise \/ HpsFall
  BY DEF Clock, HpsMove
<1>k. AckFall => /\ rd_busy /\ ~io_rd_d /\ hps = "idle" /\ old_io_ack
                 /\ buf[Slot(rd_hps_blk)] = lba
  BY <1>d DEF AckFall, FetchStage, Quiet
<1>1. lba' = cmd_lba' + rd_hps_blk' /\ lba' \in Nat
  BY <1>a, <1>g, <1>k DEF LbaCounter
<1>2. /\ rd_hps_blk' <= tlen' /\ rd_hps_blk <= rd_hps_blk'
      /\ rd_hps_blk' <= blk' + RING_BLOCKS
  <2>1. AckFall => rd_hps_blk < tlen /\ rd_hps_blk < blk + RING_BLOCKS
    BY <1>k
  <2>2. /\ rd_hps_blk <= tlen /\ rd_hps_blk <= blk + RING_BLOCKS
        /\ tlen \in Nat /\ rd_hps_blk \in Nat /\ blk \in Nat
    OBVIOUS
  <2>3. CASE AckFall
    BY <2>1, <2>2, <2>3, <1>a, <1>g
  <2>4. CASE ~AckFall
    BY <2>2, <2>4, <1>a, <1>g
  <2> QED BY <2>3, <2>4
<1>3. rd_busy' => rd_hps_blk' < tlen' /\ rd_hps_blk' < blk' + RING_BLOCKS
  <2>1. rd_busy' => ~AckFall /\ (rd_busy \/ req_rd)
    BY <1>h
  <2>2. rd_busy' => /\ rd_hps_blk' = rd_hps_blk
                    /\ rd_hps_blk < tlen /\ rd_hps_blk < blk + RING_BLOCKS
    BY <2>1, <1>g, <1>i
  <2>3. rd_hps_blk \in Nat /\ blk \in Nat
    OBVIOUS
  <2> QED BY <2>2, <2>3, <1>a
<1>4. CASE AckFall
  <2>1. UNCHANGED <<hps, buf>>
    BY <1>4, <1>j, <1>k, <1>e DEF HpsRest, HpsTake, HpsRise, HpsFall, hpsVars
  <2>2. Quiet'
    BY <1>4, <1>d, <1>h, <1>k, <2>1 DEF Quiet
  <2>3. \A b \in blk' .. rd_hps_blk' - 1 : buf'[Slot(b)] = cmd_lba' + b
    <3>1. SUFFICES ASSUME NEW b \in blk' .. rd_hps_blk
                   PROVE  buf[Slot(b)] = cmd_lba + b
      BY <1>4, <1>g, <2>1
    <3>2. CASE b = rd_hps_blk
      BY <3>2, <1>4, <1>k
    <3>3. CASE b < rd_hps_blk
      BY <3>3 DEF RingContent
    <3> QED BY <3>2, <3>3
  <2> QED BY <1>1, <1>2, <1>3, <2>2, <2>3 DEF FetchStage, RingContent
<1>5. CASE ~AckFall
  <2>1. UNCHANGED <<rd_hps_blk, lba>>
    BY <1>5, <1>g DEF LbaCounter
  <2>2. FetchStage'
    <3>1. CASE HpsRest
      BY <3>1, <1>5, <1>d, <1>e, <1>h, <2>1
         DEF FetchStage, Quiet, HpsRest, hpsVars, AckFall
    <3>2. CASE HpsTake
      BY <3>2, <1>5, <1>d, <1>e, <1>h, <2>1
         DEF FetchStage, Quiet, HpsTake, AckFall
    <3>3. CASE HpsRise
      BY <3>3, <1>5, <1>d, <1>e, <1>h, <2>1
         DEF FetchStage, Quiet, HpsRise, AckFall
    <3>4. CASE HpsFall
      <4>1. buf' = [buf EXCEPT ![Slot(rd_hps_blk)] = hps_lba]
        BY <3>4, <1>f DEF HpsFall
      <4>2. buf'[Slot(rd_hps_blk')] = hps_lba
        BY <4>1, <1>c, <2>1
      <4> QED BY <3>4, <4>2, <1>5, <1>d, <1>e, <1>h, <2>1
              DEF FetchStage, Quiet, HpsFall, AckFall
    <3> QED BY <1>j, <3>1, <3>2, <3>3, <3>4
  <2>3. RingContent'
    <3>1. SUFFICES ASSUME NEW b \in blk' .. rd_hps_blk - 1
                   PROVE  buf'[Slot(b)] = buf[Slot(b)]
      BY <2>1 DEF RingContent
    <3>2. CASE HpsRest \/ HpsTake
      BY <3>2 DEF HpsRest, HpsTake, hpsVars
    <3>3. CASE HpsRise \/ HpsFall
      <4>1. rd_hps_blk < blk + RING_BLOCKS
        BY <3>3 DEF HpsRise, HpsFall, FetchStage, Quiet
      <4>2. b \in Nat /\ b < rd_hps_blk /\ rd_hps_blk < b + RING_BLOCKS
        BY <4>1, <1>a
      <4>3. Slot(b) # Slot(rd_hps_blk) /\ Slot(b) \in Slots
        BY <4>2, SlotDistinct, SlotType
      <4>4. \E c : buf' = [buf EXCEPT ![Slot(rd_hps_blk)] = c]
        BY <3>3, <1>f DEF HpsRise, HpsFall
      <4> QED BY <4>3, <4>4
    <3> QED BY <1>j, <3>2, <3>3
  <2> QED BY <1>1, <1>2, <1>3, <2>2, <2>3
<1> QED BY <1>4, <1>5

-----------------------------------------------------------------------------
(* The byte counter *)

\* Advancing data_cnt by up to a longword stays in range and crosses at most
\* one sector boundary; three bytes ahead never reach past four bytes on.
LEMMA Advance ==
  ASSUME TypeOK, NEW n \in 1 .. 4
  PROVE  /\ AdvBlk(n) \in Nat /\ AdvOff(n) \in 0 .. BLOCK - 1
         /\ blk <= AdvBlk(n) /\ AdvBlk(n) <= blk + 1
         /\ AdvBlk(n - 1) \in Nat
         /\ blk <= AdvBlk(n - 1) /\ AdvBlk(n - 1) <= AdvBlk(3)
         /\ AdvBlk(n - 1) <= AdvBlk(n)
         /\ AdvBlk(n) = AdvBlk(n - 1) \/ AdvOff(n) = 0
         /\ AdvBlk(n) = blk => AdvOff(n) # 0
<1>1. BLOCK \in Nat /\ BLOCK >= 4
  BY RingAssumption
<1> QED BY <1>1 DEF TypeOK, AdvBlk, AdvOff

\* An idle byte counter keeps its type.
LEMMA RestTypes ==
  ASSUME TypeOK, DataRest
  PROVE  blk' \in Nat /\ off' \in 0 .. BLOCK - 1 /\ data_complete' \in BOOLEAN
<1>1. BLOCK \in Nat /\ BLOCK >= 4
  BY RingAssumption
<1>2. CASE phase \in Counting
  BY <1>2 DEF TypeOK, DataRest
<1>3. CASE phase \notin Counting
  <2>1. blk' = 0 /\ off' = 0 /\ data_complete' = FALSE
    BY <1>3 DEF DataRest
  <2>2. 0 \in Nat /\ 0 \in 0 .. BLOCK - 1
    BY <1>1
  <2> QED BY <2>1, <2>2
<1> QED BY <1>2, <1>3

\* The LBA counter keeps its type.
LEMMA LbaType == ASSUME TypeOK, LbaCounter PROVE lba' \in Nat
  BY DEF TypeOK, LbaCounter

-----------------------------------------------------------------------------
(* DriveInv is inductive *)

\* The initial state satisfies the invariant.
LEMMA DriveInvInit == ASSUME DiskDrive, Init PROVE DriveInv
<1>1. BLOCK \in Nat /\ BLOCK >= 4 /\ LBAs \subseteq Nat /\ TLenMax \in Nat
  BY RingAssumption
<1>2. tlen \in 0 .. TLenMax /\ off \in 0 .. BLOCK - 1
  BY <1>1 DEF Init
<1>3. buf \in [Slots -> Int]
  BY DEF Init, NoSector
<1>4. TypeOK
  <2>1. cmd_lba \in Nat /\ lba \in Nat /\ hps_lba \in Int /\ captured \subseteq Int
    BY <1>1 DEF Init, CaWindow
  <2>2. blk \in Nat /\ rd_hps_blk \in Nat
    BY DEF Init
  <2> QED BY <1>2, <1>3, <2>1, <2>2 DEF Init, TypeOK
<1> QED BY <1>4 DEF Init, DriveInv, ca_act

\* A step that leaves the data phase alone (or is not in one).
LEMMA IdleStep ==
  ASSUME DiskDrive, DriveInv, NEW rst \in BOOLEAN, Clock(rst), DataRest,
         LbaCounter, UNCHANGED <<cmd_lba, tlen, captured>>,
         phase' \in {"IDLE", "CMD_IN", "STATUS_OUT", "MESSAGE_OUT"},
         phase' = "IDLE" => ~io_rd_d' /\ ~rd_busy',
         phase' \in {"CMD_IN", "MESSAGE_OUT"} => Quiet',
         phase' = "STATUS_OUT" => (Quiet \/ Pending)'
  PROVE  DriveInv'
<1>1. TypeOK'
  <2>1. TypeOK
    BY DEF DriveInv
  <2> QED BY <2>1, ClockTypes, RestTypes, LbaType DEF TypeOK, CaTypeOK
<1> QED BY <1>1, ClockTypes DEF DriveInv

\* Waiting.
LEMMA WaitStep == ASSUME DiskDrive, DriveInv, Wait PROVE DriveInv'
<1> USE DEF Wait
<1>0. TypeOK
  BY DEF DriveInv
<1>1. CASE phase = "DATA_OUT"
  <2>1. blk \in Nat /\ UNCHANGED <<blk, off, data_complete>>
    BY <1>1 DEF DriveInv, TypeOK, DriveCursors, DataRest, Counting
  <2>2. /\ FetchStage'
        /\ lba' = cmd_lba' + rd_hps_blk' /\ lba' \in Nat
        /\ rd_hps_blk' <= tlen'
        /\ rd_hps_blk' <= blk' + RING_BLOCKS
        /\ rd_busy' => rd_hps_blk' < tlen' /\ rd_hps_blk' < blk' + RING_BLOCKS
        /\ RingContent'
    <3> DEFINE nb == blk
    <3>1. nb \in Nat /\ blk' = nb /\ blk <= nb
      BY <2>1
    <3> HIDE DEF nb
    <3> QED BY <3>1, <1>1, DataClock
  <2>3. DriveCursors'
    BY <2>1, <2>2, <1>1 DEF DriveInv, DriveCursors
  <2>4. TypeOK'
    BY <1>0, <2>1, <2>2, ClockTypes DEF TypeOK, CaTypeOK
  <2> QED BY <2>2, <2>3, <2>4, <1>1, ClockTypes DEF DriveInv
<1>2. CASE phase = "IDLE"
  <2>1. ~io_rd_d' /\ ~rd_busy'
    BY <1>2 DEF DriveInv, Clock, IoEngine, req_rd
  <2> QED BY <2>1, <1>2, IdleStep
<1>3. CASE phase \in {"CMD_IN", "MESSAGE_OUT"}
  <2>1. Quiet'
    BY <1>3, QuietKept DEF DriveInv
  <2> QED BY <2>1, <1>3, IdleStep
<1>4. CASE phase = "STATUS_OUT"
  <2>1. (Quiet \/ Pending)'
    BY <1>4, PendingKept DEF DriveInv
  <2> QED BY <2>1, <1>4, IdleStep
<1> QED BY <1>0, <1>1, <1>2, <1>3, <1>4 DEF TypeOK

\* Selection: the aborted fetch, if any, has been drained.
LEMMA SelectStep == ASSUME DiskDrive, DriveInv, Select PROVE DriveInv'
<1>1. ~io_rd_d /\ ~rd_busy /\ hps = "idle"
  BY DEF DriveInv, Select, DiskDrive
<1>2. Quiet'
  BY <1>1 DEF DiskDrive, DriveInv, Select, Quiet, Clock, IoEngine,
       RingCounter, IoAck, AckFall, req_rd, IoRd, HpsRest, HpsMove, HpsTake,
       HpsRise, HpsFall, hpsVars
<1> QED BY <1>2, IdleStep DEF Select

\* A READ command starts a data phase with an empty ring.
LEMMA CommandStep ==
  ASSUME DiskDrive, DriveInv, NEW l \in LBAs, NEW t \in TLens, Command(l, t)
  PROVE  DriveInv'
<1>1. /\ l \in Nat /\ t \in 0 .. TLenMax /\ l + t < LBA_SPACE
      /\ RING_BLOCKS \in Nat /\ RING_BLOCKS >= 2
  BY RingAssumption DEF DiskDrive
<1>2. /\ phase' = "DATA_OUT" /\ cmd_lba' = l /\ lba' = l /\ tlen' = t
      /\ captured' = captured
      /\ blk' = 0 /\ off' = 0 /\ data_complete' = FALSE /\ rd_hps_blk' = 0
  BY DEF Command, DiskDrive, DataRest, Counting, Clock, RingCounter
<1>3. Quiet'
  BY QuietKept DEF Command, DriveInv
<1>4. TypeOK'
  BY <1>1, <1>2, ClockTypes, RestTypes DEF DriveInv, TypeOK, CaTypeOK, Command
<1>5. DriveCursors'
  BY <1>1, <1>2, <1>3 DEF DriveCursors, Quiet
<1>6. RingContent' /\ FetchStage'
  BY <1>2, <1>3 DEF RingContent, FetchStage
<1>7. lba' = cmd_lba' + rd_hps_blk' /\ cmd_lba' + tlen' < LBA_SPACE
  BY <1>1, <1>2
<1> QED BY <1>2, <1>4, <1>5, <1>6, <1>7, ClockTypes DEF DriveInv, Command

\* One pseudo-DMA access moves the cursor forward inside the transfer.
LEMMA TakeStep ==
  ASSUME DiskDrive, DriveInv, NEW n \in {1, 2, 4}, Take(n)
  PROVE  DriveInv'
<1> DEFINE nb == AdvBlk(n)
<1>0. TypeOK /\ n \in 1 .. 4 /\ phase = "DATA_OUT" /\ DriveCursors
  BY DEF DriveInv, Take
<1>1. /\ nb \in Nat /\ AdvOff(n) \in 0 .. BLOCK - 1 /\ blk <= nb
      /\ nb <= blk + 1 /\ AdvBlk(n - 1) <= AdvBlk(3)
      /\ nb = AdvBlk(n - 1) \/ AdvOff(n) = 0
      /\ AdvBlk(n - 1) \in Nat /\ blk <= AdvBlk(n - 1) /\ AdvBlk(n - 1) <= nb
  BY <1>0, Advance
<1>2. /\ ~data_complete /\ tlen # 0
      /\ nb < tlen \/ (nb = tlen /\ AdvOff(n) = 0)
  BY <1>0 DEF Take, req, data_done
<1>4. /\ blk' = nb /\ off' = AdvOff(n)
      /\ data_complete' = (nb = tlen /\ AdvOff(n) = 0)
  BY <1>2 DEF Take, DataAdvance
<1>5. UNCHANGED <<phase, cmd_lba, tlen>> /\ Clock(FALSE) /\ LbaCounter
  BY DEF Take
<1>6. /\ FetchStage'
      /\ lba' = cmd_lba' + rd_hps_blk' /\ lba' \in Nat
      /\ rd_hps_blk' <= tlen'
      /\ rd_hps_blk' <= blk' + RING_BLOCKS
      /\ rd_busy' => rd_hps_blk' < tlen' /\ rd_hps_blk' < blk' + RING_BLOCKS
      /\ RingContent'
  <2> HIDE DEF nb
  <2> QED BY <1>0, <1>1, <1>4, <1>5, DataClock
<1>7. DriveCursors'
  <2>1. /\ blk' = tlen' => off' = 0
        /\ blk' <= tlen'
        /\ data_complete' <=> (tlen' # 0 /\ blk' = tlen')
    <3>1. nb <= tlen /\ (nb = tlen => AdvOff(n) = 0)
      BY <1>0, <1>1, <1>2 DEF TypeOK
    <3> HIDE DEF nb
    <3> QED BY <3>1, <1>2, <1>4, <1>5
  <2> QED BY <1>6, <2>1 DEF DriveCursors
<1>8. captured' \subseteq Int
  <2>1. \A b \in blk .. AdvBlk(n - 1) : buf[Slot(b)] \in Int
    BY <1>0, <1>1, SlotType DEF TypeOK
  <2> QED BY <2>1 DEF Take
<1>9. TypeOK'
  BY <1>0, <1>1, <1>4, <1>5, <1>6, <1>8, ClockTypes DEF TypeOK, CaTypeOK
<1>10. cmd_lba' + tlen' < LBA_SPACE
  BY <1>0, <1>5 DEF DriveInv
<1> QED BY <1>0, <1>5, <1>6, <1>7, <1>9, <1>10, ClockTypes DEF DriveInv

\* The data phase ends; a fetch may be outstanding if the medium is out.
LEMMA EndDataStep == ASSUME DiskDrive, DriveInv, EndData PROVE DriveInv'
<1>1. phase = "DATA_OUT" /\ FetchStage /\ TypeOK /\ data_done
  BY DEF EndData, DriveInv
<1>2. ~req_rd /\ (IoAck <=> hps = "ack") /\ (IoRd <=> io_rd_d)
  BY <1>1 DEF req_rd, data_done, IoAck, IoRd, DriveInv
<1>3. Quiet \/ Pending
  BY <1>1 DEF FetchStage, Pending, TypeOK
<1>4. (Quiet \/ Pending)'
  <2>1. /\ io_rd_d' = (~IoAck /\ io_rd_d)
        /\ rd_busy' = (~AckFall /\ rd_busy)
        /\ old_io_ack' = IoAck
    BY <1>2 DEF EndData, Clock, IoEngine, RingCounter
  <2>2. HpsRest \/ HpsTake \/ HpsRise \/ HpsFall
    BY DEF EndData, Clock, HpsMove
  <2>3. \/ hps' = hps
        \/ hps = "idle" /\ io_rd_d /\ hps' = "busy"
        \/ hps = "busy" /\ hps' = "ack"
        \/ hps = "ack" /\ hps' = "idle"
    BY <1>2, <2>2 DEF HpsRest, HpsTake, HpsRise, HpsFall, hpsVars
  <2> QED BY <1>1, <1>2, <1>3, <2>1, <2>3 DEF Quiet, Pending, AckFall, TypeOK
<1> QED BY <1>4, IdleStep DEF EndData

\* The status and message bytes: the status waits for an outstanding fetch.
LEMMA LastBytesStep == ASSUME DiskDrive, DriveInv, LastBytes PROVE DriveInv'
<1>1. Quiet'
  <2>1. CASE Quiet
    BY <2>1, QuietKept DEF LastBytes
  <2>2. CASE Pending
    <3>1. phase = "STATUS_OUT" /\ ~io_rd_d /\ ~IoAck
      BY <2>2 DEF LastBytes, DriveInv, Pending, Quiet, req, io_busy
    <3>2. rd_busy /\ old_io_ack /\ AckFall /\ hps = "idle"
      BY <2>2, <3>1 DEF Pending, DriveInv, TypeOK, DiskDrive, IoAck, AckFall
    <3>3. HpsRest
      BY <3>1, <3>2 DEF LastBytes, Clock, HpsMove, HpsTake, HpsRise, HpsFall, IoRd, DriveInv
    <3> QED BY <3>1, <3>2, <3>3
            DEF LastBytes, Clock, IoEngine, RingCounter, req_rd, HpsRest, hpsVars, Quiet
  <2> QED BY <2>1, <2>2 DEF LastBytes, DriveInv
<1>2. TypeOK'
  <2>1. TypeOK
    BY DEF DriveInv
  <2>2. AdvBlk(1) \in Nat /\ AdvOff(1) \in 0 .. BLOCK - 1
    BY <2>1, Advance
  <2>3. /\ blk' \in Nat /\ off' \in 0 .. BLOCK - 1
        /\ data_complete' \in BOOLEAN
    BY <2>1, <2>2 DEF LastBytes, DataAdvance, TypeOK
  <2> QED BY <2>1, <2>3, ClockTypes, LbaType DEF TypeOK, CaTypeOK, LastBytes
<1>3. phase' \in {"MESSAGE_OUT", "IDLE"}
  BY DEF LastBytes
<1> QED BY <1>1, <1>2, <1>3, ClockTypes DEF DriveInv, LastBytes, Quiet

\* A bus reset at any point.
LEMMA BusResetStep == ASSUME DiskDrive, DriveInv, BusReset PROVE DriveInv'
  BY ResetClears, IdleStep DEF BusReset

\* Every step keeps the invariant.
LEMMA DriveInvNext == ASSUME DiskDrive, DriveInv, [Next]_vars PROVE DriveInv'
<1>1. CASE UNCHANGED vars
  BY <1>1 DEF vars, hostVars, ioVars, hpsVars, caVars, ca_act, DriveInv, TypeOK, Quiet, Pending,
       FetchStage, DriveCursors, RingContent
<1>2. CASE Next
  BY <1>2, WaitStep, SelectStep, CommandStep, TakeStep, EndDataStep,
     LastBytesStep, BusResetStep DEF Next
<1> QED BY <1>1, <1>2

LEMMA DriveInvariant == ASSUME DiskDrive PROVE Spec => []DriveInv
<1>1. Init => DriveInv
  BY DriveInvInit
<1>2. DriveInv /\ [Next]_vars => DriveInv'
  BY DriveInvNext
<1> QED BY <1>1, <1>2, PTL DEF Spec

-----------------------------------------------------------------------------
(* With the medium in *)

\* What a medium that stays in adds: the host stays behind the fetch frontier,
\* and its data phase ends with every sector delivered.
Steady ==
  /\ mounted
  /\ phase = "DATA_OUT" => blk <= rd_hps_blk
  /\ phase = "STATUS_OUT" => Quiet

LEMMA SteadyDrive == RingInv <=> DriveInv /\ Steady
<1>1. ASSUME RingInv PROVE DriveInv /\ Steady
  BY <1>1 DEF RingInv, DriveInv, Steady, Cursors, DriveCursors, TypeOK
<1>2. ASSUME DriveInv, Steady PROVE RingInv
  BY <1>2 DEF RingInv, DriveInv, Steady, Cursors, DriveCursors
<1> QED BY <1>1, <1>2

\* One access: the cursor stays behind the fetch frontier because REQ was up,
\* that is because the sector three bytes ahead was delivered.
LEMMA TakeBehind ==
  ASSUME DriveInv, Steady, NEW n \in {1, 2, 4}, Take(n)
  PROVE  blk' <= rd_hps_blk'
<1> DEFINE nb == AdvBlk(n)
<1>0. TypeOK /\ n \in 1 .. 4 /\ phase = "DATA_OUT" /\ DriveCursors
  BY DEF DriveInv, Take
<1>1. nb \in Nat /\ nb <= blk + 1 /\ (nb = AdvBlk(n - 1) \/ AdvOff(n) = 0)
      /\ AdvBlk(n - 1) <= AdvBlk(3) /\ AdvBlk(n - 1) \in Nat /\ blk <= nb
  BY <1>0, Advance
<1>2. /\ ~data_complete /\ tlen # 0
      /\ nb < tlen \/ (nb = tlen /\ AdvOff(n) = 0)
      /\ blk < rd_hps_blk
      /\ AdvBlk(3) < tlen => AdvBlk(3) < rd_hps_blk
  <2>1. ~data_done /\ ~io_busy
    BY <1>0 DEF Take, req
  <2>2. mounted /\ AdvBlk(3) \in Nat
    BY <1>0, Advance DEF Steady
  <2> QED BY <1>0, <2>1, <2>2
          DEF Take, io_busy, data_done, rd_ahead_needed, rd_ahead_blk, TypeOK
<1>3. nb <= rd_hps_blk
  <2>1. tlen \in Nat /\ rd_hps_blk \in Nat /\ blk \in Nat /\ AdvBlk(3) \in Nat
    BY <1>0, Advance DEF TypeOK
  <2>2. CASE nb = blk
    BY <2>1, <2>2, <1>2
  <2>3. CASE nb = blk + 1
    BY <2>1, <2>3, <1>1, <1>2
  <2> QED BY <1>1, <2>1, <2>2, <2>3
<1>4. blk' = nb
  BY <1>2 DEF Take, DataAdvance
<1>5. rd_hps_blk \in Nat /\ rd_hps_blk' \in {rd_hps_blk, rd_hps_blk + 1}
  BY <1>0 DEF Take, Clock, RingCounter, Counting, TypeOK
<1> HIDE DEF nb
<1> QED BY <1>1, <1>3, <1>4, <1>5

LEMMA SteadyNext == ASSUME DiskTarget, DriveInv, Steady, [Next]_vars PROVE Steady'
<1>0. DiskDrive /\ TypeOK
  BY DEF DiskTarget, DiskDrive, DriveInv
<1>1. CASE UNCHANGED vars
  BY <1>1 DEF vars, hostVars, ioVars, hpsVars, Steady, Quiet
<1>2. ASSUME Next PROVE mounted'
  <2>1. MediaMove
    BY <1>2 DEF Next, Wait, Select, Command, Take, EndData, LastBytes, BusReset, Clock
  <2> QED BY <2>1 DEF MediaMove, DiskTarget, Steady
<1>3. CASE Wait
  <2>1. CASE phase = "DATA_OUT"
    <3>1. blk' = blk /\ phase' = phase /\ rd_hps_blk' \in {rd_hps_blk, rd_hps_blk + 1}
      BY <1>3, <2>1 DEF Wait, DataRest, Counting, Clock, RingCounter
    <3>2. mounted'
      BY <1>2, <1>3 DEF Next
    <3> QED BY <1>0, <2>1, <3>1, <3>2 DEF Steady, TypeOK
  <2>2. CASE phase = "STATUS_OUT"
    <3>1. Quiet'
      BY <1>0, <1>3, <2>2, QuietKept DEF Wait, Steady
    <3> QED BY <1>2, <1>3, <2>2, <3>1 DEF Next, Wait, Steady
  <2>3. CASE phase \notin {"DATA_OUT", "STATUS_OUT"}
    BY <1>2, <1>3, <2>3 DEF Next, Wait, Steady
  <2> QED BY <2>1, <2>2, <2>3
<1>4. ASSUME NEW l \in LBAs, NEW t \in TLens, Command(l, t) PROVE Steady'
  <2>1. phase' = "DATA_OUT" /\ blk' = 0 /\ rd_hps_blk' = 0
    BY <1>4 DEF Command, DiskTarget, DataRest, Counting, Clock, RingCounter
  <2>2. mounted'
    BY <1>2, <1>4 DEF Next
  <2> QED BY <2>1, <2>2 DEF Steady
<1>5. ASSUME NEW n \in {1, 2, 4}, Take(n) PROVE Steady'
  <2>1. blk' <= rd_hps_blk' /\ phase' = "DATA_OUT"
    BY <1>5, TakeBehind DEF Take
  <2>2. mounted'
    BY <1>2, <1>5 DEF Next
  <2> QED BY <2>1, <2>2 DEF Steady
<1>6. CASE EndData
  <2>1. phase = "DATA_OUT" /\ FetchStage /\ DriveCursors /\ blk = tlen /\ blk <= rd_hps_blk
    BY <1>0, <1>6 DEF EndData, DriveInv, Steady, data_done, DriveCursors, TypeOK
  <2>2. rd_hps_blk = tlen /\ ~rd_busy
    BY <1>0, <2>1 DEF DriveCursors, TypeOK
  <2>3. Quiet
    BY <2>1, <2>2 DEF FetchStage
  <2>4. ~req_rd
    BY <1>0, <2>2 DEF req_rd, TypeOK
  <2>5. Quiet'
    BY <1>0, <1>6, <2>1, <2>3, <2>4 DEF DiskDrive, DriveInv, TypeOK, Quiet, EndData, Clock,
         IoEngine, RingCounter, IoAck, AckFall, IoRd, HpsRest, HpsMove,
         HpsTake, HpsRise, HpsFall, hpsVars
  <2> QED BY <1>2, <1>6, <2>5 DEF Next, EndData, Steady
<1>7. CASE Select \/ LastBytes \/ BusReset
  BY <1>2, <1>7 DEF Next, Select, LastBytes, BusReset, Steady
<1> QED BY <1>1, <1>3, <1>4, <1>5, <1>6, <1>7 DEF Next

\* RingInv holds in every reachable state of a disk target: the fetch engine
\* of rtl/scsi.v keeps address, ring and cursors consistent whatever the
\* relative speed of the HPS, the host and its resets.
THEOREM RingInvariant == ASSUME DiskTarget PROVE Spec => []RingInv
<1>1. Init => Steady
  BY DEF Init, Steady
<1>2. DriveInv /\ Steady /\ [Next]_vars => Steady'
  BY SteadyNext
<1>3. DriveInv /\ Steady => RingInv
  BY SteadyDrive
<1>4. DiskDrive
  BY DEF DiskTarget, DiskDrive
<1> QED BY <1>1, <1>2, <1>3, <1>4, DriveInvariant, PTL DEF Spec

-----------------------------------------------------------------------------
(* What follows from the invariant *)

\* REQ up in a READ's data phase means every byte one access can take is in
\* the ring and belongs to the command.
LEMMA ServedValidFromInv == ASSUME DriveInv PROVE ServedValid
<1> SUFFICES ASSUME phase = "DATA_OUT", mounted, req,
                    NEW b \in blk .. rd_ahead_blk, b < tlen
             PROVE  buf[Slot(b)] = cmd_lba + b
  BY DEF ServedValid
<1>1. /\ blk \in Nat /\ AdvBlk(3) \in Nat /\ AdvBlk(3) <= blk + 1
      /\ rd_hps_blk \in Nat /\ tlen \in Nat /\ RingContent
  BY Advance DEF DriveInv, TypeOK
<1>2. blk < rd_hps_blk /\ (AdvBlk(3) < tlen => AdvBlk(3) < rd_hps_blk)
  BY <1>1 DEF req, io_busy, rd_ahead_needed, rd_ahead_blk
<1>3. b \in blk .. rd_hps_blk - 1
  BY <1>1, <1>2 DEF rd_ahead_blk
<1> QED BY <1>1, <1>3 DEF RingContent

\* The medium of a disk may be taken out and put back at any time, inside a READ
\* too: while it is in, REQ still offers no byte but the command's own, from a
\* sector that has been delivered.
THEOREM ServedAcrossLoss == ASSUME DiskDrive PROVE Spec => []ServedValid
<1>1. DriveInv => ServedValid
  BY ServedValidFromInv
<1> QED BY <1>1, DriveInvariant, PTL

\* The READ path of a disk never serves a stale, torn or foreign byte, never
\* lets the host pass the fetch frontier, fetches exactly its own sectors,
\* and keeps the fetch address in step with the ring.
THEOREM ReadPathSafe ==
  ASSUME DiskTarget
  PROVE  Spec => [](ServedValid /\ FetchFrontier /\ FetchExact /\ LbaTracksRing)
<1>1. RingInv => ServedValid
  BY SteadyDrive, ServedValidFromInv
<1>2. RingInv => FetchFrontier /\ FetchExact /\ LbaTracksRing
  BY DEF RingInv, FetchFrontier, FetchExact, LbaTracksRing, Cursors, Quiet
<1> QED BY <1>1, <1>2, RingInvariant, PTL

LEMMA IndexTypes ==
  ASSUME TypeOK, NEW n \in {1, 2, 4}
  PROVE  /\ AdvBlk(n) \in Nat /\ AdvOff(n) \in 0 .. BLOCK - 1
         /\ AdvBlk(n - 1) \in Nat
  BY RingAssumption DEF TypeOK, AdvBlk, AdvOff

\* Cursors and flags of the host's side, at rest and when bytes are taken.
LEMMA DataTypes ==
  ASSUME TypeOK, DataRest \/ \E n \in {1, 2, 4} : DataAdvance(n)
  PROVE  blk' \in Nat /\ off' \in 0 .. BLOCK - 1 /\ data_complete' \in BOOLEAN
<1>1. CASE DataRest
  <2>1. 0 \in 0 .. BLOCK - 1
    BY RingAssumption
  <2>2. CASE phase \in Counting
    BY <1>1, <2>2 DEF DataRest, TypeOK
  <2>3. CASE phase \notin Counting
    <3>1. blk' = 0 /\ off' = 0 /\ data_complete' = FALSE
      BY <1>1, <2>3, Zenon DEF DataRest
    <3> QED BY <2>1, <3>1
  <2> QED BY <2>2, <2>3
<1>2. ASSUME NEW n \in {1, 2, 4}, DataAdvance(n)
      PROVE  blk' \in Nat /\ off' \in 0 .. BLOCK - 1 /\ data_complete' \in BOOLEAN
  BY <1>2, IndexTypes DEF DataAdvance, TypeOK
<1> QED BY <1>1, <1>2

\* A clock edge of either kind of target.
LEMMA AnyClockTypes ==
  ASSUME TypeOK, NEW rst \in BOOLEAN, Clock(rst)
  PROVE  /\ mounted' \in BOOLEAN
         /\ io_rd_d' \in BOOLEAN /\ rd_busy' \in BOOLEAN /\ old_io_ack' \in BOOLEAN
         /\ rd_hps_blk' \in Nat
         /\ buf' \in [Slots -> Int]
         /\ hps' \in {"idle", "busy", "ack"} /\ hps_lba' \in Int
         /\ CaTypeOK'
<1>1. mounted' \in BOOLEAN
  BY DEF Clock, MediaMove, TypeOK
<1>2. io_rd_d' \in BOOLEAN /\ rd_busy' \in BOOLEAN /\ old_io_ack' \in BOOLEAN
  BY DEF Clock, IoEngine, RingCounter, IoAck
<1>3. rd_hps_blk' \in Nat
  BY DEF Clock, RingCounter, TypeOK
<1>4. ASSUME NEW x \in Int, Fill(x) PROVE buf' \in [Slots -> Int]
  BY <1>4 DEF Fill, TypeOK
<1>5. NoSector \in Int /\ CaWindow \in Int /\ lba \in Int /\ hps_lba \in Int
  BY DEF NoSector, CaWindow, TypeOK
<1>6. buf' \in [Slots -> Int]
  BY <1>4, <1>5 DEF Clock, HpsRest, HpsMove, HpsTake, HpsRise, HpsFall, hpsVars, TypeOK
<1>7. hps' \in {"idle", "busy", "ack"} /\ hps_lba' \in Int
  BY <1>5 DEF Clock, HpsRest, HpsMove, HpsTake, HpsRise, HpsFall, hpsVars, TypeOK
<1>8. CaTypeOK'
  <2>1. PICK pulse \in Pulses : CaClock(pulse)
    BY DEF Clock
  <2>2. CASE ~CDROM
    BY <2>1, <2>2 DEF CaClock, caVars, TypeOK, CaTypeOK
  <2>3. CASE CDROM
    <3>1. TocMove(pulse) /\ FrameMove /\ ca_rd' \in BOOLEAN
      BY <2>1, <2>3 DEF CaClock
    <3>2. /\ mst' \in {"M_IDLE", "M_ACQ_REQ", "M_ACQ_WAIT", "M_BUILD", "M_CMD"}
          /\ blob_blk' \in BOOLEAN /\ toc_ready' \in BOOLEAN
      BY <3>1 DEF TocMove, TypeOK
    <3>3. fst' \in {"F_IDLE", "F_REQ", "F_WAIT"}
      BY <3>1 DEF FrameMove, TypeOK
    <3> QED BY <3>1, <3>2, <3>3 DEF CaTypeOK
  <2> QED BY <2>2, <2>3
<1> QED BY <1>1, <1>2, <1>3, <1>6, <1>7, <1>8

\* Every register of the READ path stays in its type, on a disk and on the
\* CD-ROM target with its audio engine alike, whatever becomes of the medium and
\* of aborted fetches: no cursor, offset or address of rtl/scsi.v leaves its range.
THEOREM ReadPathTypes == Spec => []TypeOK
<1>1. Init => TypeOK
  <2> SUFFICES ASSUME Init PROVE TypeOK
    OBVIOUS
  <2>1. /\ cmd_lba \in Nat /\ lba \in Nat /\ tlen \in 0 .. TLenMax
        /\ blk \in Nat /\ off \in 0 .. BLOCK - 1 /\ rd_hps_blk \in Nat
    BY RingAssumption DEF Init
  <2>2. buf \in [Slots -> Int] /\ hps_lba \in Int /\ captured \subseteq Int
    BY DEF Init, NoSector, CaWindow
  <2>3. /\ phase \in {"IDLE", "CMD_IN", "DATA_OUT", "STATUS_OUT", "MESSAGE_OUT"}
        /\ hps \in {"idle", "busy", "ack"}
        /\ mounted \in BOOLEAN /\ data_complete \in BOOLEAN
        /\ io_rd_d \in BOOLEAN /\ rd_busy \in BOOLEAN /\ old_io_ack \in BOOLEAN
        /\ CaTypeOK
    BY DEF Init, CaTypeOK
  <2> QED BY <2>1, <2>2, <2>3 DEF TypeOK, CaTypeOK
<1>2. ASSUME TypeOK, Next PROVE TypeOK'
  <2>1. PICK rst \in BOOLEAN : Clock(rst)
    BY <1>2 DEF Next, Wait, Select, Command, Take, EndData, LastBytes, BusReset
  <2>2. blk' \in Nat /\ off' \in 0 .. BLOCK - 1 /\ data_complete' \in BOOLEAN
    <3>1. DataRest \/ \E n \in {1, 2, 4} : DataAdvance(n)
      BY <1>2 DEF Next, Wait, Select, Command, Take, EndData, LastBytes, BusReset
    <3> QED BY <1>2, <3>1, DataTypes
  <2>3. lba' \in Nat
    <3>1. LbaCounter \/ lba' \in LBAs
      BY <1>2 DEF Next, Wait, Select, Command, Take, EndData, LastBytes, BusReset
    <3>2. LbaCounter => lba' \in {lba, lba + 1, 0}
      BY DEF LbaCounter
    <3>3. lba \in Nat /\ LBAs \subseteq Nat
      BY <1>2, RingAssumption DEF TypeOK
    <3>4. LbaCounter => lba' \in Nat
      BY <3>2, <3>3
    <3> QED BY <3>1, <3>3, <3>4, Zenon
  <2>4. /\ phase' \in {"IDLE", "CMD_IN", "DATA_OUT", "STATUS_OUT", "MESSAGE_OUT"}
        /\ cmd_lba' \in Nat /\ tlen' \in 0 .. TLenMax
    BY <1>2, RingAssumption
       DEF Next, Wait, Select, Command, Take, EndData, LastBytes, BusReset, TypeOK
  <2>5. captured' \subseteq Int
    <3>1. ASSUME NEW n \in {1, 2, 4}, Take(n) PROVE captured' \subseteq Int
      <4>1. ASSUME NEW b \in blk .. AdvBlk(n - 1) PROVE buf[Slot(b)] \in Int
        <5>1. b \in Nat
          BY <1>2, <4>1, IndexTypes DEF TypeOK
        <5> QED BY <1>2, <5>1, SlotType DEF TypeOK
      <4> QED BY <3>1, <4>1 DEF Take
    <3> QED BY <1>2, <3>1
            DEF Next, Wait, Select, Command, EndData, LastBytes, BusReset, TypeOK
  <2>6. /\ mounted' \in BOOLEAN
        /\ io_rd_d' \in BOOLEAN /\ rd_busy' \in BOOLEAN /\ old_io_ack' \in BOOLEAN
        /\ rd_hps_blk' \in Nat
        /\ buf' \in [Slots -> Int]
        /\ hps' \in {"idle", "busy", "ack"} /\ hps_lba' \in Int
        /\ CaTypeOK'
    BY <1>2, <2>1, AnyClockTypes
  <2> QED BY <2>2, <2>3, <2>4, <2>5, <2>6 DEF TypeOK, CaTypeOK
<1>3. ASSUME TypeOK, UNCHANGED vars PROVE TypeOK'
  BY <1>3 DEF vars, hostVars, ioVars, hpsVars, caVars, TypeOK
<1> QED BY <1>1, <1>2, <1>3, PTL DEF Spec

\* The address the fetch engine presents is the one of the sector the ring
\* waits for, so a fetched sector always lands in its own slot, also in a READ
\* that has lost its medium or got it back.
THEOREM FetchAddressTracks == ASSUME DiskDrive PROVE Spec => []LbaTracksRing
<1>1. DriveInv => LbaTracksRing
  BY DEF DriveInv, LbaTracksRing
<1> QED BY <1>1, DriveInvariant, PTL

\* Inside a data phase the host's cursor, the fetch cursor and the command
\* only move forward.
LEMMA DataMonotone ==
  ASSUME DiskDrive, DriveInv, [Next]_vars, phase = "DATA_OUT",
         phase' = "DATA_OUT"
  PROVE  /\ cmd_lba' = cmd_lba /\ blk' \in Nat /\ blk <= blk'
         /\ rd_hps_blk <= rd_hps_blk' /\ rd_hps_blk' \in Nat
<1>0. TypeOK
  BY DEF DriveInv
<1>1. ASSUME Clock(FALSE) PROVE rd_hps_blk <= rd_hps_blk' /\ rd_hps_blk' \in Nat
  BY <1>0, <1>1 DEF Clock, RingCounter, Counting, TypeOK
<1>2. CASE Wait
  BY <1>0, <1>1, <1>2 DEF Wait, DataRest, Counting, TypeOK
<1>3. ASSUME NEW n \in {1, 2, 4}, Take(n)
      PROVE  cmd_lba' = cmd_lba /\ blk' \in Nat /\ blk <= blk'
  <2>1. AdvBlk(n) \in Nat /\ blk <= AdvBlk(n)
    BY <1>0, <1>3, Advance
  <2> QED BY <1>0, <1>3, <2>1 DEF Take, DataAdvance, TypeOK
<1>4. ASSUME NEW n \in {1, 2, 4}, Take(n) PROVE Clock(FALSE)
  BY <1>4 DEF Take
<1>5. CASE UNCHANGED vars
  BY <1>0, <1>5 DEF vars, hostVars, ioVars, TypeOK
<1>6. ~(Select \/ EndData \/ LastBytes \/ BusReset)
      /\ \A l \in LBAs, t \in TLens : ~Command(l, t)
  BY DEF Select, EndData, LastBytes, BusReset, Command
<1> QED BY <1>1, <1>2, <1>3, <1>4, <1>5, <1>6 DEF Next

\* No step overwrites a delivered sector the host has not drained, with or
\* without the medium.
THEOREM UnreadSectorsKept == ASSUME DiskDrive PROVE Spec => UnreadKept
<1>1. ASSUME DriveInv, DriveInv', [Next]_vars, phase = "DATA_OUT",
             phase' = "DATA_OUT", NEW b \in blk' .. rd_hps_blk - 1
      PROVE  buf'[Slot(b)] = buf[Slot(b)]
  <2>1. /\ cmd_lba' = cmd_lba /\ blk' \in Nat /\ blk <= blk'
        /\ rd_hps_blk <= rd_hps_blk' /\ rd_hps_blk' \in Nat
        /\ blk \in Nat /\ rd_hps_blk \in Nat
    BY <1>1, DataMonotone DEF DriveInv, TypeOK
  <2>2. PICK lo \in Nat, hi \in Nat : lo = blk' /\ hi = rd_hps_blk'
    BY <2>1
  <2>a. b \in lo .. rd_hps_blk - 1 /\ blk <= lo /\ rd_hps_blk <= hi
    BY <1>1, <2>1, <2>2, Zenon
  <2>3. b \in blk .. rd_hps_blk - 1 /\ b \in lo .. hi - 1
    BY <2>1, <2>a
  <2>4. buf[Slot(b)] = cmd_lba + b
    BY <1>1, <2>3 DEF DriveInv, RingContent
  <2>5. buf'[Slot(b)] = cmd_lba' + b
    BY <1>1, <2>2, <2>3 DEF DriveInv, RingContent
  <2> QED BY <2>1, <2>4, <2>5
<1>2. DriveInv /\ DriveInv' /\ [Next]_vars =>
        [phase = "DATA_OUT" /\ phase' = "DATA_OUT" =>
           \A b \in blk' .. rd_hps_blk - 1 : buf'[Slot(b)] = buf[Slot(b)]]_vars
  BY <1>1
<1> QED BY <1>2, DriveInvariant, PTL DEF Spec, UnreadKept

-----------------------------------------------------------------------------
(* The READ path implements the sector stream *)

\* The sectors one access takes its bytes from are all in the ring.
LEMMA TakenSectors ==
  ASSUME DiskTarget, RingInv, NEW n \in {1, 2, 4}, Take(n)
  PROVE  /\ captured' = {cmd_lba + b : b \in blk .. AdvBlk(n - 1)}
         /\ ~data_complete
<1>1. /\ phase = "DATA_OUT" /\ mounted /\ req /\ RingContent
      /\ blk \in Nat /\ off \in 0 .. BLOCK - 1 /\ tlen \in Nat
      /\ rd_hps_blk \in Nat /\ BLOCK \in Nat /\ BLOCK >= 4
      /\ AdvBlk(n) < tlen \/ (AdvBlk(n) = tlen /\ AdvOff(n) = 0)
  BY RingAssumption DEF Take, RingInv, TypeOK
<1>2. ~data_complete
  BY <1>1 DEF req, data_done
<1>3. blk < rd_hps_blk /\ (AdvBlk(3) < tlen => AdvBlk(3) < rd_hps_blk)
  BY <1>1 DEF req, io_busy, rd_ahead_needed, rd_ahead_blk, AdvBlk
<1>4. AdvBlk(n - 1) < rd_hps_blk /\ AdvBlk(n - 1) \in Nat
  <2>1. CASE off + (n - 1) < BLOCK
    BY <1>1, <1>3, <2>1 DEF AdvBlk
  <2>2. CASE off + (n - 1) >= BLOCK
    <3>1. AdvBlk(n) = blk + 1 /\ AdvOff(n) # 0
      BY <1>1, <2>2 DEF AdvBlk, AdvOff
    <3>2. AdvBlk(3) = blk + 1 /\ AdvBlk(n - 1) = blk + 1
      BY <1>1, <2>2 DEF AdvBlk
    <3> QED BY <1>1, <1>3, <3>1, <3>2
  <2> QED BY <1>1, <2>1, <2>2
<1>5. \A b \in blk .. AdvBlk(n - 1) : b \in blk .. rd_hps_blk - 1
  BY <1>1, <1>4
<1>6. \A b \in blk .. AdvBlk(n - 1) : buf[Slot(b)] = cmd_lba + b
  BY <1>1, <1>5 DEF RingContent
<1>7. captured' = {buf[Slot(b)] : b \in blk .. AdvBlk(n - 1)}
  BY DEF Take
<1> QED BY <1>2, <1>6, <1>7

\* Every step is a step of the stream or leaves it alone.
LEMMA StreamStep ==
  ASSUME DiskTarget, RingInv, [Next]_vars
  PROVE  [Stream!Next]_(Stream!vars)
<1>1. CASE UNCHANGED vars
  BY <1>1 DEF vars, hostVars, Stream!vars
<1>2. CASE Wait
  BY <1>2 DEF Wait, DataRest, Counting, Stream!vars
<1>3. CASE Select
  BY <1>3 DEF Select, Stream!vars
<1>4. ASSUME NEW l \in LBAs, NEW t \in TLens, Command(l, t)
      PROVE  Stream!Begin(l, t)
  BY <1>4 DEF DiskTarget, Command, DataRest, Counting, Stream!Begin
<1>5. ASSUME NEW n \in {1, 2, 4}, Take(n) PROVE Stream!Deliver(n)
  BY <1>5, TakenSectors DEF Take, DataAdvance, AdvBlk, AdvOff,
     Stream!Deliver, Stream!BlkAt, Stream!OffAt, Stream!Carry
<1>6. CASE EndData
  <2>1. blk = tlen /\ off = 0
    BY <1>6 DEF EndData, data_done, RingInv, Cursors, TypeOK
  <2> QED BY <1>6, <2>1 DEF EndData, Stream!Finish, Stream!Next
<1>7. CASE LastBytes
  BY <1>7 DEF LastBytes, Stream!vars, Stream!Close, Stream!Next
<1>8. CASE BusReset
  BY <1>8 DEF BusReset, RingInv, TypeOK, Stream!vars, Stream!Close, Stream!Next
<1> QED BY <1>1, <1>2, <1>3, <1>4, <1>5, <1>6, <1>7, <1>8
       DEF Next, Stream!Next

\* A disk target delivers every READ as the in-order stream of exactly its
\* own sectors (ReadStream), for every ring size, sector size and schedule
\* of the HPS, the host and bus resets.
THEOREM ReadImplementsStream ==
  ASSUME DiskTarget PROVE Spec => ImplementsStream
<1>1. Init => Stream!Init
  BY DEF Init, Stream!Init
<1>2. RingInv /\ [Next]_vars => [Stream!Next]_(Stream!vars)
  BY StreamStep
<1> QED BY <1>1, <1>2, RingInvariant, PTL
       DEF Spec, ImplementsStream, Stream!Spec

=============================================================================

------------------------ MODULE ScsiWriteFlushProofs ------------------------
(***************************************************************************)
(* Proofs about ScsiWriteFlush, for every sector size, address set and set *)
(* of transfer lengths: WriteInv is inductive for accesses that stay       *)
(* inside a sector, and the safety properties and the refinement of        *)
(* WriteStream follow from it.                                             *)
(***************************************************************************)
EXTENDS ScsiWriteFlush, TLAPS

\* Every pseudo-DMA access stays inside one sector.
Aligned == Straddle = FALSE

\* The phases in which sectors are being flushed.
Transferring == phase \in {"DATA_IN", "STATUS_OUT"}

-----------------------------------------------------------------------------
(* One clock edge *)

\* Neighbouring sectors use different halves, every other one the same.
LEMMA Parity ==
  ASSUME NEW n \in Nat
  PROVE  n % 2 \in {0, 1} /\ (n + 1) % 2 = 1 - (n % 2) /\ (n + 2) % 2 = n % 2
  OBVIOUS

\* The registers of the flush engine, spelt out.
LEMMA Edge ==
  ASSUME WriteInv, Clock(FALSE), LbaCounter, phase # "IDLE"
  PROVE  /\ IoAck <=> hps = "ack"
         /\ old_wr' = req_wr /\ old_io_ack' = (hps = "ack")
         /\ io_wr' = (hps # "ack" /\ (wr_pending \/ io_wr))
         /\ wr_pending' = ((NewBlock \/ wr_pending)
                           /\ ~(hps # "ack" /\ wr_pending /\ ~io_wr))
         /\ lba' = lba + Bit(old_io_ack /\ hps # "ack")
         /\ sd_buff_sel' = IF old_io_ack /\ hps # "ack" THEN 1 - sd_buff_sel
                           ELSE sd_buff_sel
         /\ HpsRest \/ HpsTake \/ HpsRise \/ HpsRead \/ HpsFall
<1>1. IoAck <=> hps = "ack"
  BY DEF IoAck
<1>2. old_wr \in BOOLEAN /\ wr_pending \in BOOLEAN /\ io_wr \in BOOLEAN
      /\ old_io_ack \in BOOLEAN /\ lba \in Nat
  BY DEF WriteInv, TypeOK
<1>3. old_wr' = req_wr /\ old_io_ack' = (hps = "ack")
  BY <1>1 DEF Clock, FlushEngine, BufferSelect, req_wr
<1>4. io_wr' = (hps # "ack" /\ (wr_pending \/ io_wr))
  BY <1>1, <1>2 DEF Clock, FlushEngine
<1>5. wr_pending' = ((NewBlock \/ wr_pending)
                     /\ ~(hps # "ack" /\ wr_pending /\ ~io_wr))
  BY <1>1, <1>2 DEF Clock, FlushEngine, NewBlock
<1>6. lba' = lba + Bit(old_io_ack /\ hps # "ack")
  BY <1>1, <1>2 DEF LbaCounter, AckFall, Bit
<1>7. sd_buff_sel' = IF old_io_ack /\ hps # "ack" THEN 1 - sd_buff_sel
                     ELSE sd_buff_sel
  BY <1>1, <1>2 DEF Clock, BufferSelect, AckFall
<1> QED BY <1>1, <1>3, <1>4, <1>5, <1>6, <1>7 DEF Clock, HpsMove

\* An edge keeps the types of what it drives.
LEMMA ClockTypes ==
  ASSUME WriteInv, NEW rst \in BOOLEAN, Clock(rst), tlen' = tlen
  PROVE  /\ io_wr' \in BOOLEAN /\ wr_pending' \in BOOLEAN
         /\ old_wr' \in BOOLEAN /\ old_io_ack' \in BOOLEAN
         /\ sd_buff_sel' \in {0, 1}
         /\ hps' \in {"idle", "busy", "ack"} /\ hps_lba' \in Nat
         /\ hps_pos' \in 0 .. BLOCK /\ hps_data' \in SUBSET Int
         /\ image' \in [0 .. tlen' - 1 -> SUBSET Int]
<1> USE DEF WriteInv, TypeOK
<1>0. BLOCK \in Nat /\ BLOCK >= 2
  BY WriteAssumption
<1>1. io_wr' \in BOOLEAN /\ wr_pending' \in BOOLEAN /\ old_wr' \in BOOLEAN
  BY DEF Clock, FlushEngine, req_wr
<1>2. old_io_ack' \in BOOLEAN /\ sd_buff_sel' \in {0, 1}
  BY DEF Clock, BufferSelect, IoAck
<1>3. /\ hps' \in {"idle", "busy", "ack"} /\ hps_lba' \in Nat
      /\ hps_pos' \in 0 .. BLOCK /\ hps_data' \in SUBSET Int
      /\ image' \in [0 .. tlen - 1 -> SUBSET Int]
  <2>1. CASE HpsRest
    BY <2>1 DEF HpsRest, hpsVars
  <2>2. CASE HpsTake
    BY <2>2, <1>0 DEF HpsTake
  <2>3. CASE HpsRise
    BY <2>3 DEF HpsRise
  <2>4. CASE HpsRead
    <3>1. hps_pos \in Offsets /\ hps_pos + 1 \in 0 .. BLOCK
      BY <2>4, <1>0 DEF HpsRead, Offsets
    <3>2. half[sd_buff_sel][hps_pos] \in Int
      BY <3>1
    <3> QED BY <2>4, <3>1, <3>2 DEF HpsRead
  <2>5. CASE HpsFall
    BY <2>5 DEF HpsFall
  <2> QED BY <2>1, <2>2, <2>3, <2>4, <2>5 DEF Clock, HpsMove
<1> QED BY <1>1, <1>2, <1>3

\* In a running WRITE an edge moves the flush through its stages, keeps the
\* account of the complete sectors, and lands at most the next one.
LEMMA FlushStep ==
  ASSUME WriteInv, Transferring, Clock(FALSE), LbaCounter, cmd_lba' = cmd_lba
  PROVE  /\ FlushStage'
         /\ Flushed' \in Nat /\ sd_buff_sel' = Flushed' % 2
         /\ blk = Flushed' + Bit(Flushing') + Bit(wr_pending')
         /\ Landed \in Nat /\ Landed <= blk
         /\ Landed' = Landed + Bit(HpsFall)
         /\ HpsFall => Landed = Flushed /\ Landed < blk
         /\ wr_pending' => off = 0 /\ beats = 0
<1> USE DEF Transferring
<1>1. /\ FlushStage /\ Accounts /\ phase # "IDLE"
      /\ old_wr \in BOOLEAN /\ wr_pending \in BOOLEAN /\ io_wr \in BOOLEAN
      /\ old_io_ack \in BOOLEAN /\ lba \in Nat /\ cmd_lba \in Nat
      /\ blk \in Nat /\ off \in Nat /\ beats \in Nat
      /\ hps \in {"idle", "busy", "ack"} /\ tlen \in Nat
  BY WriteAssumption DEF WriteInv, TypeOK, Offsets
<1>2. NewBlock => off = 0 /\ beats = 0
  BY <1>1 DEF NewBlock, req_wr, WriteInv, Accounts
<1>3. /\ Flushed \in Nat /\ sd_buff_sel = Flushed % 2
      /\ blk = Flushed + Bit(Flushing) + Bit(wr_pending) + Bit(NewBlock)
  BY <1>1 DEF Accounts
<1>4. NewBlock \in BOOLEAN /\ (NewBlock => ~wr_pending)
  BY <1>1 DEF NewBlock, req_wr, Accounts
<1>5. blk > Flushed + 1 /\ ~(old_io_ack /\ hps = "idle") => off = 0 /\ beats = 0
  BY <1>1, <1>3 DEF Accounts, Landed, Bit
<1>6. CASE ~io_wr /\ ~old_io_ack /\ hps = "idle"
  <2>1. lba' = lba /\ sd_buff_sel' = sd_buff_sel /\ ~old_io_ack'
        /\ io_wr' = wr_pending /\ wr_pending' = NewBlock
    BY <1>1, <1>4, <1>6, Edge DEF Bit
  <2>2. hps' = "idle" /\ ~HpsFall
    BY <1>1, <1>6, Edge DEF HpsRest, HpsTake, HpsRise, HpsRead, HpsFall, hpsVars
  <2>3. Flushed' = Flushed /\ Landed = Flushed /\ Landed' = Flushed
    BY <1>1, <1>6, <2>1, <2>2 DEF Flushed, Landed, Bit
  <2>4. FlushStage'
    BY <2>1, <2>2, <1>1 DEF FlushStage
  <2>5. blk = Flushed + Bit(Flushing') + Bit(wr_pending')
    BY <1>1, <1>3, <1>4, <1>6, <2>1 DEF Flushing, Bit
  <2> QED BY <1>1, <1>2, <1>3, <2>1, <2>2, <2>3, <2>4, <2>5 DEF Bit
<1>7. CASE io_wr /\ ~old_io_ack /\ (hps # "idle" => hps_lba = lba)
  <2>1. lba' = lba /\ sd_buff_sel' = sd_buff_sel /\ old_io_ack' = (hps = "ack")
        /\ io_wr' = (hps # "ack") /\ wr_pending' = (NewBlock \/ wr_pending)
    BY <1>1, <1>4, <1>7, Edge DEF Bit
  <2>2. /\ HpsFall => hps = "ack" /\ hps' = "idle"
        /\ ~HpsFall /\ hps = "ack" => hps' = "ack" /\ hps_lba' = hps_lba
        /\ hps # "ack" /\ hps' # "idle" => hps_lba' = lba
    BY <1>1, <1>7, <2>1, Edge
       DEF HpsRest, HpsTake, HpsRise, HpsRead, HpsFall, hpsVars
  <2>a. (old_io_ack' /\ hps' = "idle") <=> HpsFall
    BY <2>1, <2>2
  <2>3. Flushed' = Flushed /\ Landed = Flushed
        /\ Landed' = Flushed + Bit(HpsFall)
    BY <1>1, <1>7, <2>1, <2>a DEF Flushed, Landed, Bit
  <2>4. FlushStage'
    BY <2>1, <2>2, <1>1, <1>7 DEF FlushStage
  <2>b. Flushing' /\ Flushing /\ (wr_pending' <=> NewBlock \/ wr_pending)
    BY <1>7, <2>1 DEF Flushing
  <2>5. blk = Flushed + Bit(Flushing') + Bit(wr_pending')
    BY <1>1, <1>3, <1>4, <2>b DEF Bit
  <2>6. Flushed < blk /\ (wr_pending' => off = 0 /\ beats = 0)
    BY <1>1, <1>3, <1>4, <1>5, <1>7, <2>1 DEF Flushing, Bit
  <2> QED BY <1>1, <1>2, <1>3, <2>1, <2>3, <2>4, <2>5, <2>6 DEF Bit
<1>8. CASE ~io_wr /\ old_io_ack /\ hps = "ack" /\ hps_lba = lba
  <2>a. lba' = lba /\ sd_buff_sel' = sd_buff_sel
    BY <1>1, <1>8, Edge DEF Bit
  <2>b. old_io_ack' /\ ~io_wr'
    BY <1>1, <1>8, Edge
  <2>c. wr_pending' = (NewBlock \/ wr_pending)
    BY <1>1, <1>8, Edge
  <2>1. lba' = lba /\ sd_buff_sel' = sd_buff_sel /\ old_io_ack'
        /\ ~io_wr' /\ wr_pending' = (NewBlock \/ wr_pending)
    BY <2>a, <2>b, <2>c
  <2>2. /\ HpsFall => hps' = "idle"
        /\ ~HpsFall => hps' = "ack" /\ hps_lba' = hps_lba
    BY <1>1, <1>8, <2>1, Edge
       DEF HpsRest, HpsTake, HpsRise, HpsRead, HpsFall, hpsVars
  <2>3. Flushed' = Flushed /\ Landed = Flushed
        /\ Landed' = Flushed + Bit(HpsFall)
    BY <1>1, <1>8, <2>1, <2>2 DEF Flushed, Landed, Bit
  <2>4. FlushStage'
    BY <2>1, <2>2, <1>1, <1>8 DEF FlushStage
  <2>5. blk = Flushed + Bit(Flushing') + Bit(wr_pending')
    BY <1>1, <1>3, <1>4, <1>8, <2>1 DEF Flushing, Bit
  <2>6. Flushed < blk /\ (wr_pending' => off = 0 /\ beats = 0)
    BY <1>1, <1>3, <1>4, <1>5, <1>8, <2>1 DEF Flushing, Bit
  <2> QED BY <1>1, <1>2, <1>3, <2>1, <2>3, <2>4, <2>5, <2>6 DEF Bit
<1>9. CASE ~io_wr /\ old_io_ack /\ hps = "idle"
  <2>1. lba' = lba + 1 /\ sd_buff_sel' = 1 - sd_buff_sel /\ ~old_io_ack'
        /\ io_wr' = wr_pending /\ wr_pending' = NewBlock
    BY <1>1, <1>4, <1>9, Edge DEF Bit
  <2>2. hps' = "idle" /\ ~HpsFall
    BY <1>1, <1>9, Edge DEF HpsRest, HpsTake, HpsRise, HpsRead, HpsFall, hpsVars
  <2>3. Flushed' = Flushed + 1 /\ Landed = Flushed + 1 /\ Landed' = Flushed + 1
    BY <1>1, <1>9, <2>1, <2>2 DEF Flushed, Landed, Bit
  <2>4. FlushStage'
    BY <2>1, <2>2, <1>1 DEF FlushStage
  <2>5. blk = Flushed + 1 + Bit(Flushing') + Bit(wr_pending')
    BY <1>1, <1>3, <1>4, <1>9, <2>1 DEF Flushing, Bit
  <2>6. sd_buff_sel' = (Flushed + 1) % 2
    BY <1>3, <2>1, Parity
  <2> QED BY <1>1, <1>2, <1>3, <2>1, <2>2, <2>3, <2>4, <2>5, <2>6 DEF Bit
<1> QED BY <1>1, <1>6, <1>7, <1>8, <1>9 DEF FlushStage

\* What the HPS has read out is the sector being flushed, and what it lands
\* is that sector, at its own place.
LEMMA LandStep ==
  ASSUME WriteInv, Transferring, Clock(FALSE), LbaCounter, cmd_lba' = cmd_lba
  PROVE  /\ hps' = "busy" => hps_pos' = 0 /\ hps_data' = {}
         /\ hps' = "ack" => hps_data' = IF hps_pos' = 0 THEN {} ELSE {Flushed'}
         /\ \A b \in 0 .. tlen - 1 :
              image'[b] = IF b < Landed' THEN {b} ELSE {}
<1> USE DEF Transferring
<1>1. /\ FlushStage /\ Accounts /\ Contents /\ phase # "IDLE"
      /\ lba \in Nat /\ cmd_lba \in Nat /\ BLOCK \in Nat /\ BLOCK >= 2
      /\ blk \in Nat /\ hps \in {"idle", "busy", "ack"} /\ tlen \in Nat
      /\ hps_pos \in 0 .. BLOCK /\ hps_lba \in Nat
      /\ old_io_ack \in BOOLEAN /\ io_wr \in BOOLEAN
  BY WriteAssumption DEF WriteInv, TypeOK
<1>2. /\ Flushed \in Nat /\ Landed \in Nat /\ Landed <= blk
      /\ Landed' = Landed + Bit(HpsFall)
      /\ HpsFall => Landed = Flushed /\ Landed < blk
  BY <1>1, FlushStep DEF Accounts
<1>3. \A b \in 0 .. tlen - 1 : image[b] = IF b < Landed THEN {b} ELSE {}
  BY <1>1 DEF Contents
<1>4. hps # "idle" => /\ Flushed' = Flushed /\ Landed = Flushed
                      /\ Flushed < blk /\ hps_lba = lba
  <2>1. ASSUME hps # "idle" PROVE lba' = lba
    BY <2>1, <1>1, Edge DEF FlushStage, Bit
  <2>2. ASSUME hps # "idle" PROVE Flushing /\ hps_lba = lba
    BY <2>2, <1>1 DEF FlushStage, Flushing
  <2>3. ASSUME hps # "idle" PROVE Landed = Flushed
    BY <2>3, <1>1, <1>2 DEF Landed, Bit
  <2>4. ASSUME hps # "idle" PROVE Flushed < blk
    BY <2>2, <2>4, <1>1, <1>2 DEF Accounts, Bit
  <2> QED BY <2>1, <2>2, <2>3, <2>4 DEF Flushed
<1>5. CASE HpsRest \/ HpsTake \/ HpsRise
  <2>1. ~HpsFall /\ image' = image
    BY <1>5, <1>1 DEF HpsRest, HpsTake, HpsRise, HpsFall, hpsVars
  <2>2. \A b \in 0 .. tlen - 1 : image'[b] = IF b < Landed' THEN {b} ELSE {}
    BY <2>1, <1>2, <1>3 DEF Bit
  <2> QED BY <2>2, <1>1, <1>4, <1>5
          DEF HpsRest, HpsTake, HpsRise, hpsVars, Contents
<1>6. CASE HpsRead
  <2>1. ~HpsFall /\ image' = image /\ hps = "ack" /\ hps' = "ack"
        /\ hps_pos \in Offsets /\ hps_pos' # 0
    BY <1>1, <1>6 DEF HpsRead, HpsFall, Offsets
  <2>2. \A b \in 0 .. tlen - 1 : image'[b] = IF b < Landed' THEN {b} ELSE {}
    BY <2>1, <1>2, <1>3 DEF Bit
  <2>3. half[sd_buff_sel][hps_pos] = Flushed
    <3>1. Flushed \in Landed .. blk - 1 /\ sd_buff_sel = Flushed % 2
      BY <2>1, <1>1, <1>2, <1>4 DEF Accounts
    <3> QED BY <3>1, <2>1, <1>1 DEF Contents
  <2>4. hps_data' = {Flushed}
    BY <2>1, <2>3, <1>1, <1>6 DEF HpsRead, Contents
  <2> QED BY <2>1, <2>2, <2>4, <1>4
<1>7. CASE HpsFall
  <2>1. hps = "ack" /\ hps' = "idle" /\ hps_pos # 0 /\ hps_data = {Flushed}
    BY <1>1, <1>7 DEF HpsFall, Contents
  <2>2. \A b \in 0 .. tlen - 1 :
          image'[b] = IF cmd_lba + b = hps_lba THEN hps_data ELSE image[b]
    BY <1>7 DEF HpsFall
  <2>3. \A b \in 0 .. tlen - 1 : cmd_lba + b = hps_lba <=> b = Flushed
    BY <2>1, <1>1, <1>4 DEF Flushed
  <2>4. Landed' = Flushed + 1 /\ Landed = Flushed
    BY <1>2, <1>7 DEF Bit
  <2>5. \A b \in 0 .. tlen - 1 :
          image'[b] = IF b < Flushed + 1 THEN {b} ELSE {}
    <3> TAKE b \in 0 .. tlen - 1
    <3>1. CASE b = Flushed
      BY <3>1, <2>1, <2>2, <2>3, <1>2
    <3>2. CASE b # Flushed
      <4>1. image'[b] = IF b < Flushed THEN {b} ELSE {}
        BY <3>2, <2>2, <2>3, <2>4, <1>3
      <4> QED BY <3>2, <4>1, <1>1, <1>2
    <3> QED BY <3>1, <3>2
  <2> QED BY <2>1, <2>4, <2>5
<1> QED BY <1>1, <1>5, <1>6, <1>7, Edge

-----------------------------------------------------------------------------
(* WriteInv is inductive *)

\* A step of a running WRITE that stores no byte.  An access may begin in it
\* only where the sector it goes to is one ahead of the image at most.
LEMMA NoByteStep ==
  ASSUME WriteInv, Transferring, Clock(FALSE), LbaCounter,
         UNCHANGED <<cmd_lba, tlen, blk, off, data_complete, half>>,
         NEW n \in 0 .. 2, beats' = n, off + n <= BLOCK, req_wr' => req_wr,
         n = beats \/ /\ blk < tlen /\ blk <= Landed + 1
                      /\ ~(wr_pending' /\ old_io_ack'),
         phase' \in {"DATA_IN", "STATUS_OUT"}
  PROVE  TypeOK' /\ FlushStage' /\ Accounts' /\ Contents'
<1> USE DEF Transferring
<1>1. /\ Accounts /\ Contents /\ TypeOK /\ phase # "IDLE"
      /\ blk \in Nat /\ off \in Nat /\ beats \in Nat /\ tlen \in Nat
  BY WriteAssumption DEF WriteInv, TypeOK, Offsets
<1>2. ~NewBlock'
  BY <1>1, Edge DEF NewBlock
<1>3. /\ FlushStage'
      /\ Flushed' \in Nat /\ sd_buff_sel' = Flushed' % 2
      /\ blk = Flushed' + Bit(Flushing') + Bit(wr_pending')
      /\ Landed \in Nat /\ Landed <= blk
      /\ Landed' = Landed + Bit(HpsFall)
      /\ HpsFall => Landed < blk
      /\ wr_pending' => off = 0 /\ beats = 0
  BY FlushStep
<1>4. PICK f, ld \in Nat : ld = Landed' /\ f = Flushed'
  BY <1>3 DEF Bit
<1>5. Landed <= ld /\ ld <= blk
  <2>1. ld = Landed + Bit(HpsFall)
    BY <1>3, <1>4, Zenon
  <2>2. Landed \in Nat /\ Landed <= blk /\ (HpsFall => Landed < blk)
    BY <1>3
  <2> QED BY <2>1, <2>2, <1>1 DEF Bit
<1>6. Accounts'
  <2>1. blk = Flushed' + Bit(Flushing') + Bit(wr_pending') + Bit(NewBlock')
    <3>1. Bit(NewBlock') = 0 /\ Bit(wr_pending') \in Nat
          /\ Bit(Flushing') \in Nat
      BY <1>2 DEF Bit
    <3> QED BY <1>3, <3>1
  <2>2. off > 0 \/ n > 0 => blk < tlen /\ blk <= ld + 1
    BY <1>1, <1>3, <1>5 DEF Accounts
  <2>3. wr_pending' => off = 0 /\ (old_io_ack' => n = 0)
    BY <1>1, <1>3
  <2>4. blk <= tlen /\ (data_complete <=> (tlen # 0 /\ blk = tlen))
    BY <1>1 DEF Accounts
  <2> QED BY <1>2, <1>3, <1>4, <2>1, <2>2, <2>3, <2>4 DEF Accounts
<1>7. Contents'
  <2>1. \A b \in ld .. blk - 1 : b \in Landed .. blk - 1
    BY <1>1, <1>3, <1>5
  <2>2. \A b \in ld .. blk - 1 : \A o \in Offsets : half[b % 2][o] = b
    BY <2>1, <1>1 DEF Contents
  <2>3. \A b \in 0 .. tlen - 1 : image'[b] = IF b < Landed' THEN {b} ELSE {}
    BY LandStep
  <2>4. \A o \in 0 .. off - 1 : half[blk % 2][o] = blk
    BY <1>1 DEF Contents
  <2>5. /\ hps' = "busy" => hps_pos' = 0 /\ hps_data' = {}
        /\ hps' = "ack" => hps_data' = IF hps_pos' = 0 THEN {} ELSE {Flushed'}
    BY LandStep
  <2> QED BY <1>4, <2>2, <2>3, <2>4, <2>5 DEF Contents
<1>8. TypeOK'
  <2>1. lba' \in Nat
    BY <1>1, Edge DEF TypeOK, Bit
  <2>2. beats' \in 0 .. 2
    OBVIOUS
  <2> QED BY <1>1, <2>1, <2>2, ClockTypes DEF TypeOK
<1> QED BY <1>3, <1>6, <1>7, <1>8

\* Stepping one byte on stays in range.
LEMMA NextByte ==
  ASSUME TypeOK
  PROVE  /\ NextBlk \in Nat /\ NextOff \in Offsets
         /\ (NextBlk = blk /\ NextOff = off + 1)
            \/ (NextBlk = blk + 1 /\ NextOff = 0 /\ off = BLOCK - 1)
  BY WriteAssumption DEF TypeOK, NextBlk, NextOff, Offsets

\* A stored byte: it goes to a half the flush has read out.
LEMMA BeatStep == ASSUME WriteInv, Beat PROVE WriteInv'
<1> USE DEF Transferring
<1>1. /\ TypeOK /\ beats > 0 /\ phase = "DATA_IN"
      /\ Accounts /\ Contents /\ FlushStage
  BY DEF Beat, WriteInv, TypeOK
<1>2. /\ blk \in Nat /\ off \in Offsets /\ off \in Nat /\ beats \in 1 .. 2
      /\ tlen \in Nat /\ BLOCK \in Nat /\ BLOCK >= 2
      /\ half \in [{0, 1} -> [Offsets -> Int]]
  BY <1>1, WriteAssumption DEF TypeOK, Offsets
<1>3. blk < tlen /\ blk <= Landed + 1 /\ ~data_complete /\ off + beats <= BLOCK
      /\ ~NewBlock
  BY <1>1, <1>2 DEF Accounts
<1>4. /\ UNCHANGED <<phase, cmd_lba, tlen>> /\ beats' = beats - 1
      /\ Clock(FALSE) /\ LbaCounter
      /\ half' = [half EXCEPT ![blk % 2][off] = blk]
      /\ blk' = NextBlk /\ off' = NextOff
      /\ data_complete' = (NextBlk = tlen /\ NextOff = 0)
  BY <1>3 DEF Beat, DataAdvance
<1>5. /\ FlushStage'
      /\ Flushed' \in Nat /\ sd_buff_sel' = Flushed' % 2
      /\ blk = Flushed' + Bit(Flushing') + Bit(wr_pending')
      /\ Landed \in Nat /\ Landed <= blk
      /\ Landed' = Landed + Bit(HpsFall)
      /\ HpsFall => Landed < blk
      /\ ~wr_pending'
  BY <1>1, <1>2, <1>4, FlushStep
<1>6. PICK ld \in Nat : ld = Landed'
  BY <1>5 DEF Bit
<1>7. Landed <= ld /\ ld <= blk /\ blk <= ld + 1
  <2>1. ld = Landed + Bit(HpsFall)
    BY <1>5, <1>6, Zenon
  <2>2. Landed \in Nat /\ Landed <= blk /\ (HpsFall => Landed < blk)
    BY <1>5
  <2> QED BY <2>1, <2>2, <1>2, <1>3 DEF Bit
<1>8. old_wr' = req_wr
  BY <1>1, <1>4, Edge
<1>9. TypeOK'
  <2>1. lba' \in Nat
    BY <1>1, <1>4, Edge DEF TypeOK, Bit
  <2>2. half' \in [{0, 1} -> [Offsets -> Int]]
    BY <1>2, <1>4, Parity
  <2>3. beats' \in 0 .. 2
    BY <1>2, <1>4
  <2>4. blk' \in Nat /\ off' \in Offsets /\ data_complete' \in BOOLEAN
    BY <1>1, <1>4, NextByte
  <2> QED BY <1>1, <1>4, <2>1, <2>2, <2>3, <2>4, ClockTypes DEF TypeOK
<1>10. \A b \in ld .. blk - 1 : \A o \in Offsets : half'[b % 2][o] = b
  <2> TAKE b \in ld .. blk - 1
  <2> TAKE o \in Offsets
  <2>1. b \in Nat /\ blk = b + 1 /\ b \in Landed .. blk - 1
    BY <1>2, <1>5, <1>7
  <2>2. b % 2 # blk % 2 /\ b % 2 \in {0, 1} /\ blk % 2 \in {0, 1}
    BY <2>1, Parity
  <2>3. half[b % 2][o] = b
    BY <2>1, <1>1 DEF Contents
  <2> QED BY <2>2, <2>3, <1>2, <1>4
<1>11. \A o \in 0 .. off : half'[blk % 2][o] = blk
  <2> TAKE o \in 0 .. off
  <2>1. o \in Offsets /\ blk % 2 \in {0, 1}
    BY <1>2, Parity DEF Offsets
  <2>2. CASE o = off
    BY <2>1, <2>2, <1>2, <1>4
  <2>3. CASE o # off
    <3>1. half[blk % 2][o] = blk
      BY <2>3, <1>1, <1>2 DEF Contents
    <3> QED BY <2>1, <2>3, <3>1, <1>2, <1>4
  <2> QED BY <2>2, <2>3
<1>12. /\ hps' = "busy" => hps_pos' = 0 /\ hps_data' = {}
       /\ hps' = "ack" => hps_data' = IF hps_pos' = 0 THEN {} ELSE {Flushed'}
       /\ \A b \in 0 .. tlen - 1 : image'[b] = IF b < Landed' THEN {b} ELSE {}
  BY <1>1, <1>4, LandStep
<1>13. CASE NextBlk = blk /\ NextOff = off + 1
  <2>1. blk' = blk /\ off' = off + 1 /\ off + 1 # 0 /\ beats - 1 \in Nat
        /\ off + 1 + (beats - 1) <= BLOCK
    BY <1>2, <1>3, <1>4, <1>13
  <2>2. ~NewBlock'
    BY <2>1, <1>1, <1>4 DEF NewBlock, req_wr
  <2>3. Contents'
    <3>1. \A o \in 0 .. (off + 1) - 1 : half'[blk % 2][o] = blk
      BY <1>2, <1>11
    <3> QED BY <2>1, <3>1, <1>4, <1>6, <1>10, <1>12 DEF Contents
  <2>4. Accounts'
    <3>1. blk = Flushed' + Bit(Flushing') + Bit(wr_pending') + Bit(NewBlock')
      <4>1. Bit(NewBlock') = 0 /\ Bit(wr_pending') \in Nat
            /\ Bit(Flushing') \in Nat
        BY <2>2 DEF Bit
      <4> QED BY <1>5, <4>1
    <3>2. blk < tlen /\ blk <= ld + 1 /\ ~data_complete'
      BY <1>2, <1>3, <1>4, <1>7, <2>1
    <3>3. ~(tlen # 0 /\ blk = tlen) /\ blk <= tlen
      BY <1>2, <1>3
    <3>4. off' + beats' <= BLOCK
      BY <1>4, <2>1
    <3> QED BY <1>4, <1>5, <1>6, <2>1, <2>2, <3>1, <3>2, <3>3, <3>4 DEF Accounts
  <2> QED BY <1>1, <1>4, <1>5, <1>9, <2>3, <2>4 DEF WriteInv
<1>14. CASE NextBlk = blk + 1 /\ NextOff = 0 /\ off = BLOCK - 1
  <2>1. blk' = blk + 1 /\ off' = 0 /\ beats' = 0
    BY <1>2, <1>3, <1>4, <1>14
  <2>2. NewBlock'
    <3>1. ~old_wr'
      BY <1>1, <1>2, <1>8, <1>14 DEF req_wr
    <3>2. blk + 1 # 0 /\ tlen # 0
      BY <1>2, <1>3
    <3> QED BY <2>1, <3>1, <3>2, <1>1, <1>4 DEF NewBlock, req_wr
  <2>3. PICK nb \in Nat : nb = blk' /\ nb = blk + 1
    BY <1>2, <2>1
  <2>4. Contents'
    <3>1. \A b \in ld .. nb - 1 : \A o \in Offsets : half'[b % 2][o] = b
      <4> TAKE b \in ld .. nb - 1
      <4> TAKE o \in Offsets
      <4>1. CASE b = blk
        BY <4>1, <1>2, <1>11, <1>14 DEF Offsets
      <4>2. CASE b # blk
        BY <4>2, <2>3, <1>2, <1>10
      <4> QED BY <4>1, <4>2
    <3>2. \A o \in 0 .. 0 - 1 : half'[nb % 2][o] = nb
      OBVIOUS
    <3> QED BY <2>1, <2>3, <3>1, <3>2, <1>4, <1>6, <1>12 DEF Contents
  <2>5. Accounts'
    <3>1. nb = Flushed' + Bit(Flushing') + Bit(wr_pending') + Bit(NewBlock')
      <4>1. Bit(NewBlock') = 1 /\ Bit(wr_pending') = 0
            /\ Bit(Flushing') \in Nat
        BY <2>2, <1>5 DEF Bit
      <4> QED BY <1>5, <2>3, <4>1
    <3>a. nb <= tlen /\ tlen # 0 /\ NextBlk = nb /\ NextOff = 0
      BY <1>2, <1>3, <1>14, <2>3
    <3>2. nb <= tlen /\ (data_complete' <=> (tlen # 0 /\ nb = tlen))
      BY <1>4, <3>a
    <3>3. off' + beats' <= BLOCK /\ ~(off' > 0) /\ ~(beats' > 0)
      BY <1>2, <2>1
    <3> QED BY <1>4, <1>5, <1>6, <2>1, <2>3, <3>1, <3>2, <3>3 DEF Accounts
  <2> QED BY <1>1, <1>4, <1>5, <1>9, <2>4, <2>5 DEF WriteInv
<1> QED BY <1>1, <1>13, <1>14, NextByte

\* Outside the data and status phases the engine is idle and stays so.
LEMMA EngineQuiet ==
  ASSUME WriteInv, phase \in {"IDLE", "CMD_IN", "MESSAGE_OUT"},
         NEW rst \in BOOLEAN, Clock(rst)
  PROVE  ~io_wr' /\ ~wr_pending' /\ (hps = "idle" => hps' = "idle")
         /\ ~old_wr' /\ (~HpsFall => image' = image)
<1>1. ~io_wr /\ ~wr_pending /\ ~req_wr
  BY DEF WriteInv, req_wr
<1> QED BY <1>1 DEF WriteInv, TypeOK, Clock, FlushEngine, HpsMove, HpsRest,
       HpsTake, HpsRise, HpsRead, HpsFall, hpsVars

\* A byte counter at rest keeps its type, and is clear outside the counting
\* phases.
LEMMA RestTypes ==
  ASSUME TypeOK, DataRest
  PROVE  /\ blk' \in Nat /\ off' \in Offsets /\ data_complete' \in BOOLEAN
         /\ phase \notin Counting => blk' = 0 /\ off' = 0 /\ ~data_complete'
         /\ phase \in Counting => UNCHANGED <<blk, off, data_complete>>
<1>1. 0 \in Nat /\ 0 \in Offsets
  BY WriteAssumption DEF Offsets
<1> QED BY <1>1 DEF TypeOK, DataRest

\* The LBA counter keeps its type.
LEMMA LbaType == ASSUME TypeOK, LbaCounter PROVE lba' \in Nat
  BY DEF TypeOK, LbaCounter

\* Waiting.
LEMMA WaitStep == ASSUME WriteInv, Wait PROVE WriteInv'
<1>1. TypeOK /\ Clock(FALSE) /\ LbaCounter /\ DataRest
      /\ UNCHANGED <<phase, cmd_lba, tlen, beats, half>>
  BY DEF WriteInv, Wait
<1>2. TypeOK'
  BY <1>1, RestTypes, LbaType, ClockTypes DEF TypeOK
<1>3. CASE phase \in {"DATA_IN", "STATUS_OUT"}
  <2>1. UNCHANGED <<blk, off, data_complete>>
    BY <1>1, <1>3, RestTypes DEF Counting
  <2>2. (req_wr' => req_wr) /\ off + beats <= BLOCK /\ beats \in 0 .. 2
    BY <1>1, <1>3, <2>1 DEF req_wr, WriteInv, Accounts, TypeOK
  <2>3. PICK n \in 0 .. 2 : n = beats /\ beats' = n
    BY <1>1, <2>2
  <2>4. TypeOK' /\ FlushStage' /\ Accounts' /\ Contents'
    BY <1>1, <1>3, <2>1, <2>2, <2>3, NoByteStep DEF Transferring
  <2>5. phase = "STATUS_OUT" => old_wr' \/ tlen = 0
    BY <1>1, Edge DEF req_wr
  <2> QED BY <1>1, <1>3, <2>1, <2>4, <2>5 DEF WriteInv
<1>4. CASE phase = "MESSAGE_OUT"
  <2>1. image' = image
    BY <1>4, <1>1, EngineQuiet DEF WriteInv, HpsFall
  <2> QED BY <1>1, <1>2, <1>4, <2>1, EngineQuiet DEF WriteInv
<1>5. CASE phase = "IDLE"
  BY <1>1, <1>2, <1>5, EngineQuiet DEF WriteInv
<1>6. CASE phase = "CMD_IN"
  <2>1. ~old_io_ack' /\ sd_buff_sel' = 0
    BY <1>1, <1>6, Edge DEF WriteInv
  <2>2. blk' = 0 /\ off' = 0 /\ ~data_complete'
    BY <1>1, <1>6, RestTypes DEF Counting
  <2> QED BY <1>1, <1>2, <1>6, <2>1, <2>2, EngineQuiet DEF WriteInv
<1> QED BY <1>1, <1>3, <1>4, <1>5, <1>6 DEF TypeOK

\* Selection, with the channel at rest.
LEMMA SelectStep == ASSUME WriteInv, Select PROVE WriteInv'
<1>1. TypeOK /\ Clock(FALSE) /\ LbaCounter /\ DataRest /\ phase = "IDLE"
      /\ phase' = "CMD_IN" /\ hps = "idle"
      /\ UNCHANGED <<cmd_lba, tlen, beats, half>>
  BY DEF WriteInv, Select
<1>2. TypeOK'
  BY <1>1, RestTypes, LbaType, ClockTypes DEF TypeOK
<1>3. ~old_io_ack' /\ sd_buff_sel' = 0
  BY <1>1 DEF Clock, BufferSelect, IoAck
<1>4. blk' = 0 /\ off' = 0 /\ ~data_complete'
  BY <1>1, RestTypes DEF Counting
<1> QED BY <1>1, <1>2, <1>3, <1>4, EngineQuiet DEF WriteInv

\* A WRITE command starts with nothing flushed and nothing to flush.
LEMMA CommandStep ==
  ASSUME WriteInv, NEW l \in LBAs, NEW t \in TLens, Command(l, t)
  PROVE  WriteInv'
<1>1. /\ l \in Nat /\ t \in Nat /\ BLOCK \in Nat /\ BLOCK >= 2
      /\ 0 \in Offsets /\ Stale \in Int
  BY WriteAssumption DEF Offsets, Stale
<1>2. /\ phase = "CMD_IN" /\ TypeOK
      /\ ~io_wr /\ ~wr_pending /\ ~old_wr /\ ~old_io_ack /\ hps = "idle"
      /\ sd_buff_sel = 0 /\ beats = 0
  BY DEF WriteInv, Command
<1>3. /\ phase' = "DATA_IN" /\ cmd_lba' = l /\ lba' = l /\ tlen' = t
      /\ blk' = 0 /\ off' = 0 /\ data_complete' = FALSE
      /\ beats' = 0 /\ hps' = "idle"
      /\ UNCHANGED <<hps_lba, hps_pos, hps_data>>
      /\ half' = [h \in {0, 1} |-> [o \in Offsets |-> Stale]]
      /\ image' = [b \in 0 .. t - 1 |-> {}]
  BY <1>2 DEF Command, DataRest, Counting, Blank
<1>4. io_wr' = FALSE /\ wr_pending' = FALSE /\ old_wr' = FALSE
      /\ old_io_ack' = FALSE /\ sd_buff_sel' = 0
  BY <1>2 DEF Command, FlushEngine, BufferSelect, IoAck, AckFall, req_wr
<1>5. TypeOK'
  BY <1>1, <1>2, <1>3, <1>4 DEF TypeOK
<1>6. FlushStage' /\ ~NewBlock' /\ ~Flushing'
  BY <1>3, <1>4 DEF FlushStage, NewBlock, Flushing, req_wr
<1>7. Flushed' = 0 /\ Landed' = 0
  BY <1>1, <1>3, <1>4 DEF Flushed, Landed, Bit
<1>8. Accounts'
  <2>1. 0 = Flushed' + Bit(Flushing') + Bit(wr_pending') + Bit(NewBlock')
    BY <1>4, <1>6, <1>7 DEF Bit
  <2>2. sd_buff_sel' = Flushed' % 2
    BY <1>4, <1>7
  <2>3. off' + beats' <= BLOCK /\ blk' <= tlen' /\ ~(off' > 0) /\ ~(beats' > 0)
        /\ (data_complete' <=> (tlen' # 0 /\ blk' = tlen')) /\ Flushed' \in Nat
    BY <1>1, <1>3, <1>7
  <2> QED BY <1>3, <1>4, <1>6, <2>1, <2>2, <2>3 DEF Accounts
<1>9. Contents'
  <2>1. \A o \in 0 .. 0 - 1 : half'[0 % 2][o] = 0
    OBVIOUS
  <2>2. \A b \in 0 .. 0 - 1 : \A o \in Offsets : half'[b % 2][o] = b
    OBVIOUS
  <2>3. \A b \in 0 .. t - 1 : image'[b] = IF b < 0 THEN {b} ELSE {}
    BY <1>1, <1>3
  <2> QED BY <1>3, <1>7, <2>1, <2>2, <2>3 DEF Contents
<1> QED BY <1>3, <1>5, <1>6, <1>8, <1>9 DEF WriteInv

\* An access is accepted only into a half that is not being flushed and that
\* no earlier sector still waits in.
LEMMA StoreStep ==
  ASSUME Aligned, WriteInv, NEW n \in {1, 2}, Store(n) PROVE WriteInv'
<1>1. /\ TypeOK /\ Clock(FALSE) /\ LbaCounter /\ DataRest /\ phase = "DATA_IN"
      /\ req /\ UNCHANGED <<phase, cmd_lba, tlen, half>> /\ beats' = n
      /\ beats = 0 /\ off + n <= BLOCK
      /\ FlushStage /\ Accounts
  BY DEF WriteInv, Store, Aligned
<1>2. UNCHANGED <<blk, off, data_complete>>
  BY <1>1, RestTypes DEF Counting
<1>3. /\ blk \in Nat /\ tlen \in Nat /\ Flushed \in Nat
      /\ wr_pending \in BOOLEAN /\ io_wr \in BOOLEAN /\ old_io_ack \in BOOLEAN
      /\ hps \in {"idle", "busy", "ack"}
  BY <1>1 DEF Accounts, TypeOK
<1>4. blk < tlen
  BY <1>1, <1>3 DEF req, data_done, Accounts
<1>5. io_wr \/ hps = "ack" =>
        ~wr_pending /\ ~NewBlock /\ Landed = Flushed /\ blk = Flushed + 1
  <2> SUFFICES ASSUME io_wr \/ hps = "ack"
               PROVE  ~wr_pending /\ ~NewBlock /\ Landed = Flushed
                      /\ blk = Flushed + 1
    OBVIOUS
  <2>1. Flushing /\ Landed = Flushed
    BY <1>1, <1>3 DEF FlushStage, Flushing, Landed, Bit
  <2>2. flush_busy
    BY <1>1 DEF flush_busy, IoAck
  <2>3. blk % 2 # Flushed % 2
    BY <1>1, <2>2 DEF req, io_busy, Accounts
  <2>4. NewBlock => ~wr_pending
    BY <1>1 DEF Accounts
  <2>5. blk = Flushed + 1 \/ (blk = Flushed + 2 /\ (wr_pending \/ NewBlock))
    BY <1>1, <1>3, <2>1, <2>4 DEF Accounts, Bit
  <2>6. blk # Flushed + 2
    BY <1>3, <2>3, Parity
  <2>7. blk = Flushed + 1 => ~wr_pending /\ ~NewBlock
    BY <1>1, <1>3, <2>1 DEF Accounts, Bit
  <2> QED BY <2>1, <2>5, <2>6, <2>7
<1>6. blk <= Landed + 1
  <2>1. CASE io_wr \/ hps = "ack"
    BY <2>1, <1>3, <1>5
  <2>2. CASE ~io_wr /\ hps # "ack"
    <3>1. (NewBlock => ~wr_pending) /\ hps = "idle"
      BY <1>1, <2>2 DEF Accounts, FlushStage
    <3> QED BY <1>1, <1>3, <2>2, <3>1 DEF Accounts, Flushing, Landed, Bit
  <2> QED BY <2>1, <2>2
<1>7. ~(wr_pending' /\ old_io_ack')
  BY <1>1, <1>5, Edge
<1>8. req_wr' => req_wr
  BY <1>1, <1>2 DEF req_wr
<1>9. n \in 0 .. 2
  OBVIOUS
<1>10. TypeOK' /\ FlushStage' /\ Accounts' /\ Contents'
  BY <1>1, <1>2, <1>4, <1>6, <1>7, <1>8, <1>9, NoByteStep DEF Transferring
<1> QED BY <1>1, <1>10 DEF WriteInv

\* The data phase closes on a whole number of sectors.
LEMMA EndDataStep == ASSUME WriteInv, EndData PROVE WriteInv'
<1>1. /\ TypeOK /\ Clock(FALSE) /\ LbaCounter /\ DataRest /\ phase = "DATA_IN"
      /\ data_done /\ UNCHANGED <<cmd_lba, tlen, beats, half>>
      /\ phase' = "STATUS_OUT" /\ Accounts
  BY DEF WriteInv, EndData
<1>2. UNCHANGED <<blk, off, data_complete>>
  BY <1>1, RestTypes DEF Counting
<1>3. blk \in Nat /\ tlen \in Nat /\ off \in Nat /\ beats \in 0 .. 2
  BY <1>1, WriteAssumption DEF TypeOK, Offsets
<1>4. blk = tlen /\ off = 0 /\ beats = 0
  BY <1>1, <1>3 DEF data_done, Accounts
<1>5. req_wr <=> tlen # 0
  BY <1>1, <1>4 DEF req_wr
<1>6. req_wr' => req_wr
  BY <1>1, <1>5 DEF req_wr
<1>7. PICK n \in 0 .. 2 : n = beats /\ beats' = n /\ off + n <= BLOCK
  BY <1>1, <1>3 DEF Accounts
<1>8. TypeOK' /\ FlushStage' /\ Accounts' /\ Contents'
  BY <1>1, <1>2, <1>6, <1>7, NoByteStep DEF Transferring
<1>9. old_wr' \/ tlen = 0
  BY <1>1, <1>5, Edge
<1> QED BY <1>1, <1>2, <1>4, <1>8, <1>9 DEF WriteInv

\* When the status byte may be taken, every sector has landed.
LEMMA AllLanded ==
  ASSUME WriteInv, phase = "STATUS_OUT", ~flush_busy
  PROVE  /\ \A b \in 0 .. tlen - 1 : image[b] = {b}
         /\ hps = "idle" /\ ~io_wr /\ ~wr_pending /\ ~NewBlock
<1>1. /\ TypeOK /\ FlushStage /\ Accounts /\ Contents
      /\ blk = tlen /\ (old_wr \/ tlen = 0)
  BY DEF WriteInv
<1>2. ~io_wr /\ ~wr_pending /\ hps = "idle"
  BY <1>1 DEF flush_busy, IoAck, FlushStage
<1>3. ~NewBlock
  BY <1>1 DEF NewBlock, req_wr
<1>4. tlen = Landed
  BY <1>1, <1>2, <1>3 DEF TypeOK, Accounts, Flushing, Landed, Bit
<1>5. tlen \in Nat
  BY <1>1 DEF TypeOK
<1>6. \A b \in 0 .. tlen - 1 : b < tlen
  BY <1>5
<1>7. \A b \in 0 .. tlen - 1 : image[b] = IF b < tlen THEN {b} ELSE {}
  BY <1>1, <1>4 DEF Contents
<1>8. \A b \in 0 .. tlen - 1 : image[b] = {b}
  BY <1>6, <1>7
<1> QED BY <1>2, <1>3, <1>8

\* The status and message bytes.
LEMMA LastBytesStep == ASSUME WriteInv, LastBytes PROVE WriteInv'
<1>1. /\ TypeOK /\ Clock(FALSE) /\ LbaCounter /\ req
      /\ phase \in {"STATUS_OUT", "MESSAGE_OUT"}
      /\ UNCHANGED <<cmd_lba, tlen, beats, half>>
      /\ phase' = IF phase = "STATUS_OUT" THEN "MESSAGE_OUT" ELSE "IDLE"
      /\ DataAdvance
  BY DEF WriteInv, LastBytes
<1>2. blk' \in Nat /\ off' \in Offsets /\ data_complete' \in BOOLEAN
  BY <1>1, NextByte DEF DataAdvance, TypeOK
<1>3. TypeOK'
  BY <1>1, <1>2, LbaType, ClockTypes DEF TypeOK
<1>4. CASE phase = "STATUS_OUT"
  <2>1. ~flush_busy
    BY <1>1, <1>4 DEF req, io_busy
  <2>2. /\ \A b \in 0 .. tlen - 1 : image[b] = {b}
        /\ hps = "idle" /\ ~io_wr /\ ~wr_pending /\ ~NewBlock
    BY <1>4, <2>1, AllLanded
  <2>3. ~io_wr' /\ ~wr_pending' /\ hps' = "idle" /\ image' = image
    BY <1>1, <2>2, Edge DEF HpsRest, HpsTake, HpsRise, HpsRead, HpsFall, hpsVars
  <2>4. beats = 0
    BY <1>4 DEF WriteInv
  <2> QED BY <1>1, <1>3, <1>4, <2>2, <2>3, <2>4 DEF WriteInv
<1>5. CASE phase = "MESSAGE_OUT"
  BY <1>1, <1>3, <1>5, EngineQuiet DEF WriteInv
<1> QED BY <1>1, <1>4, <1>5

\* A bus reset at any point.
LEMMA BusResetStep == ASSUME WriteInv, BusReset PROVE WriteInv'
<1>1. /\ TypeOK /\ Clock(TRUE) /\ LbaCounter /\ DataRest /\ phase' = "IDLE"
      /\ beats' = 0 /\ UNCHANGED <<cmd_lba, tlen, half>>
  BY DEF WriteInv, BusReset
<1>2. ~io_wr' /\ ~wr_pending'
  BY <1>1 DEF Clock, FlushEngine
<1>3. TypeOK'
  <2>1. beats' \in 0 .. 2 /\ TRUE \in BOOLEAN
    BY <1>1
  <2>2. lba' \in Nat /\ blk' \in Nat /\ off' \in Offsets
        /\ data_complete' \in BOOLEAN
    BY <1>1, RestTypes, LbaType
  <2> QED BY <1>1, <2>1, <2>2, ClockTypes DEF TypeOK
<1> QED BY <1>1, <1>2, <1>3 DEF WriteInv

\* The initial state satisfies the invariant.
LEMMA WriteInvInit == ASSUME Init PROVE WriteInv
<1>1. BLOCK \in Nat /\ BLOCK >= 2 /\ LBAs \subseteq Nat /\ Stale \in Int
      /\ 0 \in Offsets /\ 0 \in 0 .. BLOCK /\ 0 \in 0 .. 2
  BY WriteAssumption DEF Offsets, Stale
<1>2. /\ cmd_lba \in Nat /\ lba \in Nat /\ tlen \in Nat /\ blk \in Nat
      /\ hps_lba \in Nat
      /\ half \in [{0, 1} -> [Offsets -> Int]]
      /\ image \in [0 .. tlen - 1 -> SUBSET Int]
  BY <1>1 DEF Init, Blank
<1>3. TypeOK
  BY <1>1, <1>2 DEF Init, TypeOK
<1> QED BY <1>3 DEF Init, WriteInv

\* Every step keeps the invariant.
LEMMA WriteInvNext == ASSUME Aligned, WriteInv, [Next]_vars PROVE WriteInv'
<1>1. CASE UNCHANGED vars
  BY <1>1 DEF vars, hostVars, ioVars, hpsVars, WriteInv, TypeOK, FlushStage,
       Accounts, Contents, Flushed, Landed, Flushing, NewBlock, req_wr
<1>2. CASE Next
  BY <1>2, WaitStep, SelectStep, CommandStep, StoreStep, BeatStep,
     EndDataStep, LastBytesStep, BusResetStep DEF Next
<1> QED BY <1>1, <1>2

\* WriteInv holds in every reachable state: the flush engine of rtl/scsi.v
\* keeps buffer halves, flush counter and image consistent whatever the
\* relative speed of the HPS, the host and its resets.
THEOREM WriteInvariant == ASSUME Aligned PROVE Spec => []WriteInv
<1>1. Init => WriteInv
  BY WriteInvInit
<1>2. WriteInv /\ [Next]_vars => WriteInv'
  BY WriteInvNext
<1> QED BY <1>1, <1>2, PTL DEF Spec

-----------------------------------------------------------------------------
(* What follows from the invariant *)

\* A WRITE whose accesses stay inside a sector persists exactly its own
\* sectors, each whole and at its own address, before its status byte is
\* offered, and leaves no flush behind.
THEOREM WritePathSafe ==
  ASSUME Aligned
  PROVE  Spec => [](StatusMeansWritten /\ SectorsWhole /\ FlushDrained)
<1>1. WriteInv => StatusMeansWritten
  <2> SUFFICES ASSUME WriteInv, phase \in {"STATUS_OUT", "MESSAGE_OUT"}, req
               PROVE  \A b \in 0 .. tlen - 1 : image[b] = {b}
    BY DEF StatusMeansWritten
  <2>1. CASE phase = "STATUS_OUT"
    BY <2>1, AllLanded DEF req, io_busy
  <2>2. CASE phase = "MESSAGE_OUT"
    BY <2>2 DEF WriteInv
  <2> QED BY <2>1, <2>2
<1>2. WriteInv => SectorsWhole
  BY DEF WriteInv, SectorsWhole, Counting, Contents
<1>3. WriteInv => FlushDrained
  BY DEF WriteInv, FlushDrained
<1> QED BY <1>1, <1>2, <1>3, WriteInvariant, PTL

\* Every register of the WRITE path stays in its type: no counter of
\* rtl/scsi.v leaves its range.
THEOREM WritePathTypes == ASSUME Aligned PROVE Spec => []TypeOK
<1>1. WriteInv => TypeOK
  BY DEF WriteInv
<1> QED BY <1>1, WriteInvariant, PTL

\* At every moment of a WRITE each of its sectors in the image is either old
\* or whole: a reset or a slow HPS never leaves a torn or foreign one.
THEOREM SectorsStayWhole == ASSUME Aligned PROVE Spec => []SectorsWhole
  BY WritePathSafe, PTL

-----------------------------------------------------------------------------
(* The WRITE path implements the sector stream *)

\* The image changes only by the next complete sector landing, with the ack
\* still to be counted.
LEMMA PersistStep ==
  ASSUME WriteInv, Transferring, Clock(FALSE), LbaCounter,
         cmd_lba' = cmd_lba, phase' # "IDLE"
  PROVE  \/ image' = image
         \/ /\ old_io_ack'
            /\ \E b \in 0 .. blk - 1 :
                 /\ \A c \in 0 .. b - 1 : image[c] = {c}
                 /\ image[b] = {}
                 /\ image' = [image EXCEPT ![b] = {b}]
<1>1. /\ TypeOK /\ Accounts /\ Contents /\ phase # "IDLE" /\ FlushStage
      /\ blk \in Nat /\ tlen \in Nat /\ lba \in Nat /\ cmd_lba \in Nat
      /\ Flushed \in Nat /\ blk <= tlen /\ BLOCK \in Nat /\ BLOCK >= 2
  BY WriteAssumption DEF WriteInv, Transferring, TypeOK, Accounts
<1>2. CASE ~HpsFall
  BY <1>1, <1>2, Edge DEF HpsRest, HpsTake, HpsRise, HpsRead, hpsVars
<1>3. CASE HpsFall
  <2>1. /\ hps = "ack" /\ hps_pos = BLOCK /\ old_io_ack'
        /\ Landed = Flushed /\ Flushed < blk
    BY <1>1, <1>3, Edge, FlushStep DEF HpsFall
  <2>2. hps_data = {Flushed} /\ hps_lba = lba
    BY <1>1, <2>1 DEF Contents, FlushStage
  <2>3. Flushed \in 0 .. blk - 1 /\ Flushed \in 0 .. tlen - 1
    BY <1>1, <2>1
  <2>4. (\A c \in 0 .. Flushed - 1 : image[c] = {c}) /\ image[Flushed] = {}
    <3>1. \A b \in 0 .. tlen - 1 : image[b] = IF b < Flushed THEN {b} ELSE {}
      BY <1>1, <2>1 DEF Contents
    <3>2. \A c \in 0 .. Flushed - 1 : c \in 0 .. tlen - 1 /\ c < Flushed
      BY <1>1, <2>3
    <3>3. ~(Flushed < Flushed)
      BY <1>1
    <3> QED BY <2>3, <3>1, <3>2, <3>3
  <2>5. image' = [image EXCEPT ![Flushed] = {Flushed}]
    <3>1. \A b \in 0 .. tlen - 1 : cmd_lba + b = hps_lba <=> b = Flushed
      BY <1>1, <2>2 DEF Flushed
    <3>2. image' = [b \in 0 .. tlen - 1 |->
                      IF b = Flushed THEN {Flushed} ELSE image[b]]
      BY <1>3, <2>2, <3>1 DEF HpsFall
    <3>3. DOMAIN image = 0 .. tlen - 1 /\ image = [b \in 0 .. tlen - 1 |-> image[b]]
      BY <1>1 DEF TypeOK
    <3> QED BY <2>3, <3>2, <3>3
  <2> QED BY <2>1, <2>3, <2>4, <2>5
<1> QED BY <1>2, <1>3

\* The last flush is not over.
Draining == flush_busy \/ old_io_ack

\* In the status phase a drained transfer is complete and stays drained.
LEMMA Drained ==
  ASSUME WriteInv, phase = "STATUS_OUT", Clock(FALSE), LbaCounter,
         cmd_lba' = cmd_lba, tlen' = tlen, phase' = "STATUS_OUT",
         ~Draining \/ ~Draining'
  PROVE  /\ \A b \in 0 .. tlen - 1 : image[b] = {b}
         /\ image' = image /\ ~Draining'
<1>1. TypeOK /\ FlushStage /\ phase # "IDLE" /\ (old_wr \/ tlen = 0)
  BY DEF WriteInv
<1>2. ~NewBlock
  BY <1>1 DEF NewBlock, req_wr
<1>3. ~flush_busy
  <2> SUFFICES ASSUME flush_busy, ~Draining' PROVE FALSE
    BY DEF Draining
  <2>1. io_wr \/ wr_pending \/ hps = "ack"
    BY DEF flush_busy, IoAck
  <2>2. ~io_wr' /\ ~wr_pending' /\ ~old_io_ack'
    BY DEF Draining, flush_busy
  <2> QED BY <1>1, <2>1, <2>2, Edge DEF TypeOK
<1>4. /\ \A b \in 0 .. tlen - 1 : image[b] = {b}
      /\ hps = "idle" /\ ~io_wr /\ ~wr_pending
  BY <1>3, AllLanded
<1>5. hps' = "idle" /\ image' = image
  BY <1>1, <1>4, Edge DEF HpsRest, HpsTake, HpsRise, HpsRead, HpsFall, hpsVars
<1>6. ~io_wr' /\ ~wr_pending' /\ ~old_io_ack'
  BY <1>1, <1>2, <1>4, Edge
<1> QED BY <1>4, <1>5, <1>6 DEF Draining, flush_busy, IoAck

\* Every step is a step of the stream or leaves it alone.
LEMMA StreamStep ==
  ASSUME Aligned, WriteInv, WriteInv', [Next]_vars
  PROVE  [Stream!Next]_(Stream!vars)
<1> USE DEF Transferring
<1>0. TypeOK
  BY DEF WriteInv
<1>1. CASE UNCHANGED vars
  BY <1>1 DEF vars, hostVars, ioVars, hpsVars, Stream!vars, Counting,
     flush_busy, IoAck, Blank
<1>2. ASSUME phase = "DATA_IN", phase' = "DATA_IN", UNCHANGED <<cmd_lba, tlen>>,
             Clock(FALSE), LbaCounter, UNCHANGED <<blk, off>>
      PROVE  Stream!Transfer
  <2>1. \/ image' = image
        \/ \E b \in 0 .. blk - 1 :
             /\ \A c \in 0 .. b - 1 : image[c] = {c}
             /\ image[b] = {}
             /\ image' = [image EXCEPT ![b] = {b}]
    BY <1>2, PersistStep
  <2> QED BY <1>2, <2>1 DEF Stream!Transfer, Stream!Persist, Counting
<1>3. CASE Wait
  <2>1. CASE phase = "DATA_IN"
    BY <2>1, <1>2, <1>3 DEF Wait, DataRest, Counting, Stream!Next
  <2>2. CASE phase = "STATUS_OUT"
    <3>1. /\ phase' = "STATUS_OUT" /\ UNCHANGED <<cmd_lba, tlen, blk, off>>
          /\ Clock(FALSE) /\ LbaCounter
      BY <1>3, <2>2 DEF Wait, DataRest, Counting
    <3>2. CASE Draining /\ Draining'
      <4>1. \/ image' = image
            \/ \E b \in 0 .. blk - 1 :
                 /\ \A c \in 0 .. b - 1 : image[c] = {c}
                 /\ image[b] = {}
                 /\ image' = [image EXCEPT ![b] = {b}]
        BY <2>2, <3>1, PersistStep
      <4> QED BY <2>2, <3>1, <3>2, <4>1
          DEF Draining, Stream!Transfer, Stream!Persist, Stream!Next, Counting
    <3>3. CASE ~(Draining /\ Draining')
      <4>1. /\ \A b \in 0 .. tlen - 1 : image[b] = {b}
            /\ image' = image /\ ~Draining'
        BY <2>2, <3>1, <3>3, Drained
      <4> QED BY <2>2, <3>1, <4>1
          DEF Draining, Stream!Finish, Stream!Next, Stream!vars, Counting
    <3> QED BY <3>2, <3>3
  <2>3. CASE phase = "MESSAGE_OUT"
    <3>1. image' = image
      BY <1>3, <2>3, EngineQuiet DEF Wait, WriteInv, HpsFall
    <3> QED BY <1>3, <2>3, <3>1 DEF Wait, Stream!vars, Counting
  <2>4. CASE phase \in {"IDLE", "CMD_IN"}
    BY <1>3, <2>4 DEF Wait, Stream!vars, Counting
  <2> QED BY <1>0, <2>1, <2>2, <2>3, <2>4 DEF TypeOK
<1>4. CASE Select
  BY <1>4 DEF Select, Stream!vars, Counting
<1>5. ASSUME NEW l \in LBAs, NEW t \in TLens, Command(l, t)
      PROVE  Stream!Begin(t)
  BY <1>5 DEF Command, DataRest, Counting, Stream!Begin, Blank, Stream!Blank
<1>6. ASSUME NEW n \in {1, 2}, Store(n) PROVE Stream!Transfer
  BY <1>2, <1>6 DEF Store, DataRest, Counting
<1>7. CASE Beat
  <2>1. /\ phase = "DATA_IN" /\ Accounts /\ blk < tlen /\ ~data_complete
        /\ phase' = "DATA_IN" /\ UNCHANGED <<cmd_lba, tlen>>
        /\ Clock(FALSE) /\ LbaCounter
    <3>1. phase = "DATA_IN" /\ beats > 0 /\ Accounts
      BY <1>0, <1>7 DEF Beat, WriteInv, TypeOK
    <3>2. blk < tlen /\ ~data_complete
      BY <1>0, <3>1 DEF Accounts, TypeOK
    <3> QED BY <1>7, <3>1, <3>2 DEF Beat
  <2>2. blk' = NextBlk /\ off' = NextOff
    BY <1>7, <2>1 DEF Beat, DataAdvance
  <2>3. \/ image' = image
        \/ \E b \in 0 .. blk - 1 :
             /\ \A c \in 0 .. b - 1 : image[c] = {c}
             /\ image[b] = {}
             /\ image' = [image EXCEPT ![b] = {b}]
    BY <2>1, PersistStep
  <2>4. Stream!Accept
    BY <2>1, <2>2 DEF Stream!Accept, NextBlk, NextOff
  <2> QED BY <2>1, <2>3, <2>4 DEF Stream!Transfer, Stream!Persist,
          Stream!Next, Counting
<1>8. CASE EndData
  <2>1. /\ phase = "DATA_IN" /\ phase' = "STATUS_OUT" /\ Accounts
        /\ UNCHANGED <<cmd_lba, tlen, blk, off>> /\ Clock(FALSE) /\ LbaCounter
    BY <1>8 DEF EndData, DataRest, Counting, WriteInv
  <2>2. off = 0
    <3>1. data_done /\ off \in Nat /\ tlen \in Nat /\ blk \in Nat
      BY <1>0, <1>8, WriteAssumption DEF EndData, TypeOK, Offsets
    <3> QED BY <2>1, <3>1 DEF Accounts, data_done
  <2>3. \/ image' = image
        \/ /\ old_io_ack'
           /\ \E b \in 0 .. blk - 1 :
                /\ \A c \in 0 .. b - 1 : image[c] = {c}
                /\ image[b] = {}
                /\ image' = [image EXCEPT ![b] = {b}]
    BY <2>1, PersistStep
  <2>4. CASE Draining'
    BY <2>1, <2>2, <2>3, <2>4
       DEF Draining, Stream!Transfer, Stream!Persist, Stream!Next, Counting
  <2>5. CASE ~Draining'
    <3>1. (\A b \in 0 .. tlen - 1 : image[b] = {b}) /\ image' = image
      <4>1. image' = image /\ ~flush_busy'
        BY <2>3, <2>5 DEF Draining
      <4>2. ~old_io_ack' /\ ~io_wr' /\ ~wr_pending'
        BY <2>5 DEF Draining, flush_busy
      <4>3. blk = Landed' /\ blk = tlen /\ tlen \in Nat
        <5>1. Flushed' \in Nat /\ blk = Flushed' + 0 + 0
          BY <2>1, <4>2, FlushStep DEF Flushing, Bit
        <5>2. Landed' = Flushed' + 0
          BY <4>2 DEF Landed, Bit
        <5>3. blk = tlen /\ tlen \in Nat
          BY <1>0, <1>8, <2>1 DEF EndData, data_done, Accounts, TypeOK
        <5>4. PICK f \in Nat : f = Flushed'
          BY <5>1
        <5>5. blk = f + 0 + 0 /\ Landed' = f + 0
          BY <5>1, <5>2, <5>4, Zenon
        <5> QED BY <5>3, <5>5
      <4>4. \A b \in 0 .. tlen - 1 :
              image'[b] = IF b < Landed' THEN {b} ELSE {}
        BY <2>1, LandStep
      <4>5. \A b \in 0 .. tlen - 1 : b < tlen
        BY <4>3
      <4> QED BY <4>1, <4>3, <4>4, <4>5
    <3> QED BY <2>1, <2>5, <3>1
        DEF Draining, Stream!Finish, Stream!Next, Counting
  <2> QED BY <2>4, <2>5
<1>9. CASE LastBytes
  <2>1. CASE phase = "STATUS_OUT"
    <3>1. /\ phase' = "MESSAGE_OUT" /\ UNCHANGED <<cmd_lba, tlen>>
          /\ Clock(FALSE) /\ LbaCounter /\ ~flush_busy
      BY <1>9, <2>1 DEF LastBytes, req, io_busy
    <3>2. /\ \A b \in 0 .. tlen - 1 : image[b] = {b}
          /\ hps = "idle" /\ ~io_wr /\ ~wr_pending
      BY <2>1, <3>1, AllLanded
    <3>3. image' = image
      BY <2>1, <3>1, <3>2, Edge
         DEF HpsRest, HpsTake, HpsRise, HpsRead, HpsFall, hpsVars
    <3> QED BY <2>1, <3>1, <3>2, <3>3
        DEF Stream!Finish, Stream!Next, Stream!vars, Counting
  <2>2. CASE phase = "MESSAGE_OUT"
    BY <1>9, <2>2 DEF LastBytes, Stream!Close, Stream!Next, Counting, Blank,
       Stream!Blank
  <2> QED BY <1>9, <2>1, <2>2 DEF LastBytes
<1>10. CASE BusReset
  BY <1>0, <1>10 DEF BusReset, TypeOK, Stream!vars, Stream!Close, Stream!Next,
     Counting, Blank, Stream!Blank
<1> QED BY <1>1, <1>3, <1>4, <1>5, <1>6, <1>7, <1>8, <1>9, <1>10
       DEF Next, Stream!Next

\* A WRITE whose accesses stay inside a sector is the in-order stream of its
\* own whole sectors, all persisted before it is done (WriteStream), for
\* every sector size and schedule of the HPS, the host and bus resets.
THEOREM WriteImplementsStream ==
  ASSUME Aligned PROVE Spec => ImplementsStream
<1>1. Init => Stream!Init
  BY DEF Init, Stream!Init, Counting, Blank, Stream!Blank
<1>2. WriteInv /\ WriteInv' /\ [Next]_vars => [Stream!Next]_(Stream!vars)
  BY StreamStep
<1> QED BY <1>1, <1>2, WriteInvariant, PTL
       DEF Spec, ImplementsStream, Stream!Spec
=============================================================================

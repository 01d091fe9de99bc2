-------------------------- MODULE PramStoreProofs --------------------------
(***************************************************************************)
(* Proofs about PramStore, for every PRAM size, byte value, watchdog,      *)
(* backstop, retry count and reset length: the working RAM of a running    *)
(* machine is the PRAM a save would write, a save writes the PRAM as it    *)
(* is, and an image believed clean holds it.                               *)
(***************************************************************************)
EXTENDS PramStore, TLAPS

\* What Next allows an outside event to be.
EventOK(ev) ==
  /\ ev.kind \in {"tick", "mount", "unmount", "osd", "clear", "store"}
  /\ ev.kind = "mount" => hps = "idle" /\ ev.image \in Pram
  /\ ev.kind = "store" =>
       /\ n_reset /\ ~copy_busy
       /\ ev.addr \in Cells /\ ev.data \in Values
       /\ WritesDuringSave \/ (pst \notin Saving /\ ~flush_pending /\ ~clr_pending)

\* Every step is a clock edge with one event at most.
LEMMA NextIsEdge ==
  ASSUME Next PROVE \E ev : EventOK(ev) /\ Edge(ev)
<1>1. CASE Tick
  <2>1. EventOK([kind |-> "tick"]) /\ Edge([kind |-> "tick"])
    BY <1>1 DEF Tick, EventOK
  <2> QED BY <2>1
<1>2. ASSUME NEW i \in Pram, Mount(i) PROVE \E ev : EventOK(ev) /\ Edge(ev)
  <2> DEFINE ev == [kind |-> "mount", image |-> i]
  <2>1. EventOK(ev) /\ Edge(ev)
    BY <1>2 DEF Mount, Event, EventOK
  <2> QED BY <2>1
<1>3. CASE Unmount
  <2>1. EventOK([kind |-> "unmount"]) /\ Edge([kind |-> "unmount"])
    BY <1>3 DEF Unmount, Event, EventOK
  <2> QED BY <2>1
<1>4. CASE OsdOpen
  <2>1. EventOK([kind |-> "osd"]) /\ Edge([kind |-> "osd"])
    BY <1>4 DEF OsdOpen, Event, EventOK
  <2> QED BY <2>1
<1>5. CASE ResetPram
  <2>1. EventOK([kind |-> "clear"]) /\ Edge([kind |-> "clear"])
    BY <1>5 DEF ResetPram, Event, EventOK
  <2> QED BY <2>1
<1>6. ASSUME NEW c \in Cells, NEW v \in Values, Store(c, v)
      PROVE  \E ev : EventOK(ev) /\ Edge(ev)
  <2> DEFINE ev == [kind |-> "store", addr |-> c, data |-> v]
  <2>1. EventOK(ev) /\ Edge(ev)
    BY <1>6 DEF Store, Event, EventOK
  <2> QED BY <2>1
<1> QED BY <1>1, <1>2, <1>3, <1>4, <1>5, <1>6 DEF Next

-----------------------------------------------------------------------------
(* Types *)

\* The byte counter indexes a cell while a copy or a clear runs.
TypeInv ==
  /\ TypeOK
  /\ pst \in {"CLR", "LD_CPY"} => pcnt \in Cells

\* The state machine's own registers.
FsmTypes ==
  /\ pst \in {"IDLE", "LD_RD", "LD_KICK", "LD_DAT", "LD_CPY", "FILL", "SV_WR",
              "SV_DAT", "CLR", "RST"}
  /\ pcnt \in 0 .. SIZE
  /\ pst \in {"CLR", "LD_CPY"} => pcnt \in Cells
  /\ pram_rd \in BOOLEAN /\ pram_wr_req \in BOOLEAN
  /\ pram_rst_after \in BOOLEAN /\ restart_after_load \in BOOLEAN
  /\ ld_wd \in 0 .. WD_MAX /\ ld_try \in 0 .. TRIES
  /\ pram_load = None \/ (pram_load.addr \in Cells /\ pram_load.data \in Values)

\* The registers around it.
FlagTypes ==
  /\ old_pack \in BOOLEAN /\ pram_ena \in BOOLEAN /\ pram_dirty \in BOOLEAN
  /\ load_pending \in BOOLEAN /\ flush_pending \in BOOLEAN
  /\ clr_pending \in BOOLEAN /\ pram_ready \in BOOLEAN /\ synced \in BOOLEAN
  /\ rdy_cnt \in 0 .. RDY_MAX
  /\ force_reset \in BOOLEAN /\ n_reset \in BOOLEAN
  /\ rst_hold \in 0 .. RST_HOLD

\* The Egret and the HPS.
DataTypes ==
  /\ pram_loaded \in BOOLEAN /\ copy_busy \in BOOLEAN
  /\ reset_latched \in BOOLEAN
  /\ copy_idx \in 0 .. SIZE
  /\ pram \in Pram /\ intram \in Pram /\ pram_buf \in Pram /\ img \in Pram
  /\ hps \in {"idle", "rd_busy", "rd_ack", "rd_end", "wr_busy", "wr_ack",
              "wr_end"}

\* The type invariant, by owner of the registers.
LEMMA TypesSplit == TypeInv <=> FsmTypes /\ FlagTypes /\ DataTypes
  BY DEF TypeInv, TypeOK, FsmTypes, FlagTypes, DataTypes

\* A byte written to a cell leaves a PRAM image.
LEMMA PutByte ==
  ASSUME NEW f \in Pram, NEW a \in Cells, NEW d \in Values
  PROVE  [f EXCEPT ![a] = d] \in Pram
  BY DEF Pram

\* A read of a cell is a byte.
LEMMA GetByte == ASSUME NEW f \in Pram, NEW a \in Cells PROVE f[a] \in Values
  BY DEF Pram

\* A step of the state machine keeps the types of its registers.
LEMMA FsmTypesKept ==
  ASSUME FsmTypes, FlagTypes, DataTypes, Fsm PROVE FsmTypes'
<1> USE PramAssumption DEF FsmTypes, Cells
<1>1. CASE Idle
  BY <1>1 DEF Idle
<1>2. CASE LoadRequest
  BY <1>2 DEF LoadRequest
<1>3. CASE LoadKick
  BY <1>3 DEF LoadKick
<1>4. CASE LoadData
  BY <1>4 DEF LoadData, FlagTypes
<1>5. CASE LoadCopy
  BY <1>5, GetByte DEF LoadCopy, LastByte, DataTypes
<1>6. CASE Fill
  BY <1>6 DEF Fill
<1>7. CASE SaveRequest
  BY <1>7 DEF SaveRequest
<1>8. CASE SaveData
  BY <1>8 DEF SaveData
<1>9. CASE Clear
  BY <1>9 DEF Clear, LastByte
<1>10. CASE StartReset
  BY <1>10 DEF StartReset
<1> QED BY <1>1, <1>2, <1>3, <1>4, <1>5, <1>6, <1>7, <1>8, <1>9, <1>10 DEF Fsm

\* An edge keeps the types of the latches, the ready gate and the reset pulse.
LEMMA FlagTypesKept ==
  ASSUME FsmTypes, FlagTypes, NEW ev, Edge(ev) PROVE FlagTypes'
<1> USE PramAssumption DEF Edge, FlagTypes
<1>1. /\ old_pack' \in BOOLEAN /\ pram_ena' \in BOOLEAN
      /\ load_pending' \in BOOLEAN /\ flush_pending' \in BOOLEAN
      /\ clr_pending' \in BOOLEAN /\ synced' \in BOOLEAN
  BY DEF Latches, pram_ack
<1>2. pram_dirty' \in BOOLEAN
  BY DEF Dirty
<1>3. pram_ready' \in BOOLEAN /\ rdy_cnt' \in 0 .. RDY_MAX
  BY DEF ReadyGate
<1>4. force_reset' \in BOOLEAN
  BY DEF ResetPulse
<1>5. n_reset' \in BOOLEAN
  BY DEF ResetPulse
<1>6. rst_hold' \in 0 .. RST_HOLD
  BY DEF ResetPulse
<1> QED BY <1>1, <1>2, <1>3, <1>4, <1>5, <1>6

\* The staging buffer, given a whole image from the HPS.
LEMMA BufferType ==
  ASSUME FsmTypes, DataTypes, NEW base \in Pram, Buffer(base)
  PROVE  pram_buf' \in Pram
<1> USE PramAssumption DEF FsmTypes, DataTypes
<1>1. CASE pst = "FILL" /\ pcnt # 0
  <2>1. pcnt - 1 \in Cells
    BY <1>1 DEF Cells
  <2>2. pram_buf' = [base EXCEPT ![pcnt - 1] = pram[pcnt - 1]]
    BY <1>1 DEF Buffer
  <2> QED BY <2>1, <2>2, PutByte, GetByte
<1>2. CASE pst = "CLR"
  <2>1. pram_buf' = [base EXCEPT ![pcnt] = 0]
    BY <1>2 DEF Buffer
  <2> QED BY <1>2, <2>1, PutByte
<1>3. CASE ~(pst = "FILL" /\ pcnt # 0) /\ pst # "CLR"
  BY <1>3 DEF Buffer
<1> QED BY <1>1, <1>2, <1>3

\* An edge keeps the types of the PRAM, the working RAM and the image.
LEMMA DataTypesKept ==
  ASSUME FsmTypes, FlagTypes, DataTypes, NEW ev, EventOK(ev), Edge(ev)
  PROVE  DataTypes'
<1> USE DEF Edge, DataTypes
<1>1. pram' \in Pram
  BY PutByte DEF Egret, FsmTypes, EventOK, pram_wr_stb, Stored
<1>2. /\ intram' \in Pram /\ copy_idx' \in 0 .. SIZE
      /\ pram_loaded' \in BOOLEAN /\ copy_busy' \in BOOLEAN
      /\ reset_latched' \in BOOLEAN
  <2>0. 0 \in 0 .. SIZE
    BY PramAssumption
  <2>1. copy_idx # SIZE => copy_idx \in Cells /\ copy_idx + 1 \in 0 .. SIZE
    BY PramAssumption DEF Cells
  <2>2. copy_idx # SIZE => [intram EXCEPT ![copy_idx] = pram[copy_idx]] \in Pram
    BY <2>1, PutByte, GetByte
  <2>3. Stored(ev) => [intram EXCEPT ![ev.addr] = ev.data] \in Pram
    BY PutByte DEF EventOK, Stored
  <2>4. intram' \in Pram /\ copy_idx' \in 0 .. SIZE
    <3>1. CASE copy_idx = SIZE
      BY <2>0, <2>3, <3>1 DEF Egret
    <3>2. CASE copy_idx # SIZE
      BY <2>0, <2>1, <2>2, <2>3, <3>2 DEF Egret
    <3> QED BY <3>1, <3>2
  <2>5. pram_loaded' \in BOOLEAN /\ copy_busy' \in BOOLEAN
    BY DEF Egret
  <2>6. reset_latched' \in BOOLEAN
    BY DEF Egret
  <2> QED BY <2>4, <2>5, <2>6
<1>3. /\ pram_buf' \in Pram /\ img' \in Pram
      /\ hps' \in {"idle", "rd_busy", "rd_ack", "rd_end", "wr_busy", "wr_ack",
                   "wr_end"}
  BY BufferType DEF EventOK, HpsRest, HpsMove, HpsTake, HpsRise, HpsRead,
     HpsWrite, HpsFall
<1> QED BY <1>1, <1>2, <1>3

\* The initial state has its types.
LEMMA InitTypes == Init => TypeInv
<1>1. Zero \in Pram
  BY PramAssumption DEF Pram, Zero
<1>2. 0 \in 0 .. SIZE /\ 0 \in 0 .. WD_MAX /\ 0 \in 0 .. TRIES
      /\ 0 \in 0 .. RDY_MAX /\ 0 \in 0 .. RST_HOLD
  BY PramAssumption
<1>3. ASSUME Init PROVE FsmTypes
  BY <1>2, <1>3 DEF Init, FsmTypes
<1>4. ASSUME Init PROVE FlagTypes
  BY <1>2, <1>4 DEF Init, FlagTypes
<1>5. ASSUME Init PROVE DataTypes
  BY <1>1, <1>2, <1>5 DEF Init, DataTypes
<1> QED BY <1>3, <1>4, <1>5, TypesSplit

\* Every register of the persistence logic of MacIIvi.sv and of the Egret's
\* PRAM keeps its type, whatever the watchdogs, events and answers do: the
\* copy, capture and clear counters never leave the PRAM.
THEOREM PramTypes == Spec => []TypeOK
<1>1. Init => TypeInv
  BY InitTypes
<1>2. TypeInv /\ [Next]_vars => TypeInv'
  <2>1. CASE UNCHANGED vars
    BY <2>1 DEF TypeInv, TypeOK, vars, fsmVars, flagVars, pendVars, rstVars,
         egretVars, hpsVars
  <2>2. ASSUME TypeInv, Next PROVE TypeInv'
    <3>1. PICK ev : EventOK(ev) /\ Edge(ev)
      BY <2>2, NextIsEdge
    <3>2. FsmTypes /\ FlagTypes /\ DataTypes
      BY <2>2, TypesSplit
    <3>3. FsmTypes' /\ FlagTypes' /\ DataTypes'
      BY <3>1, <3>2, FsmTypesKept, FlagTypesKept, DataTypesKept DEF Edge
    <3> QED BY <3>3, TypesSplit, PTL
  <2> QED BY <2>1, <2>2
<1>3. TypeInv => TypeOK
  BY DEF TypeInv
<1> QED BY <1>1, <1>2, <1>3, PTL DEF Spec

-----------------------------------------------------------------------------
(* The working copy *)

\* The release of the boot does not fall on the edge on which a load's sector
\* is complete and restart_after_load samples pram_ready.
NoReleaseRace == pst = "LD_DAT" /\ AckFall => pram_ready' = pram_ready

\* The next cell a running load writes to pram[].
Landing == IF pram_load # None THEN pram_load.addr ELSE pcnt

\* A load is being copied into pram[].
Landed == pst = "LD_CPY" \/ pram_load # None

\* Why the working copy is right.  A load that does not restart the machine
\* began before the boot was released, and the boot-copy stays behind it.
CopyInv ==
  /\ pram_loaded \/ copy_busy => pram_ready
  /\ restart_after_load => pst = "LD_CPY"
  /\ pram_rst_after => pst \in {"SV_WR", "SV_DAT"}
  /\ ~Restarting =>
       /\ pram_load # None => \/ pst = "LD_CPY" /\ pcnt = pram_load.addr + 1
                              \/ pst = "IDLE" /\ pram_load.addr = SIZE - 1
       /\ pst = "LD_CPY" /\ pram_load = None => ~pram_ready
       /\ Landed => ~pram_loaded /\ (copy_busy => copy_idx < Landing)
       /\ pram_loaded => intram = pram
       /\ copy_busy => \A c \in 0 .. copy_idx - 1 : intram[c] = pram[c]

\* A pending write to pram[] is not the idle value of its port.
LEMMA LoadIsSome ==
  ASSUME NEW a, NEW d PROVE [kind |-> "load", addr |-> a, data |-> d] # None
<1>1. [kind |-> "load", addr |-> a, data |-> d].kind = "load" /\ None.kind = "none"
  BY DEF None
<1> QED BY <1>1

\* What a step of the state machine does to the two restart flags.
LEMMA RestartFlags ==
  ASSUME CopyInv, Fsm
  PROVE  /\ restart_after_load' => pst' = "LD_CPY"
         /\ pram_rst_after' => pst' \in {"SV_WR", "SV_DAT"}
<1> USE DEF CopyInv
<1>1. CASE Idle
  BY <1>1 DEF Idle
<1>2. CASE LoadRequest
  BY <1>2 DEF LoadRequest
<1>3. CASE LoadKick
  BY <1>3 DEF LoadKick
<1>4. CASE LoadData
  BY <1>4 DEF LoadData
<1>5. CASE LoadCopy
  BY <1>5 DEF LoadCopy
<1>6. CASE Fill
  BY <1>6 DEF Fill
<1>7. CASE SaveRequest
  BY <1>7 DEF SaveRequest
<1>8. CASE SaveData
  BY <1>8 DEF SaveData
<1>9. CASE Clear
  BY <1>9 DEF Clear
<1>10. CASE StartReset
  BY <1>10 DEF StartReset
<1> QED BY <1>1, <1>2, <1>3, <1>4, <1>5, <1>6, <1>7, <1>8, <1>9, <1>10 DEF Fsm

\* A restart that has been announced goes on until the machine is in reset.
LEMMA RestartGoesOn ==
  ASSUME CopyInv, Fsm, ResetPulse, n_reset, Restarting
  PROVE  Restarting'
<1>1. CASE force_reset \/ pst = "RST"
  BY <1>1 DEF ResetPulse, Restarting
<1>2. CASE pst = "CLR"
  BY <1>2 DEF Fsm, Idle, LoadRequest, LoadKick, LoadData, LoadCopy, Fill,
       SaveRequest, SaveData, Clear, StartReset, Restarting
<1>3. CASE pst = "LD_CPY" /\ restart_after_load
  BY <1>3 DEF Fsm, Idle, LoadRequest, LoadKick, LoadData, LoadCopy, Fill,
       SaveRequest, SaveData, Clear, StartReset, Restarting
<1>4. CASE pram_rst_after
  <2>1. pst \in {"SV_WR", "SV_DAT"}
    BY <1>4 DEF CopyInv
  <2> QED
    BY <1>4, <2>1 DEF Fsm, Idle, LoadRequest, LoadKick, LoadData, LoadCopy, Fill,
       SaveRequest, SaveData, Clear, StartReset, Restarting
<1> QED BY <1>1, <1>2, <1>3, <1>4 DEF Restarting

\* Where a write to pram[] comes from, and which cell it is for.
LEMMA LandingStep ==
  ASSUME FsmTypes, FlagTypes, Fsm, NoReleaseRace, ~Restarting'
  PROVE  /\ pram_load' # None <=> pst = "LD_CPY"
         /\ pst = "LD_CPY" =>
              /\ ~LastByte => pst' = "LD_CPY" /\ pcnt' = pcnt + 1
              /\ LastByte => pst' = "IDLE"
              /\ pram_load'.addr = pcnt
         /\ pst' = "LD_CPY" /\ pst # "LD_CPY" =>
              /\ pst = "LD_DAT" /\ AckFall /\ ~pram_ready /\ ~pram_ready'
<1> USE LoadIsSome
<1>1. CASE LoadCopy
  BY <1>1 DEF LoadCopy, Restarting
<1>2. CASE LoadData
  BY <1>2 DEF LoadData, Restarting, NoReleaseRace, FlagTypes
<1>3. CASE Clear
  BY <1>3 DEF Clear, Restarting
<1>4. CASE Idle
  BY <1>4 DEF Idle
<1>5. CASE LoadRequest
  BY <1>5 DEF LoadRequest
<1>6. CASE LoadKick
  BY <1>6 DEF LoadKick
<1>7. CASE Fill
  BY <1>7 DEF Fill
<1>8. CASE SaveRequest
  BY <1>8 DEF SaveRequest
<1>9. CASE SaveData
  BY <1>9 DEF SaveData
<1>10. CASE StartReset
  BY <1>10 DEF StartReset
<1> QED BY <1>1, <1>2, <1>3, <1>4, <1>5, <1>6, <1>7, <1>8, <1>9, <1>10 DEF Fsm

\* An edge of a machine that is not in reset keeps the copied part right.
LEMMA CopyStep ==
  ASSUME FsmTypes, FlagTypes, DataTypes, CopyInv, NEW ev, EventOK(ev), Edge(ev),
         NoReleaseRace, ~Restarting, ~Restarting'
  PROVE  /\ Landed' => ~pram_loaded' /\ (copy_busy' => copy_idx' < Landing')
         /\ pram_loaded' => intram' = pram'
         /\ copy_busy' => \A c \in 0 .. copy_idx' - 1 : intram'[c] = pram'[c]
<1> DEFINE Keep ==
      /\ Landed' => ~pram_loaded' /\ (copy_busy' => copy_idx' < Landing')
      /\ pram_loaded' => intram' = pram'
      /\ copy_busy' => \A c \in 0 .. copy_idx' - 1 : intram'[c] = pram'[c]
<1>1. /\ pram_load' # None <=> pst = "LD_CPY"
      /\ pst = "LD_CPY" =>
           /\ ~LastByte => pst' = "LD_CPY" /\ pcnt' = pcnt + 1
           /\ LastByte => pst' = "IDLE"
           /\ pram_load'.addr = pcnt
      /\ pst' = "LD_CPY" /\ pst # "LD_CPY" =>
           /\ pst = "LD_DAT" /\ AckFall /\ ~pram_ready /\ ~pram_ready'
  BY LandingStep DEF Edge
<1>2. /\ pram_load # None => \/ pst = "LD_CPY" /\ pcnt = pram_load.addr + 1
                             \/ pst = "IDLE" /\ pram_load.addr = SIZE - 1
      /\ pst = "LD_CPY" /\ pram_load = None => ~pram_ready
      /\ Landed => ~pram_loaded /\ (copy_busy => copy_idx < Landing)
      /\ pram_loaded => intram = pram
      /\ copy_busy => \A c \in 0 .. copy_idx - 1 : intram[c] = pram[c]
      /\ pram_loaded \/ copy_busy => pram_ready
      /\ n_reset
  BY DEF CopyInv, Restarting
<1>3. /\ SIZE \in Nat /\ SIZE >= 1 /\ pcnt \in 0 .. SIZE /\ copy_idx \in 0 .. SIZE
      /\ pram_load # None => pram_load.addr \in Cells
      /\ pst = "LD_CPY" => pcnt \in Cells
  BY PramAssumption DEF FsmTypes, DataTypes
<1>4. pram' = IF pram_load # None
              THEN [pram EXCEPT ![pram_load.addr] = pram_load.data]
              ELSE IF pram_wr_stb(ev) THEN [pram EXCEPT ![ev.addr] = ev.data]
              ELSE pram
  BY DEF Edge, Egret
<1>5. CASE ~pram_loaded /\ ~copy_busy /\ ~reset_latched /\ pram_ready
           /\ copy_busy' = TRUE /\ copy_idx' = 0
           /\ UNCHANGED <<pram_loaded, intram>>
  <2>1. Landed' => pst = "LD_CPY"
    BY <1>1, <1>5 DEF Landed
  <2>2. pst = "LD_CPY" => pram_load # None /\ pcnt >= 1
    BY <1>2, <1>3, <1>5 DEF Cells
  <2>3. pst = "LD_CPY" => Landing' = pcnt
    BY <1>1 DEF Landing
  <2>4. \A c \in 0 .. copy_idx' - 1 : intram'[c] = pram'[c]
    BY <1>5
  <2>5. Landed' => copy_idx' < Landing'
    BY <1>3, <1>5, <2>1, <2>2, <2>3
  <2> QED BY <1>5, <2>4, <2>5
<1>6. CASE /\ copy_busy
           /\ intram' = IF copy_idx = SIZE THEN intram
                        ELSE [intram EXCEPT ![copy_idx] = pram[copy_idx]]
           /\ copy_busy' = (copy_idx # SIZE)
           /\ pram_loaded' = (copy_idx = SIZE)
           /\ copy_idx' = IF copy_idx = SIZE THEN copy_idx ELSE copy_idx + 1
  <2>1. ~Stored(ev)
    BY <1>6 DEF EventOK, Stored
  <2>2. Landed => copy_idx < Landing /\ copy_idx # SIZE
    BY <1>2, <1>3, <1>6 DEF Landing, Landed, Cells
  <2>3. \A c \in 0 .. copy_idx : c \in Cells => pram'[c] = pram[c]
    <3>1. CASE pram_load = None
      BY <1>4, <2>1, <3>1 DEF pram_wr_stb
    <3>2. CASE pram_load # None
      <4>1. copy_idx < pram_load.addr /\ copy_idx \in Int /\ pram_load.addr \in Int
        BY <1>3, <2>2, <3>2 DEF Landed, Landing, Cells
      <4> QED BY <1>4, <3>2, <4>1 DEF DataTypes, Pram
    <3> QED BY <3>1, <3>2
  <2>4. \A c \in 0 .. copy_idx - 1 : intram[c] = pram[c]
    BY <1>2, <1>6
  <2>5. CASE copy_idx = SIZE
    <3>1. intram' = intram /\ pram_loaded' /\ ~copy_busy'
      BY <1>6, <2>5
    <3>2. pram' = pram
      BY <1>4, <2>1, <2>2, <2>5 DEF Landed, pram_wr_stb
    <3>3. intram = pram
      BY <2>4, <2>5 DEF DataTypes, Pram, Cells
    <3>4. ~Landed'
      BY <1>1, <1>2, <1>6, <2>2, <2>5 DEF Landed
    <3> QED BY <3>1, <3>2, <3>3, <3>4
  <2>6. CASE copy_idx # SIZE
    <3>1. /\ intram' = [intram EXCEPT ![copy_idx] = pram[copy_idx]]
          /\ copy_idx' = copy_idx + 1 /\ copy_idx \in Cells /\ ~pram_loaded'
      <4>1. copy_idx \in Cells
        BY <1>3, <2>6 DEF Cells
      <4> QED BY <1>6, <2>6, <4>1
    <3>2. \A c \in 0 .. copy_idx : intram'[c] = pram[c]
      BY <2>4, <3>1 DEF DataTypes, Pram, Cells
    <3>3. \A c \in 0 .. copy_idx' - 1 : intram'[c] = pram'[c]
      BY <1>3, <2>3, <3>1, <3>2 DEF Cells
    <3>4. Landed' => pst = "LD_CPY"
      BY <1>1, <1>2, <1>6 DEF Landed
    <3>5. pst = "LD_CPY" => copy_idx' < Landing'
      <4>1. ASSUME pst = "LD_CPY" PROVE Landing' = pcnt /\ pcnt = Landing + 1
        BY <1>1, <1>2, <1>6, <4>1 DEF Landing
      <4>2. ASSUME pst = "LD_CPY" PROVE Landing \in Int /\ copy_idx < Landing
        BY <1>3, <2>2, <4>2 DEF Landed, Landing, Cells
      <4> QED BY <1>3, <3>1, <4>1, <4>2
    <3> QED BY <3>1, <3>3, <3>4, <3>5
  <2> QED BY <2>5, <2>6
<1>7. CASE /\ ~copy_busy
           /\ pram_loaded \/ reset_latched \/ ~pram_ready
           /\ intram' = IF Stored(ev) THEN [intram EXCEPT ![ev.addr] = ev.data]
                        ELSE intram
           /\ UNCHANGED <<pram_loaded, copy_busy, copy_idx>>
  <2>1. pram_loaded => ~Landed /\ intram' = pram'
    BY <1>2, <1>4, <1>7 DEF Landed, pram_wr_stb
  <2>2. pram_loaded => ~Landed'
    BY <1>1, <1>2, <2>1 DEF Landed
  <2> QED BY <1>7, <2>1, <2>2
<1> QED BY <1>2, <1>5, <1>6, <1>7 DEF Edge, Egret

\* CopyInv is inductive on every edge that is not the race.
LEMMA CopyInvStep ==
  ASSUME FsmTypes, FlagTypes, DataTypes, CopyInv, NEW ev, EventOK(ev), Edge(ev),
         NoReleaseRace
  PROVE  CopyInv'
<1>1. pram_loaded' \/ copy_busy' => pram_ready'
  <2>1. pram_ready => pram_ready'
    BY DEF Edge, ReadyGate
  <2>2. pram_loaded' \/ copy_busy' => pram_ready
    BY DEF Edge, Egret, CopyInv
  <2> QED BY <2>1, <2>2
<1>2. /\ restart_after_load' => pst' = "LD_CPY"
      /\ pram_rst_after' => pst' \in {"SV_WR", "SV_DAT"}
  BY RestartFlags DEF Edge
<1>3. ASSUME ~Restarting'
      PROVE  /\ pram_load' # None =>
                  \/ pst' = "LD_CPY" /\ pcnt' = pram_load'.addr + 1
                  \/ pst' = "IDLE" /\ pram_load'.addr = SIZE - 1
             /\ pst' = "LD_CPY" /\ pram_load' = None => ~pram_ready'
  BY <1>3, LandingStep DEF Edge, LastByte
<1>4. ASSUME ~Restarting', ~n_reset PROVE ~pram_loaded' /\ ~copy_busy'
  BY <1>4 DEF Edge, Egret
<1>5. ASSUME ~Restarting', n_reset PROVE ~Restarting
  BY <1>5, RestartGoesOn DEF Edge
<1>6. n_reset \in BOOLEAN
  BY DEF FlagTypes
<1> QED BY <1>1, <1>2, <1>3, <1>4, <1>5, <1>6, CopyStep DEF CopyInv

\* A running Mac works on the PRAM a save would write, however mounts, loads,
\* clears, resets, retries, late answers and firmware stores interleave, if
\* the release of the boot never falls on the edge on which MacIIvi.sv samples
\* it for a load (line 486; on that edge the property fails).
THEOREM WorkingCopyKept ==
  Spec /\ [][NoReleaseRace]_vars => []WorkingCopy
<1> DEFINE Inv == FsmTypes /\ FlagTypes /\ DataTypes /\ CopyInv
<1>1. Init => Inv
  <2>1. Init => CopyInv
    BY DEF Init, CopyInv, Restarting
  <2>2. Init => TypeInv
    BY InitTypes
  <2> QED BY <2>1, <2>2, TypesSplit
<1>2. Inv /\ [Next]_vars /\ [NoReleaseRace]_vars => Inv'
  <2>1. CASE UNCHANGED vars
    BY <2>1 DEF FsmTypes, FlagTypes, DataTypes, CopyInv, Restarting, Landed,
         Landing, vars, fsmVars, flagVars, pendVars, rstVars, egretVars, hpsVars
  <2>2. ASSUME Inv, Next, NoReleaseRace PROVE Inv'
    <3>1. PICK ev : EventOK(ev) /\ Edge(ev)
      BY <2>2, NextIsEdge
    <3>2. FsmTypes' /\ FlagTypes' /\ DataTypes'
      BY <2>2, <3>1, FsmTypesKept, FlagTypesKept, DataTypesKept DEF Edge
    <3> QED BY <2>2, <3>1, <3>2, CopyInvStep
  <2> QED BY <2>1, <2>2
<1>3. Inv => WorkingCopy
  BY DEF CopyInv, WorkingCopy
<1> QED BY <1>1, <1>2, <1>3, PTL DEF Spec

-----------------------------------------------------------------------------
(* The image *)

\* The environment of a save: the firmware does not store to PRAM while one
\* is under way, and the HPS answers in time what it picks up.
QuietSave == WritesDuringSave = FALSE /\ LateAnswers = FALSE

\* pram[] with the pending write done.
Applied(c) ==
  IF pram_load # None /\ pram_load.addr = c THEN pram_load.data ELSE pram[c]

Loading == {"LD_RD", "LD_KICK", "LD_DAT", "LD_CPY"}

\* Where the HPS can be in each state: the answer to a request comes in the
\* state that waits for it, and before its watchdog gives up.
Stages ==
  /\ pram_rd => pst = "LD_RD"
  /\ pram_wr_req => pst = "SV_WR"
  /\ hps = "rd_busy" => \/ pst = "LD_KICK"
                        \/ pst = "LD_RD" /\ (ld_try = TRIES => ld_wd < WD_MAX)
  /\ hps = "rd_ack" => pst \in {"LD_RD", "LD_KICK"}
  /\ hps = "rd_end" => pst \in {"LD_RD", "LD_DAT"}
  /\ hps \in {"wr_busy", "wr_ack"} => pst = "SV_WR"
  /\ hps = "wr_end" => pst = "SV_DAT"
  /\ pst = "LD_DAT" => \/ hps = "rd_end" /\ ld_wd = 0
                       \/ hps = "idle" /\ old_pack
  /\ pst = "SV_DAT" => hps = "wr_end" \/ (hps = "idle" /\ old_pack)

\* What the staging buffer holds in each state.
BufferHolds ==
  /\ pst = "FILL" => /\ pram_load = None
                     /\ \A c \in Cells : c < pcnt - 1 => pram_buf[c] = pram[c]
  /\ pst = "CLR" => \A c \in Cells : c < pcnt => pram_buf[c] = 0 /\ Applied(c) = 0
  /\ pst \in {"SV_WR", "SV_DAT"} => \A c \in Cells : pram_buf[c] = Applied(c)
  /\ pst = "LD_CPY" => /\ pcnt # 0 => pram_load # None
                       /\ \A c \in Cells : c < pcnt => Applied(c) = pram_buf[c]

\* What the image holds; a mount that has not been loaded yet is load_pending.
ImageHolds ==
  /\ hps = "rd_end" => pram_buf = img
  /\ pst \in {"LD_DAT", "LD_CPY"} /\ hps = "idle" /\ ~load_pending => pram_buf = img
  /\ pst = "SV_DAT" /\ ~load_pending => pram_buf = img
  /\ pst \in Loading => ~synced
  /\ pst \in {"IDLE", "RST", "FILL"} /\ synced /\ pram_ena /\ ~pram_dirty
       /\ ~load_pending => \A c \in Cells : img[c] = Applied(c)

SaveInv == Stages /\ BufferHolds /\ ImageHolds

\* The HPS serves what it has picked up without a pause, and a mount comes
\* between two requests.
LEMMA HpsStep ==
  ASSUME QuietSave, DataTypes, NEW ev, EventOK(ev), Edge(ev)
  PROVE  /\ hps = "idle" => \/ hps' = "idle"
                            \/ hps' = "rd_busy" /\ pram_rd /\ InTime
                            \/ hps' = "wr_busy" /\ pram_wr_req
         /\ hps = "rd_busy" => hps' = "rd_ack"
         /\ hps = "rd_ack" => hps' = "rd_end"
         /\ hps = "wr_busy" => hps' = "wr_ack"
         /\ hps = "wr_ack" => hps' = "wr_end"
         /\ hps \in {"rd_end", "wr_end"} => hps' = "idle"
         /\ img' = IF ev.kind = "mount" THEN ev.image
                   ELSE IF hps = "wr_ack" THEN pram_buf ELSE img
         /\ Buffer(IF hps = "rd_ack" THEN img ELSE pram_buf)
<1> USE DEF QuietSave, DataTypes, EventOK, Edge
<1>1. CASE ev.kind = "mount"
  BY <1>1
<1>2. CASE ev.kind # "mount" /\ HpsRest
  BY <1>2 DEF HpsRest
<1>3. CASE ev.kind # "mount" /\ HpsTake
  BY <1>3 DEF HpsTake
<1>4. CASE ev.kind # "mount" /\ HpsRise
  BY <1>4 DEF HpsRise
<1>5. CASE ev.kind # "mount" /\ HpsRead
  BY <1>5 DEF HpsRead
<1>6. CASE ev.kind # "mount" /\ HpsWrite
  BY <1>6 DEF HpsWrite
<1>7. CASE ev.kind # "mount" /\ HpsFall
  BY <1>7 DEF HpsFall
<1> QED BY <1>1, <1>2, <1>3, <1>4, <1>5, <1>6, <1>7 DEF HpsMove

\* The answers stay in the states that wait for them.
LEMMA StagesStep ==
  ASSUME FsmTypes, FlagTypes, DataTypes, QuietSave, Stages,
         NEW ev, EventOK(ev), Edge(ev)
  PROVE  Stages'
<1>1. /\ hps = "idle" => \/ hps' = "idle"
                         \/ hps' = "rd_busy" /\ pram_rd /\ InTime
                         \/ hps' = "wr_busy" /\ pram_wr_req
      /\ hps = "rd_busy" => hps' = "rd_ack"
      /\ hps = "rd_ack" => hps' = "rd_end"
      /\ hps = "wr_busy" => hps' = "wr_ack"
      /\ hps = "wr_ack" => hps' = "wr_end"
      /\ hps \in {"rd_end", "wr_end"} => hps' = "idle"
  BY HpsStep
<1>2. old_pack' = pram_ack
  BY DEF Edge, Latches
<1>3. Fsm
  BY DEF Edge
<1>4. /\ WD_MAX \in Nat /\ WD_MAX >= 2 /\ TRIES \in Nat
      /\ ld_wd \in 0 .. WD_MAX /\ ld_try \in 0 .. TRIES
  BY PramAssumption DEF FsmTypes
<1>5. hps \in {"idle", "rd_busy", "rd_ack", "rd_end", "wr_busy", "wr_ack",
               "wr_end"}
  BY DEF DataTypes
<1> USE DEF Stages, pram_ack
<1>6. CASE Idle
  <2>1. hps = "idle" /\ ~pram_rd /\ ~pram_wr_req
    BY <1>5, <1>6 DEF Idle
  <2>2. hps' = "idle" /\ pst' \in {"CLR", "LD_RD", "FILL", "IDLE"}
    BY <1>1, <1>6, <2>1 DEF Idle
  <2>3. pram_wr_req' = FALSE /\ (pram_rd' => pst' = "LD_RD")
    BY <1>6, <2>1 DEF Idle, FsmTypes, TakeLoad, TakeClr
  <2> QED BY <2>2, <2>3
<1>7. CASE LoadRequest
  <2>1. CASE pram_ack
    BY <1>1, <1>2, <1>5, <1>7, <2>1 DEF LoadRequest
  <2>2. CASE ~pram_ack /\ ld_wd = WD_MAX /\ ld_try = TRIES
    <3>1. ~InTime
      BY <1>4, <2>2 DEF QuietSave, InTime
    <3>2. hps = "idle" /\ hps' = "idle"
      BY <1>1, <1>5, <1>7, <2>2, <3>1, <1>4 DEF LoadRequest
    <3> QED BY <1>7, <2>2, <3>2 DEF LoadRequest
  <2>3. CASE ~pram_ack /\ ld_wd = WD_MAX /\ ld_try # TRIES
    BY <1>1, <1>5, <1>7, <2>3 DEF LoadRequest
  <2>4. CASE ~pram_ack /\ ld_wd # WD_MAX
    <3>1. /\ pst = "LD_RD" /\ pst' = "LD_RD"
          /\ ld_wd' = ld_wd + 1 /\ ld_try' = ld_try
          /\ pram_rd' = (pram_rd /\ ~pram_ack) /\ pram_wr_req' = pram_wr_req
      BY <1>7, <2>4 DEF LoadRequest
    <3>2. InTime => (ld_try' = TRIES => ld_wd' < WD_MAX)
      BY <1>4, <3>1 DEF QuietSave, InTime
    <3> QED BY <1>1, <1>5, <2>4, <3>1, <3>2
  <2> QED BY <2>1, <2>2, <2>3, <2>4
<1>8. CASE LoadKick
  <2>1. hps \in {"idle", "rd_busy", "rd_ack"} /\ ~pram_rd /\ ~pram_wr_req
    BY <1>5, <1>8 DEF LoadKick
  <2>2. hps' \in {"idle", "rd_ack", "rd_end"}
    BY <1>1, <2>1
  <2> QED BY <1>8, <2>1, <2>2 DEF LoadKick
<1>9. CASE LoadData
  <2>1. CASE hps = "rd_end" /\ ld_wd = 0
    <3>1. ~AckFall /\ ld_wd # WD_MAX
      BY <1>4, <2>1 DEF AckFall
    <3> QED BY <1>1, <1>2, <1>9, <2>1, <3>1 DEF LoadData
  <2>2. CASE hps = "idle" /\ old_pack
    BY <1>1, <1>9, <2>2 DEF LoadData, AckFall
  <2> QED BY <1>9, <2>1, <2>2 DEF LoadData
<1>10. CASE LoadCopy
  BY <1>1, <1>5, <1>10 DEF LoadCopy
<1>11. CASE Fill
  BY <1>1, <1>5, <1>11 DEF Fill
<1>12. CASE SaveRequest
  BY <1>1, <1>2, <1>5, <1>12 DEF SaveRequest
<1>13. CASE SaveData
  BY <1>1, <1>2, <1>5, <1>13 DEF SaveData, AckFall
<1>14. CASE Clear
  BY <1>1, <1>5, <1>14 DEF Clear
<1>15. CASE StartReset
  BY <1>1, <1>5, <1>15 DEF StartReset
<1> QED BY <1>3, <1>6, <1>7, <1>8, <1>9, <1>10, <1>11, <1>12, <1>13, <1>14,
       <1>15 DEF Fsm

\* An edge does the pending write, which wins over a store of the firmware.
LEMMA WriteLands ==
  ASSUME FsmTypes, DataTypes, NEW ev, EventOK(ev), Edge(ev),
         pram_load # None \/ ~pram_wr_stb(ev)
  PROVE  \A c \in Cells : pram'[c] = Applied(c)
<1>1. CASE pram_load # None
  <2>1. pram' = [pram EXCEPT ![pram_load.addr] = pram_load.data]
    BY <1>1 DEF Edge, Egret
  <2> QED BY <1>1, <2>1 DEF FsmTypes, DataTypes, Pram, Applied
<1>2. CASE pram_load = None
  <2>1. pram' = pram
    BY <1>2 DEF Edge, Egret
  <2> QED BY <1>2, <2>1 DEF Applied
<1> QED BY <1>1, <1>2

\* The buffer holds what its state says.
LEMMA BufferStep ==
  ASSUME FsmTypes, FlagTypes, DataTypes, QuietSave, Stages, BufferHolds,
         NEW ev, EventOK(ev), Edge(ev)
  PROVE  BufferHolds'
<1>1. Buffer(IF hps = "rd_ack" THEN img ELSE pram_buf)
  BY HpsStep
<1>2. pst \in Saving => ~Stored(ev)
  BY DEF EventOK, QuietSave, Stored
<1>3. pram_load # None \/ ~pram_wr_stb(ev) => \A c \in Cells : pram'[c] = Applied(c)
  BY WriteLands
<1>4. /\ SIZE \in Nat /\ SIZE >= 1 /\ pcnt \in 0 .. SIZE
      /\ pst \in {"CLR", "LD_CPY"} => pcnt \in Cells
      /\ pram_buf \in [Cells -> Values]
  BY PramAssumption DEF FsmTypes, DataTypes, Pram
<1>5. Fsm
  BY DEF Edge
<1>6. hps = "rd_ack" => pst \in {"LD_RD", "LD_KICK"}
  BY DEF Stages
<1> USE LoadIsSome
<1>7. CASE Idle
  BY <1>4, <1>7 DEF Idle, BufferHolds, Cells
<1>8. CASE LoadRequest
  BY <1>8 DEF LoadRequest, BufferHolds
<1>9. CASE LoadKick
  BY <1>9 DEF LoadKick, BufferHolds
<1>10. CASE LoadData
  BY <1>10 DEF LoadData, BufferHolds, Cells
<1>11. CASE LoadCopy
  <2>1. /\ pst = "LD_CPY" /\ pram_buf' = pram_buf
        /\ pram_load' = [kind |-> "load", addr |-> pcnt, data |-> pram_buf[pcnt]]
        /\ pst' \in {"LD_CPY", "RST", "IDLE"}
        /\ pst' = "LD_CPY" => pcnt' = pcnt + 1
    BY <1>1, <1>6, <1>11 DEF LoadCopy, Buffer
  <2>2. pram_load' # None
    BY <2>1
  <2>3. ASSUME NEW c \in Cells, c < pcnt + 1
        PROVE  Applied(c)' = pram_buf[c]
    <3>1. CASE c = pcnt
      BY <2>1, <2>2, <3>1 DEF Applied
    <3>2. CASE c # pcnt
      <4>1. c < pcnt /\ pcnt # 0
        BY <1>4, <2>3, <3>2 DEF Cells
      <4>2. pram_load # None /\ Applied(c) = pram_buf[c]
        BY <2>1, <4>1 DEF BufferHolds
      <4>3. pram'[c] = pram_buf[c]
        BY <1>3, <4>2
      <4> QED BY <2>1, <3>2, <4>3 DEF Applied
    <3> QED BY <3>1, <3>2
  <2> QED BY <2>1, <2>2, <2>3 DEF BufferHolds
<1>12. CASE Fill
  <2>1. /\ pst = "FILL" /\ pram_load' = None /\ pst \in Saving
        /\ pst' = IF pcnt = SIZE THEN "SV_WR" ELSE "FILL"
        /\ pcnt' = IF pcnt = SIZE THEN pcnt ELSE pcnt + 1
        /\ pram_load = None
        /\ \A c \in Cells : c < pcnt - 1 => pram_buf[c] = pram[c]
    BY <1>12 DEF Fill, BufferHolds, Saving
  <2>2. \A c \in Cells : pram'[c] = pram[c] /\ Applied(c)' = pram[c]
    BY <1>2, <1>3, <2>1 DEF Applied, pram_wr_stb
  <2>3. ASSUME NEW c \in Cells, c < pcnt PROVE pram_buf'[c] = pram[c]
    <3>1. pcnt # 0 /\ pcnt - 1 \in Cells
      BY <1>4, <2>3 DEF Cells
    <3>2. pram_buf' = [pram_buf EXCEPT ![pcnt - 1] = pram[pcnt - 1]]
      BY <1>1, <1>6, <2>1, <3>1 DEF Buffer
    <3>3. c = pcnt - 1 \/ c < pcnt - 1
      BY <1>4, <2>3 DEF Cells
    <3> QED BY <1>4, <2>1, <3>1, <3>2, <3>3
  <2>4. CASE pcnt = SIZE
    <3>1. \A c \in Cells : c < pcnt
      BY <1>4, <2>4 DEF Cells
    <3>2. pst' = "SV_WR" /\ \A c \in Cells : pram_buf'[c] = Applied(c)'
      BY <2>1, <2>2, <2>3, <2>4, <3>1
    <3> QED BY <3>2 DEF BufferHolds
  <2>5. CASE pcnt # SIZE
    <3>1. pst' = "FILL" /\ pcnt' - 1 = pcnt
      BY <1>4, <2>1, <2>5
    <3>2. \A c \in Cells : c < pcnt' - 1 => pram_buf'[c] = pram'[c]
      BY <2>2, <2>3, <3>1
    <3> QED BY <2>1, <3>1, <3>2 DEF BufferHolds
  <2> QED BY <2>4, <2>5
<1>13. CASE pst \in {"SV_WR", "SV_DAT"} /\ (SaveRequest \/ SaveData)
  <2>1. /\ pram_buf' = pram_buf /\ pram_load' = None /\ pst \in Saving
        /\ pst' \in {"SV_WR", "SV_DAT", "RST", "IDLE"}
    BY <1>1, <1>6, <1>13 DEF Buffer, SaveRequest, SaveData, Saving
  <2>2. \A c \in Cells : Applied(c)' = Applied(c)
    BY <1>2, <1>3, <2>1 DEF Applied, pram_wr_stb
  <2> QED BY <1>13, <2>1, <2>2 DEF BufferHolds
<1>14. CASE Clear
  <2>1. /\ pst = "CLR" /\ pst \in Saving
        /\ pram_buf' = [pram_buf EXCEPT ![pcnt] = 0]
        /\ pram_load' = [kind |-> "load", addr |-> pcnt, data |-> 0]
        /\ pst' = IF ~LastByte THEN "CLR" ELSE IF pram_ena THEN "SV_WR" ELSE "RST"
        /\ pcnt' = IF LastByte THEN pcnt ELSE pcnt + 1
    BY <1>1, <1>6, <1>14 DEF Clear, Buffer, Saving
  <2>2. pram_load' # None
    BY <2>1
  <2>3. ASSUME NEW c \in Cells, c < pcnt + 1
        PROVE  pram_buf'[c] = 0 /\ Applied(c)' = 0
    <3>1. CASE c = pcnt
      BY <1>4, <2>1, <2>2, <3>1 DEF Applied
    <3>2. CASE c # pcnt
      <4>1. c < pcnt
        BY <1>4, <2>3, <3>2 DEF Cells
      <4>2. pram_buf[c] = 0 /\ Applied(c) = 0
        BY <2>1, <4>1 DEF BufferHolds
      <4>3. pram'[c] = 0
        BY <1>2, <1>3, <2>1, <4>2 DEF pram_wr_stb
      <4> QED BY <1>4, <2>1, <3>2, <4>2, <4>3 DEF Applied
    <3> QED BY <3>1, <3>2
  <2>4. CASE LastByte
    <3>1. \A c \in Cells : c < pcnt + 1
      BY <1>4, <2>4 DEF LastByte, Cells
    <3>2. pst' \in {"SV_WR", "RST"}
      BY <2>1, <2>4
    <3>3. \A c \in Cells : pram_buf'[c] = Applied(c)'
      BY <2>3, <3>1
    <3> QED BY <3>2, <3>3 DEF BufferHolds
  <2>5. CASE ~LastByte
    BY <2>1, <2>3, <2>5 DEF BufferHolds
  <2> QED BY <2>4, <2>5
<1>15. CASE StartReset
  BY <1>15 DEF StartReset, BufferHolds
<1> QED BY <1>5, <1>7, <1>8, <1>9, <1>10, <1>11, <1>12, <1>13, <1>14, <1>15
       DEF Fsm, SaveRequest, SaveData

\* A state of the machine that neither captures nor clears leaves the buffer.
LEMMA BufferRests ==
  ASSUME NEW base, Buffer(base), pst \notin {"FILL", "CLR"}
  PROVE  pram_buf' = base
  BY DEF Buffer

\* The states a step of the machine can come from.
LEMMA Before ==
  ASSUME Fsm, Stages, DataTypes, FlagTypes, FsmTypes
  PROVE  /\ pst' = "LD_DAT" => \/ pst = "LD_RD" /\ pram_ack
                               \/ pst = "LD_DAT" /\ hps = "rd_end"
         /\ pst' = "LD_CPY" => \/ pst = "LD_DAT" /\ hps = "idle"
                               \/ pst = "LD_CPY" /\ ~LastByte
         /\ pst' = "LD_KICK" => pst = "LD_RD"
         /\ pst' = "LD_RD" => pst \in {"LD_RD", "LD_KICK"} \/ TakeLoad
         /\ pst' = "SV_DAT" => \/ pst = "SV_WR" /\ pram_ack
                               \/ pst = "SV_DAT" /\ ~AckFall
         /\ pst' = "FILL" => TakeFlush \/ pst = "FILL"
         /\ pst' = "RST" => \/ pst = "LD_CPY" /\ LastByte
                            \/ pst = "SV_DAT" /\ AckFall
                            \/ pst = "CLR" /\ ~pram_ena
         /\ pst' = "IDLE" => \/ pst = "IDLE" /\ ~TakeLoad
                             \/ pst \in {"LD_RD", "RST"}
                             \/ pst = "LD_CPY" /\ LastByte
                             \/ pst = "SV_DAT" /\ AckFall
<1>1. CASE Idle
  BY <1>1 DEF Idle, TakeLoad, TakeFlush, TakeClr
<1>2. CASE LoadRequest
  BY <1>2 DEF LoadRequest
<1>3. CASE LoadKick
  BY <1>3 DEF LoadKick
<1>4. CASE LoadData
  <2>1. CASE hps = "rd_end" /\ ld_wd = 0
    <3>1. ~AckFall
      BY <2>1 DEF AckFall, pram_ack
    <3>2. ld_wd # WD_MAX
      BY <2>1, PramAssumption
    <3> QED BY <1>4, <2>1, <3>1, <3>2 DEF LoadData
  <2>2. CASE hps = "idle" /\ old_pack
    BY <1>4, <2>2 DEF LoadData, AckFall, pram_ack
  <2> QED BY <1>4, <2>1, <2>2 DEF LoadData, Stages
<1>5. CASE LoadCopy
  BY <1>5 DEF LoadCopy
<1>6. CASE Fill
  BY <1>6 DEF Fill
<1>7. CASE SaveRequest
  BY <1>7 DEF SaveRequest
<1>8. CASE SaveData
  BY <1>8 DEF SaveData
<1>9. CASE Clear
  BY <1>9 DEF Clear
<1>10. CASE StartReset
  BY <1>10 DEF StartReset
<1> QED BY <1>1, <1>2, <1>3, <1>4, <1>5, <1>6, <1>7, <1>8, <1>9, <1>10 DEF Fsm

\* The image holds what the flags say.
LEMMA ImageStep ==
  ASSUME FsmTypes, FlagTypes, DataTypes, QuietSave, Stages, BufferHolds,
         BufferHolds', ImageHolds, NEW ev, EventOK(ev), Edge(ev)
  PROVE  ImageHolds'
<1>1. /\ hps \in {"idle", "rd_busy", "rd_ack", "rd_end", "wr_busy", "wr_ack",
                  "wr_end"}
      /\ hps = "idle" => hps' \in {"idle", "rd_busy", "wr_busy"}
      /\ hps = "rd_busy" => hps' = "rd_ack"
      /\ hps = "rd_ack" => hps' = "rd_end"
      /\ hps = "wr_busy" => hps' = "wr_ack"
      /\ hps = "wr_ack" => hps' = "wr_end"
      /\ hps \in {"rd_end", "wr_end"} => hps' = "idle"
      /\ img' = IF ev.kind = "mount" THEN ev.image
                ELSE IF hps = "wr_ack" THEN pram_buf ELSE img
  BY HpsStep DEF DataTypes
<1>2. /\ pst \notin {"FILL", "CLR"} =>
           pram_buf' = IF hps = "rd_ack" THEN img ELSE pram_buf
      /\ ev.kind = "mount" => hps = "idle"
  BY HpsStep, BufferRests DEF EventOK
<1>3. /\ load_pending' = (~TakeLoad /\ (ev.kind = "mount" \/ load_pending))
      /\ pram_ena' = (LoadDone \/ (IF ev.kind \in {"mount", "unmount"}
                                   THEN ev.kind = "mount" ELSE pram_ena))
      /\ synced' = (ev.kind # "mount" /\ ~TakeLoad
                      /\ (LoadDone \/ SaveDone \/ synced))
      /\ pram_dirty' = (~LoadDone /\ ~SaveDone /\ (pram_wr_stb(ev) \/ pram_dirty))
  BY DEF Edge, Latches, Dirty
<1>4. /\ pst' = "LD_DAT" => \/ pst = "LD_RD" /\ pram_ack
                            \/ pst = "LD_DAT" /\ hps = "rd_end"
      /\ pst' = "LD_CPY" => \/ pst = "LD_DAT" /\ hps = "idle"
                            \/ pst = "LD_CPY" /\ ~LastByte
      /\ pst' = "LD_KICK" => pst = "LD_RD"
      /\ pst' = "LD_RD" => pst \in {"LD_RD", "LD_KICK"} \/ TakeLoad
      /\ pst' = "SV_DAT" => \/ pst = "SV_WR" /\ pram_ack
                            \/ pst = "SV_DAT" /\ ~AckFall
      /\ pst' = "FILL" => TakeFlush \/ pst = "FILL"
      /\ pst' = "RST" => \/ pst = "LD_CPY" /\ LastByte
                         \/ pst = "SV_DAT" /\ AckFall
                         \/ pst = "CLR" /\ ~pram_ena
      /\ pst' = "IDLE" => \/ pst = "IDLE" /\ ~TakeLoad
                          \/ pst \in {"LD_RD", "RST"}
                          \/ pst = "LD_CPY" /\ LastByte
                          \/ pst = "SV_DAT" /\ AckFall
  BY Before DEF Edge
<1>5. hps' = "rd_end" => pram_buf' = img'
  <2>1. hps' = "rd_end" => hps = "rd_ack"
    BY <1>1
  <2>2. hps = "rd_ack" => pst \in {"LD_RD", "LD_KICK"}
    BY DEF Stages
  <2> QED BY <1>1, <1>2, <2>1, <2>2
<1>6. ASSUME ~load_pending', ~TakeLoad PROVE ev.kind # "mount" /\ ~load_pending
  BY <1>3, <1>6 DEF FlagTypes
<1>7. pst' \in {"LD_DAT", "LD_CPY"} /\ hps' = "idle" /\ ~load_pending' =>
        pram_buf' = img'
  <2> SUFFICES ASSUME pst' \in {"LD_DAT", "LD_CPY"}, hps' = "idle", ~load_pending'
               PROVE  pram_buf' = img'
    OBVIOUS
  <2>1. pst \in {"LD_RD", "LD_DAT", "LD_CPY"}
    BY <1>4
  <2>2. ev.kind # "mount" /\ ~load_pending
    BY <1>6, <2>1 DEF TakeLoad
  <2>3. hps = "rd_end" \/ (hps = "idle" /\ pst \in {"LD_DAT", "LD_CPY"})
    BY <1>1, <1>4, <2>1 DEF Stages, pram_ack
  <2>4. pram_buf = img
    BY <2>2, <2>3 DEF ImageHolds
  <2> QED BY <1>1, <1>2, <2>1, <2>2, <2>3, <2>4
<1>8. pst' = "SV_DAT" /\ ~load_pending' => pram_buf' = img'
  <2> SUFFICES ASSUME pst' = "SV_DAT", ~load_pending' PROVE pram_buf' = img'
    OBVIOUS
  <2>1. pst \in {"SV_WR", "SV_DAT"}
    BY <1>4
  <2>2. ev.kind # "mount" /\ ~load_pending
    BY <1>6, <2>1 DEF TakeLoad
  <2>3. hps = "wr_ack" \/ (pst = "SV_DAT" /\ hps # "wr_ack")
    BY <1>1, <1>4, <2>1 DEF Stages, pram_ack
  <2>4. hps # "rd_ack"
    BY <2>1 DEF Stages
  <2>5. pst = "SV_DAT" => pram_buf = img
    BY <2>2 DEF ImageHolds
  <2> QED BY <1>1, <1>2, <2>1, <2>2, <2>3, <2>4, <2>5
<1>9. pst' \in Loading => ~synced'
  <2>1. pst' \in Loading => TakeLoad \/ (pst \in Loading /\ ~LoadDone)
    BY <1>4 DEF Loading, LoadDone
  <2>2. pst \in Loading => ~SaveDone /\ ~synced
    BY DEF Loading, SaveDone, ImageHolds
  <2> QED BY <1>3, <2>1, <2>2
<1>10. ASSUME pst' \in {"IDLE", "RST", "FILL"}, synced', pram_ena', ~pram_dirty',
              ~load_pending', NEW c \in Cells
       PROVE  img'[c] = Applied(c)'
  <2>1. ev.kind # "mount" /\ ~load_pending /\ (LoadDone \/ SaveDone \/ synced)
    BY <1>3, <1>10, <1>6
  <2>2. CASE LoadDone
    <3>1. pst = "LD_CPY" /\ LastByte
      BY <2>2 DEF LoadDone
    <3>2. hps = "idle"
      BY <1>1, <3>1 DEF Stages
    <3>3. img' = pram_buf
      BY <1>1, <2>1, <3>1, <3>2 DEF ImageHolds
    <3>4. /\ pram_load' = [kind |-> "load", addr |-> pcnt, data |-> pram_buf[pcnt]]
          /\ pram_load' # None
      <4>1. pram_load' = [kind |-> "load", addr |-> pcnt, data |-> pram_buf[pcnt]]
        BY <3>1 DEF Edge, Fsm, Idle, LoadRequest, LoadKick, LoadData, LoadCopy,
           Fill, SaveRequest, SaveData, Clear, StartReset
      <4> QED BY <4>1, LoadIsSome
    <3>5. CASE c = pcnt
      BY <3>3, <3>4, <3>5 DEF Applied
    <3>6. CASE c # pcnt
      <4>1. c < pcnt /\ pcnt # 0
        BY <3>1, <3>6, PramAssumption DEF LastByte, Cells
      <4>2. pram_load # None /\ Applied(c) = pram_buf[c]
        BY <3>1, <4>1 DEF BufferHolds
      <4>3. pram'[c] = pram_buf[c]
        BY <4>2, WriteLands
      <4> QED BY <3>3, <3>4, <3>6, <4>3 DEF Applied
    <3> QED BY <3>5, <3>6
  <2>3. CASE SaveDone
    <3>1. pst = "SV_DAT" /\ AckFall
      BY <2>3 DEF SaveDone
    <3>2. hps \notin {"rd_ack", "wr_ack"}
      BY <3>1 DEF Stages
    <3>3. img' = pram_buf
      BY <1>1, <2>1, <3>1, <3>2 DEF ImageHolds
    <3>4. pram_load' = None
      BY <3>1 DEF Edge, Fsm, Idle, LoadRequest, LoadKick, LoadData, LoadCopy,
           Fill, SaveRequest, SaveData, Clear, StartReset
    <3>5. ~pram_wr_stb(ev)
      BY <3>1 DEF EventOK, QuietSave, Saving, pram_wr_stb, Stored
    <3>6. pram'[c] = Applied(c) /\ pram_buf[c] = Applied(c)
      BY <3>1, <3>5, WriteLands DEF BufferHolds
    <3> QED BY <3>3, <3>4, <3>6 DEF Applied
  <2>4. CASE ~LoadDone /\ ~SaveDone
    <3>1. synced /\ ~pram_wr_stb(ev) /\ ~pram_dirty /\ pram_ena
      BY <1>3, <1>10, <2>1, <2>4 DEF FlagTypes
    <3>2. pst \in {"IDLE", "RST", "FILL"}
      BY <1>4, <1>10, <2>4, <3>1 DEF LoadDone, SaveDone, TakeFlush, ImageHolds,
         Loading
    <3>3. img[c] = Applied(c)
      BY <2>1, <3>1, <3>2 DEF ImageHolds
    <3>4. img' = img
      BY <1>1, <2>1, <3>2 DEF Stages
    <3>5. pram_load' = None
      BY <3>2 DEF Edge, Fsm, Idle, LoadRequest, LoadKick, LoadData, LoadCopy,
           Fill, SaveRequest, SaveData, Clear, StartReset
    <3>6. pram'[c] = Applied(c)
      BY <3>1, WriteLands
    <3> QED BY <3>3, <3>4, <3>5, <3>6 DEF Applied
  <2> QED BY <2>2, <2>3, <2>4
<1> QED BY <1>5, <1>7, <1>8, <1>9, <1>10 DEF ImageHolds

\* The invariants of a save and their types.
FullSaveInv == FsmTypes /\ FlagTypes /\ DataTypes /\ SaveInv

\* FullSaveInv is an invariant of every machine with quiet saves.
LEMMA SaveInvariant == ASSUME QuietSave PROVE Spec => []FullSaveInv
<1>1. Init => FullSaveInv
  <2>1. ASSUME Init PROVE SaveInv
    BY <2>1 DEF Init, SaveInv, Stages, BufferHolds, ImageHolds, Loading
  <2>2. Init => TypeInv
    BY InitTypes
  <2> QED BY <2>1, <2>2, TypesSplit DEF FullSaveInv
<1>2. FullSaveInv /\ [Next]_vars => FullSaveInv'
  <2>1. ASSUME FullSaveInv, UNCHANGED vars PROVE FullSaveInv'
    BY <2>1 DEF FullSaveInv, FsmTypes, FlagTypes, DataTypes, SaveInv, Stages,
         BufferHolds, ImageHolds, Applied, vars, fsmVars, flagVars, pendVars,
         rstVars, egretVars, hpsVars
  <2>2. ASSUME FullSaveInv, Next PROVE FullSaveInv'
    <3>1. PICK ev : EventOK(ev) /\ Edge(ev)
      BY <2>2, NextIsEdge
    <3>2. FsmTypes' /\ FlagTypes' /\ DataTypes'
      BY <2>2, <3>1, FsmTypesKept, FlagTypesKept, DataTypesKept
         DEF Edge, FullSaveInv
    <3>3. Stages' /\ BufferHolds'
      BY <2>2, <3>1, StagesStep, BufferStep DEF FullSaveInv, SaveInv
    <3>4. ImageHolds'
      BY <2>2, <3>1, <3>3, ImageStep DEF FullSaveInv, SaveInv
    <3> QED BY <3>2, <3>3, <3>4 DEF FullSaveInv, SaveInv
  <2> QED BY <2>1, <2>2
<1> QED BY <1>1, <1>2, PTL DEF Spec

\* An image MacIIvi.sv believes clean (pram_dirty down, nothing pending) holds
\* the PRAM, through every order of loads, saves, clears, mounts and retries.
THEOREM CleanImageSaved == ASSUME QuietSave PROVE Spec => []CleanIsSaved
<1>1. FullSaveInv => CleanIsSaved
  <2> SUFFICES ASSUME FullSaveInv, synced, pst = "IDLE", pram_ena, ~pram_dirty,
                      ~load_pending, pram_load = None
               PROVE  img = pram
    BY DEF CleanIsSaved
  <2>1. \A c \in Cells : img[c] = pram[c]
    BY DEF FullSaveInv, SaveInv, ImageHolds, Applied
  <2> QED BY <2>1 DEF FullSaveInv, DataTypes, Pram
<1> QED BY <1>1, SaveInvariant, PTL

\* The sector the HPS writes in a save is the PRAM as it is on that edge, with
\* the write still in flight: never a half-filled or stale buffer.
THEOREM SavesThePram == ASSUME QuietSave PROVE Spec => SaveWritesPram
<1>1. FullSaveInv /\ [Next]_vars =>
        [hps = "wr_ack" /\ hps' = "wr_end" =>
           \A c \in Cells : img'[c] = IF pram_load # None /\ pram_load.addr = c
                                      THEN pram_load.data ELSE pram[c]]_vars
  <2> SUFFICES ASSUME FullSaveInv, Next, hps = "wr_ack", hps' = "wr_end"
               PROVE  \A c \in Cells : img'[c] = Applied(c)
    BY DEF Applied
  <2>1. PICK ev : EventOK(ev) /\ Edge(ev)
    BY NextIsEdge
  <2>2. ev.kind # "mount"
    BY <2>1 DEF EventOK
  <2>3. img' = pram_buf
    BY <2>1, <2>2, HpsStep DEF FullSaveInv
  <2>4. pst = "SV_WR"
    BY DEF FullSaveInv, SaveInv, Stages
  <2> QED BY <2>3, <2>4 DEF FullSaveInv, SaveInv, BufferHolds
<1> QED BY <1>1, SaveInvariant, PTL DEF Spec, SaveWritesPram

=============================================================================

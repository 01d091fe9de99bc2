----------------------------- MODULE PramStore -----------------------------
(***************************************************************************)
(* PRAM persistence: the state machine of MacIIvi.sv that loads the PRAM   *)
(* image when it is mounted, saves it when the OSD opens, clears it on     *)
(* "Reset PRAM & Core", and releases the boot; with the Egret side it      *)
(* talks to (rtl/egret/egret_wrapper.sv): pram[], the boot-copy into the   *)
(* firmware's working RAM, and the mirror of the firmware's writes.        *)
(*                                                                         *)
(* A step is one clock edge, on which every register takes its next value. *)
(* At most one outside event (a mount, the OSD opening, "Reset PRAM &      *)
(* Core", a firmware store) falls on an edge; the HPS and the firmware's   *)
(* boot progress are free to move on any edge.                             *)
(***************************************************************************)
EXTENDS Integers

CONSTANTS
  SIZE,              \* bytes of PRAM (256)
  Values,            \* values of a byte
  WD_MAX,            \* load watchdog (PRAM_LD_WD_MAX)
  RDY_MAX,           \* ready backstop (200_000_000)
  TRIES,             \* re-kicks of a load before it is abandoned (3)
  RST_HOLD,          \* length of the reset pulse (127)
  MaxEvents,         \* outside events in a behaviour
  WritesDuringSave,  \* TRUE: the firmware may store to PRAM during a save
  LateAnswers        \* TRUE: the HPS may answer a request it picked up
                     \* after the load watchdog abandoned it

ASSUME PramAssumption ==
  /\ SIZE \in Nat /\ SIZE >= 1
  /\ 0 \in Values
  /\ WD_MAX \in Nat /\ WD_MAX >= 2
  /\ RDY_MAX \in Nat /\ TRIES \in Nat /\ RST_HOLD \in Nat /\ MaxEvents \in Nat
  /\ WritesDuringSave \in BOOLEAN /\ LateAnswers \in BOOLEAN

VARIABLES
  pst, pcnt,                       \* the state machine and its byte counter
  pram_rd, pram_wr_req, old_pack,  \* its SD requests, its ack history
  pram_buf,                        \* the staging buffer
  pram_load,                       \* pram_load_wr/addr/data: a pending write
  pram_ena, pram_dirty, pram_rst_after,
  load_pending, flush_pending, clr_pending,
  pram_ready, rdy_cnt, restart_after_load, ld_wd, ld_try,
  force_reset, rst_hold,           \* the reset pulse
  n_reset,                         \* system reset, low while it is asserted
  pram, intram,                    \* the canonical PRAM; the working RAM
  pram_loaded, copy_busy, copy_idx,
  reset_latched,                   \* the firmware holds the 68030 in reset
  hps, img,                        \* HPS service of slot 2; the image file
  synced,                          \* history: a load or a save has completed
                                   \* since the last mount
  events

fsmVars   == <<pst, pcnt, pram_rd, pram_wr_req, pram_load, pram_rst_after,
               restart_after_load, ld_wd, ld_try>>
flagVars  == <<pram_ena, pram_dirty, pram_ready, rdy_cnt, old_pack, synced>>
pendVars  == <<load_pending, flush_pending, clr_pending>>
rstVars   == <<force_reset, rst_hold, n_reset>>
egretVars == <<pram, intram, pram_loaded, copy_busy, copy_idx, reset_latched>>
hpsVars   == <<hps, img, pram_buf>>
vars == <<fsmVars, flagVars, pendVars, rstVars, egretVars, hpsVars, events>>

Cells == 0 .. SIZE - 1
Pram  == [Cells -> Values]
Zero  == [c \in Cells |-> 0]
None  == [kind |-> "none"]
Saving == {"FILL", "SV_WR", "SV_DAT", "CLR", "RST"}

-----------------------------------------------------------------------------
(* Wires *)

pram_ack == hps \in {"rd_ack", "rd_end", "wr_ack", "wr_end"}
AckFall  == old_pack /\ ~pram_ack
LastByte == pcnt = SIZE - 1

GiveUp   == \/ pst = "LD_RD" /\ ~pram_ack /\ ld_wd = WD_MAX /\ ld_try = TRIES
            \/ pst = "LD_DAT" /\ ~AckFall /\ ld_wd = WD_MAX
LoadDone == pst = "LD_CPY" /\ LastByte
SaveDone == pst = "SV_DAT" /\ AckFall

\* P_IDLE serves a clear before a load before a flush.
TakeClr   == pst = "IDLE" /\ clr_pending
TakeLoad  == pst = "IDLE" /\ ~clr_pending /\ load_pending
TakeFlush == pst = "IDLE" /\ ~clr_pending /\ ~load_pending /\ flush_pending

\* A store of the firmware to the PRAM region, and its mirror strobe.
Stored(ev)      == ev.kind = "store"
pram_wr_stb(ev) == Stored(ev) /\ pram_loaded

-----------------------------------------------------------------------------
(* The state machine, one action per state *)

Idle ==
  /\ pst = "IDLE"
  /\ pst' = IF TakeClr THEN "CLR" ELSE IF TakeLoad THEN "LD_RD"
            ELSE IF TakeFlush THEN "FILL" ELSE "IDLE"
  /\ pcnt' = IF TakeClr \/ TakeFlush THEN 0 ELSE pcnt
  /\ pram_rd' = (TakeLoad \/ pram_rd)
  /\ ld_wd' = IF TakeLoad THEN 0 ELSE ld_wd
  /\ ld_try' = IF TakeLoad THEN 0 ELSE ld_try
  /\ pram_rst_after' = (pram_rst_after /\ ~TakeFlush)
  /\ pram_load' = None
  /\ UNCHANGED <<pram_wr_req, restart_after_load>>

LoadRequest ==
  /\ pst = "LD_RD"
  /\ LET expired == ~pram_ack /\ ld_wd = WD_MAX
     IN /\ pst' = IF pram_ack THEN "LD_DAT"
                  ELSE IF ~expired THEN "LD_RD"
                  ELSE IF ld_try = TRIES THEN "IDLE" ELSE "LD_KICK"
        /\ pram_rd' = (pram_rd /\ ~pram_ack /\ ~expired)
        /\ ld_wd' = IF pram_ack \/ expired THEN 0 ELSE ld_wd + 1
        /\ ld_try' = IF expired /\ ld_try # TRIES THEN ld_try + 1 ELSE ld_try
  /\ pram_load' = None
  /\ UNCHANGED <<pcnt, pram_wr_req, pram_rst_after, restart_after_load>>

LoadKick ==
  /\ pst = "LD_KICK"
  /\ pst' = "LD_RD" /\ pram_rd' = TRUE
  /\ pram_load' = None
  /\ UNCHANGED <<pcnt, pram_wr_req, pram_rst_after, restart_after_load, ld_wd,
                 ld_try>>

\* Fault: a late load does not restart the machine.
LoadDataNoRestart ==
  /\ pst = "LD_DAT"
  /\ pst' = IF AckFall THEN "LD_CPY" ELSE IF ld_wd = WD_MAX THEN "IDLE" ELSE pst
  /\ pcnt' = IF AckFall THEN 0 ELSE pcnt
  /\ ld_wd' = IF AckFall THEN ld_wd ELSE IF ld_wd = WD_MAX THEN 0 ELSE ld_wd + 1
  /\ pram_load' = None
  /\ UNCHANGED <<pram_rd, pram_wr_req, pram_rst_after, restart_after_load, ld_try>>

\* The sector is in pram_buf when ack falls.  A copy that lands after the
\* release of the boot will restart the machine.
LoadData ==
  /\ pst = "LD_DAT"
  /\ \/ /\ AckFall
        /\ pst' = "LD_CPY" /\ pcnt' = 0
        /\ restart_after_load' = pram_ready
        /\ UNCHANGED ld_wd
     \/ /\ ~AckFall /\ ld_wd = WD_MAX
        /\ pst' = "IDLE" /\ ld_wd' = 0
        /\ UNCHANGED <<pcnt, restart_after_load>>
     \/ /\ ~AckFall /\ ld_wd # WD_MAX
        /\ ld_wd' = ld_wd + 1
        /\ UNCHANGED <<pst, pcnt, restart_after_load>>
  /\ pram_load' = None
  /\ UNCHANGED <<pram_rd, pram_wr_req, pram_rst_after, ld_try>>

LoadCopy ==
  /\ pst = "LD_CPY"
  /\ pram_load' = [kind |-> "load", addr |-> pcnt, data |-> pram_buf[pcnt]]
  /\ pst' = IF ~LastByte THEN "LD_CPY"
            ELSE IF restart_after_load THEN "RST" ELSE "IDLE"
  /\ pcnt' = IF LastByte THEN pcnt ELSE pcnt + 1
  /\ restart_after_load' = (restart_after_load /\ ~LastByte)
  /\ UNCHANGED <<pram_rd, pram_wr_req, pram_rst_after, ld_wd, ld_try>>

\* Faults: the capture stops before the last byte, or goes one too far.
FillUntil(last) ==
  /\ pst = "FILL"
  /\ pst' = IF pcnt = last THEN "SV_WR" ELSE "FILL"
  /\ pcnt' = IF pcnt = last THEN pcnt ELSE pcnt + 1
  /\ pram_load' = None
  /\ UNCHANGED <<pram_rd, pram_wr_req, pram_rst_after, restart_after_load,
                 ld_wd, ld_try>>
FillShort == FillUntil(SIZE - 1)
FillLong  == FillUntil(SIZE + 1)

\* Its capture into pram_buf is in Buffer.
Fill ==
  /\ pst = "FILL"
  /\ pst' = IF pcnt = SIZE THEN "SV_WR" ELSE "FILL"
  /\ pcnt' = IF pcnt = SIZE THEN pcnt ELSE pcnt + 1
  /\ pram_load' = None
  /\ UNCHANGED <<pram_rd, pram_wr_req, pram_rst_after, restart_after_load,
                 ld_wd, ld_try>>

SaveRequest ==
  /\ pst = "SV_WR"
  /\ pram_wr_req' = ~pram_ack
  /\ pst' = IF pram_ack THEN "SV_DAT" ELSE "SV_WR"
  /\ pram_load' = None
  /\ UNCHANGED <<pcnt, pram_rd, pram_rst_after, restart_after_load, ld_wd,
                 ld_try>>

SaveData ==
  /\ pst = "SV_DAT"
  /\ pst' = IF ~AckFall THEN "SV_DAT"
            ELSE IF pram_rst_after THEN "RST" ELSE "IDLE"
  /\ pram_rst_after' = (pram_rst_after /\ ~AckFall)
  /\ pram_load' = None
  /\ UNCHANGED <<pcnt, pram_rd, pram_wr_req, restart_after_load, ld_wd, ld_try>>

\* Fault: the reset that follows the save of a cleared PRAM is forgotten.
ClearNoReset ==
  /\ pst = "CLR"
  /\ pram_load' = [kind |-> "load", addr |-> pcnt, data |-> 0]
  /\ pst' = IF ~LastByte THEN "CLR" ELSE IF pram_ena THEN "SV_WR" ELSE "RST"
  /\ pcnt' = IF LastByte THEN pcnt ELSE pcnt + 1
  /\ UNCHANGED <<pram_rd, pram_wr_req, pram_rst_after, restart_after_load, ld_wd,
                 ld_try>>

\* Its zeroing of pram_buf is in Buffer.
Clear ==
  /\ pst = "CLR"
  /\ pram_load' = [kind |-> "load", addr |-> pcnt, data |-> 0]
  /\ pst' = IF ~LastByte THEN "CLR" ELSE IF pram_ena THEN "SV_WR" ELSE "RST"
  /\ pcnt' = IF LastByte THEN pcnt ELSE pcnt + 1
  /\ pram_rst_after' = (pram_rst_after \/ (LastByte /\ pram_ena))
  /\ UNCHANGED <<pram_rd, pram_wr_req, restart_after_load, ld_wd, ld_try>>

StartReset ==
  /\ pst = "RST"
  /\ pst' = "IDLE"
  /\ pram_load' = None
  /\ UNCHANGED <<pcnt, pram_rd, pram_wr_req, pram_rst_after,
                 restart_after_load, ld_wd, ld_try>>

Fsm == \/ Idle \/ LoadRequest \/ LoadKick \/ LoadData \/ LoadCopy
       \/ Fill \/ SaveRequest \/ SaveData \/ Clear \/ StartReset

-----------------------------------------------------------------------------
(* The registers around it.  The state machine's assignments come last in   *)
(* the block and win over the event latches.                                *)

\* Fault: a firmware store does not mark the PRAM.
DirtyMissed(ev) == pram_dirty' = (~LoadDone /\ ~SaveDone /\ pram_dirty)

Dirty(ev) ==
  pram_dirty' = (~LoadDone /\ ~SaveDone /\ (pram_wr_stb(ev) \/ pram_dirty))

\* Fault: the flush request is not consumed.
LatchesFlushKept(ev) ==
  /\ load_pending'  = (~TakeLoad /\ (ev.kind = "mount" \/ load_pending))
  /\ flush_pending' = ((ev.kind = "osd" /\ pram_dirty /\ pram_ena) \/ flush_pending)
  /\ clr_pending'   = (~TakeClr /\ (ev.kind = "clear" \/ clr_pending))
  /\ pram_ena' = (LoadDone \/ (IF ev.kind \in {"mount", "unmount"}
                               THEN ev.kind = "mount" ELSE pram_ena))
  /\ synced' = (ev.kind # "mount" /\ ~TakeLoad /\ (LoadDone \/ SaveDone \/ synced))
  /\ old_pack' = pram_ack

Latches(ev) ==
  /\ load_pending'  = (~TakeLoad /\ (ev.kind = "mount" \/ load_pending))
  /\ flush_pending' = (~TakeFlush /\ (\/ ev.kind = "osd" /\ pram_dirty /\ pram_ena
                                      \/ flush_pending))
  /\ clr_pending'   = (~TakeClr /\ (ev.kind = "clear" \/ clr_pending))
  /\ pram_ena' = (LoadDone \/ (IF ev.kind \in {"mount", "unmount"}
                               THEN ev.kind = "mount" ELSE pram_ena))
  /\ synced' = (ev.kind # "mount" /\ ~TakeLoad /\ (LoadDone \/ SaveDone \/ synced))
  /\ old_pack' = pram_ack

\* Fault: no backstop.
ReadyGateNoBackstop(ev) ==
  /\ pram_ready' = (pram_ready \/ LoadDone \/ GiveUp \/ ev.kind = "unmount")
  /\ UNCHANGED rdy_cnt

\* The boot is released by a load, by a report of no image, by an abandoned
\* load, or by the backstop, which a running copy pauses.
ReadyGate(ev) ==
  LET counts == ~pram_ready /\ pst # "LD_CPY"
  IN /\ pram_ready' = (\/ pram_ready \/ LoadDone \/ GiveUp
                       \/ ev.kind = "unmount"
                       \/ counts /\ rdy_cnt >= RDY_MAX)
     /\ rdy_cnt' = IF counts /\ rdy_cnt < RDY_MAX THEN rdy_cnt + 1 ELSE rdy_cnt

\* The reset pulse, and the system reset it drives (released some time after).
ResetPulse ==
  /\ force_reset' = (pst = "RST" \/ (force_reset /\ rst_hold # 0))
  /\ rst_hold' = IF pst = "RST" THEN RST_HOLD
                 ELSE IF force_reset /\ rst_hold # 0 THEN rst_hold - 1
                 ELSE rst_hold
  /\ IF force_reset THEN n_reset' = FALSE ELSE n_reset' \in {n_reset, TRUE}

\* The Egret: pram[] (a load wins over the mirror), the boot-copy, and the
\* firmware, which is frozen during the copy.  copy_idx = SIZE stands for the
\* four cycles that seed the clock.
Egret(ev) ==
  /\ pram' = IF pram_load # None
             THEN [pram EXCEPT ![pram_load.addr] = pram_load.data]
             ELSE IF pram_wr_stb(ev) THEN [pram EXCEPT ![ev.addr] = ev.data]
             ELSE pram
  /\ IF ~n_reset
     THEN /\ pram_loaded' = FALSE /\ copy_busy' = FALSE /\ reset_latched' = TRUE
          /\ UNCHANGED <<copy_idx, intram>>
     ELSE /\ reset_latched' \in IF pram_loaded THEN {reset_latched}
                                ELSE {reset_latched, FALSE}
          /\ \/ /\ ~pram_loaded /\ ~copy_busy /\ ~reset_latched /\ pram_ready
                /\ copy_busy' = TRUE /\ copy_idx' = 0
                /\ UNCHANGED <<pram_loaded, intram>>
             \/ /\ copy_busy
                /\ intram' = IF copy_idx = SIZE THEN intram
                             ELSE [intram EXCEPT ![copy_idx] = pram[copy_idx]]
                /\ copy_busy' = (copy_idx # SIZE)
                /\ pram_loaded' = (copy_idx = SIZE)
                /\ copy_idx' = IF copy_idx = SIZE THEN copy_idx ELSE copy_idx + 1
             \/ /\ ~copy_busy
                /\ pram_loaded \/ reset_latched \/ ~pram_ready
                /\ intram' = IF Stored(ev)
                             THEN [intram EXCEPT ![ev.addr] = ev.data]
                             ELSE intram
                /\ UNCHANGED <<pram_loaded, copy_busy, copy_idx>>

\* pram_buf as the state machine leaves it on this edge, given what the HPS
\* streams into it.
Buffer(base) ==
  pram_buf' = CASE pst = "FILL" /\ pcnt # 0 ->
                     [base EXCEPT ![pcnt - 1] = pram[pcnt - 1]]
                [] pst = "CLR" -> [base EXCEPT ![pcnt] = 0]
                [] OTHER -> base

\* The HPS polls the request lines, picks one up, raises ack, streams the
\* sector, and drops ack.  It does not look at the request again.
InTime == LateAnswers \/ ld_try < TRIES \/ ld_wd + 2 <= WD_MAX
HpsRest  == /\ LateAnswers \/ hps = "idle"
            /\ UNCHANGED <<hps, img>> /\ Buffer(pram_buf)
HpsTake  == /\ hps = "idle"
            /\ \/ pram_rd /\ InTime /\ hps' = "rd_busy"
               \/ pram_wr_req /\ hps' = "wr_busy"
            /\ UNCHANGED img /\ Buffer(pram_buf)
HpsRise  == /\ hps \in {"rd_busy", "wr_busy"}
            /\ hps' = IF hps = "rd_busy" THEN "rd_ack" ELSE "wr_ack"
            /\ UNCHANGED img /\ Buffer(pram_buf)
HpsRead  == /\ hps = "rd_ack" /\ hps' = "rd_end"
            /\ UNCHANGED img /\ Buffer(img)
HpsWrite == /\ hps = "wr_ack" /\ hps' = "wr_end"
            /\ img' = pram_buf /\ Buffer(pram_buf)
HpsFall  == /\ hps \in {"rd_end", "wr_end"} /\ hps' = "idle"
            /\ UNCHANGED img /\ Buffer(pram_buf)
HpsMove  == HpsTake \/ HpsRise \/ HpsRead \/ HpsWrite \/ HpsFall

\* One clock edge with the outside event ev.
Edge(ev) ==
  /\ Fsm
  /\ Dirty(ev) /\ Latches(ev) /\ ReadyGate(ev)
  /\ ResetPulse
  /\ Egret(ev)
  /\ IF ev.kind = "mount"
     THEN img' = ev.image /\ UNCHANGED hps /\ Buffer(pram_buf)
     ELSE HpsRest \/ HpsMove

-----------------------------------------------------------------------------
(* Outside events *)

Event(ev) == events < MaxEvents /\ events' = events + 1 /\ Edge(ev)

Tick == Edge([kind |-> "tick"]) /\ UNCHANGED events

\* The HPS mounts another image, between two requests, or removes it.
Mount(i)     == hps = "idle" /\ Event([kind |-> "mount", image |-> i])
Unmount      == Event([kind |-> "unmount"])
OsdOpen      == Event([kind |-> "osd"])
ResetPram    == Event([kind |-> "clear"])

\* The firmware stores a byte of the PRAM region in its working RAM.
Store(c, v) ==
  /\ n_reset /\ ~copy_busy
  /\ WritesDuringSave \/ (pst \notin Saving /\ ~flush_pending /\ ~clr_pending)
  /\ Event([kind |-> "store", addr |-> c, data |-> v])

Init ==
  /\ pst = "IDLE" /\ pcnt = 0 /\ pram_rd = FALSE /\ pram_wr_req = FALSE
  /\ old_pack = FALSE /\ pram_buf = Zero /\ pram_load = None
  /\ pram_ena = FALSE /\ pram_dirty = FALSE /\ pram_rst_after = FALSE
  /\ load_pending = FALSE /\ flush_pending = FALSE /\ clr_pending = FALSE
  /\ pram_ready = FALSE /\ rdy_cnt = 0 /\ restart_after_load = FALSE
  /\ ld_wd = 0 /\ ld_try = 0
  /\ force_reset = FALSE /\ rst_hold = 0 /\ n_reset = FALSE
  /\ pram = Zero /\ intram = Zero /\ pram_loaded = FALSE
  /\ copy_busy = FALSE /\ copy_idx = 0 /\ reset_latched = TRUE
  /\ hps = "idle" /\ img = Zero /\ synced = FALSE
  /\ events = 0

Next ==
  \/ Tick
  \/ \E i \in Pram : Mount(i)
  \/ Unmount
  \/ OsdOpen
  \/ ResetPram
  \/ \E c \in Cells, v \in Values : Store(c, v)

Spec == Init /\ [][Next]_vars

(***************************************************************************)
(* Fairness.  The clock runs.  FairSpec adds an HPS that serves its        *)
(* requests; ClockSpec leaves it free never to.                            *)
(***************************************************************************)
ClockSpec == Spec /\ WF_vars(Tick)
FairSpec  == ClockSpec /\ WF_vars(Tick /\ hps' # hps)

-----------------------------------------------------------------------------
(* Properties *)

\* Every register has a value of its type.
TypeOK ==
  /\ pst \in {"IDLE", "LD_RD", "LD_KICK", "LD_DAT", "LD_CPY", "FILL", "SV_WR",
              "SV_DAT", "CLR", "RST"}
  /\ pcnt \in 0 .. SIZE
  /\ {pram_rd, pram_wr_req, old_pack, pram_ena, pram_dirty, pram_rst_after,
      load_pending, flush_pending, clr_pending, pram_ready, synced,
      restart_after_load, force_reset, n_reset, pram_loaded, copy_busy,
      reset_latched} \subseteq BOOLEAN
  /\ rdy_cnt \in 0 .. RDY_MAX /\ ld_wd \in 0 .. WD_MAX /\ ld_try \in 0 .. TRIES
  /\ rst_hold \in 0 .. RST_HOLD /\ copy_idx \in 0 .. SIZE
  /\ {pram, intram, pram_buf, img} \subseteq Pram
  /\ pram_load = None \/ (pram_load.addr \in Cells /\ pram_load.data \in Values)
  /\ hps \in {"idle", "rd_busy", "rd_ack", "rd_end", "wr_busy", "wr_ack",
              "wr_end"}

\* The machine is about to be restarted, or is being restarted.
Restarting ==
  \/ pst = "LD_CPY" /\ restart_after_load
  \/ pst \in {"CLR", "RST"} \/ pram_rst_after
  \/ force_reset \/ ~n_reset

\* A running Mac works on the PRAM that a save would write: the working RAM
\* agrees with pram[], however loads, clears and firmware stores interleave.
WorkingCopy == pram_loaded /\ ~Restarting => intram = pram

\* An image the state machine believes clean holds the PRAM.
CleanIsSaved ==
  (synced /\ pst = "IDLE" /\ pram_ena /\ ~pram_dirty /\ ~load_pending
     /\ pram_load = None /\ ~Restarting)
  => img = pram

\* A save writes the PRAM as it is, never a half-filled or stale buffer.
SaveWritesPram ==
  [][hps = "wr_ack" /\ hps' = "wr_end" =>
       \A c \in Cells : img'[c] = IF pram_load # None /\ pram_load.addr = c
                                  THEN pram_load.data ELSE pram[c]]_vars

\* The boot is released whatever the HPS does.
BootReleased == <>pram_ready

\* A requested save reaches the image, and the machine goes on.
FlushServed == flush_pending ~> (pst = "IDLE" /\ ~flush_pending)

\* "Reset PRAM & Core" ends in a reset of the machine, with a zero PRAM if
\* the firmware stored nothing meanwhile.
ClearResets == clr_pending ~> (force_reset /\ (WritesDuringSave \/ pram = Zero))
=============================================================================

----------------------------- MODULE ScsiDpram -----------------------------
(***************************************************************************)
(* One lane of a SCSI target's sector buffer (scsi_dpram in rtl/scsi.v): a *)
(* dual-port RAM whose Mac side also serves the bytes one and two places   *)
(* ahead.  The look-ahead bytes are read through idle cycles of port B     *)
(* into holding registers q_c, q_d; writes on either port are snooped.     *)
(*                                                                         *)
(* A step is one clock edge.  As the target drives the ports: in a READ    *)
(* the HPS fills the ring sector by sector through port A while the Mac    *)
(* moves over delivered words; in a WRITE the Mac stores at its address;   *)
(* and the Mac's strobes are at least GAP clocks apart.                    *)
(***************************************************************************)
EXTENDS Integers

CONSTANTS
  SECTOR,      \* words of one sector (256)
  SECTORS,     \* sectors in the RAM
  Values,      \* values of a byte
  GAP,         \* clocks between two strobes of the Mac
  SETTLE       \* clocks after which the three outputs must be right

ASSUME DpramAssumption ==
  /\ SECTOR \in Nat /\ SECTOR >= 1 /\ SECTORS \in Nat
  /\ SECTOR * SECTORS >= 3
  /\ Values # {}
  /\ GAP \in Nat /\ SETTLE \in Nat

VARIABLES
  ram, address_b,
  q_b, q_c, q_d,          \* outputs: at address_b, one ahead, two ahead
  pf_st,
  pf_c_addr, pf_d_addr,   \* the addresses q_c and q_d hold
  pf_c_tgt, pf_d_tgt,     \* the addresses in flight
  pf_valid, pf_snooped,
  mode,                   \* "READ", "WRITE", or "TURN" between commands
  filling,                \* the HPS is streaming a sector
  ahead,                  \* delivered sectors the Mac has not left yet
  since                   \* clocks since the Mac's last strobe, or since a
                          \* sector it waited for came, up to SETTLE

pfVars == <<pf_st, pf_c_addr, pf_d_addr, pf_c_tgt, pf_d_tgt, pf_valid,
            pf_snooped>>
envVars == <<mode, filling, ahead, since>>
vars   == <<ram, address_b, q_b, q_c, q_d, pfVars, envVars>>

ADDRS    == SECTOR * SECTORS
Addr     == 0 .. ADDRS - 1
NoWrite  == [on |-> FALSE]
Writes   == {NoWrite} \cup [on : {TRUE}, addr : Addr, data : Values]
At(w, a) == w.on /\ w.addr = a

address_c == (address_b + 1) % ADDRS
address_d == (address_b + 2) % ADDRS

-----------------------------------------------------------------------------
(* Wires.  a is port A's write, b is port B's (always at address_b). *)

pf_stale == \/ ~pf_valid \/ pf_snooped
            \/ address_c # pf_c_addr \/ address_d # pf_d_addr

pf_steal_c(b) == pf_st = "IDLE" /\ pf_stale /\ ~b.on
pf_steal_d(b) == pf_st = "RDC" /\ ~b.on

InFlight(w) == pf_st # "IDLE" /\ (At(w, pf_c_tgt) \/ At(w, pf_d_tgt))
Held(w)     == At(w, pf_c_addr) \/ At(w, pf_d_addr)

\* A write the prefetch must notice, the one that collides with the launch of
\* the address_c read included.
pf_snoop_hit(a, b) ==
  \/ Held(a) \/ InFlight(a) \/ (pf_steal_c(b) /\ At(a, address_c))
  \/ Held(b) \/ InFlight(b)

address_b_eff(b) == IF pf_steal_c(b) THEN address_c
                    ELSE IF pf_steal_d(b) THEN pf_d_tgt
                    ELSE address_b

-----------------------------------------------------------------------------
(* Registers *)

Ram(a, b) ==
  ram' = [x \in Addr |-> IF At(b, x) THEN b.data
                         ELSE IF At(a, x) THEN a.data ELSE ram[x]]

\* Port B.  The RAM is built without read-during-write checking: a read of a
\* word port A is writing returns the old or the new value.
PortB(a, b) ==
  LET x == address_b_eff(b)
  IN q_b' \in IF b.on THEN {b.data}
              ELSE IF At(a, x) THEN {ram[x], a.data} ELSE {ram[x]}

PfIdle(a, b) ==
  /\ pf_st = "IDLE"
  /\ pf_snooped' = (pf_snoop_hit(a, b) \/ pf_snooped)
  /\ IF pf_steal_c(b)
     THEN pf_c_tgt' = address_c /\ pf_d_tgt' = address_d /\ pf_st' = "RDC"
     ELSE UNCHANGED <<pf_c_tgt, pf_d_tgt, pf_st>>
  /\ UNCHANGED <<q_c, q_d, pf_c_addr, pf_d_addr, pf_valid>>

\* A write on port B takes the cycle of the second read: give up and retry.
PfReadC(a, b) ==
  /\ pf_st = "RDC"
  /\ pf_snooped' = (pf_snoop_hit(a, b) \/ pf_snooped)
  /\ q_c' = q_b
  /\ pf_st' = IF pf_steal_d(b) THEN "RDD" ELSE "IDLE"
  /\ UNCHANGED <<q_d, pf_c_addr, pf_d_addr, pf_c_tgt, pf_d_tgt, pf_valid>>

\* Fault: a pair spoilt by a write is dropped, but the old one stays valid.
PfReadDKeep(a, b) ==
  /\ pf_st = "RDD"
  /\ q_d' = q_b
  /\ IF ~pf_snooped /\ ~pf_snoop_hit(a, b)
     THEN pf_c_addr' = pf_c_tgt /\ pf_d_addr' = pf_d_tgt /\ pf_valid' = TRUE
     ELSE UNCHANGED <<pf_c_addr, pf_d_addr, pf_valid>>
  /\ pf_snooped' = FALSE
  /\ pf_st' = "IDLE"
  /\ UNCHANGED <<q_c, pf_c_tgt, pf_d_tgt>>

\* Publish the pair, or invalidate when a write was seen on the way.
PfReadD(a, b) ==
  /\ pf_st = "RDD"
  /\ q_d' = q_b
  /\ IF ~pf_snooped /\ ~pf_snoop_hit(a, b)
     THEN pf_c_addr' = pf_c_tgt /\ pf_d_addr' = pf_d_tgt /\ pf_valid' = TRUE
     ELSE pf_valid' = FALSE /\ UNCHANGED <<pf_c_addr, pf_d_addr>>
  /\ pf_snooped' = FALSE
  /\ pf_st' = "IDLE"
  /\ UNCHANGED <<q_c, pf_c_tgt, pf_d_tgt>>

\* One clock edge: writes a and b, the address becomes x; newly tells that
\* words the Mac waits for changed.
Clock(a, b, x, newly) ==
  /\ Ram(a, b) /\ PortB(a, b)
  /\ PfIdle(a, b) \/ PfReadC(a, b) \/ PfReadD(a, b)
  /\ address_b' = x
  /\ since' = IF newly \/ b.on \/ x # address_b THEN 0
              ELSE IF since < SETTLE THEN since + 1 ELSE SETTLE

-----------------------------------------------------------------------------
(* Port operations *)

\* The slot being filled follows the delivered ones.
SectorOf(x)  == x \div SECTOR
FillSlot     == (SectorOf(address_b) + ahead) % SECTORS

\* How many sectors one access touches, and whether all are delivered.
Touched      == IF SectorOf(address_d) = SectorOf(address_b) THEN 1 ELSE 2
Offered      == mode = "WRITE" \/ (mode = "READ" /\ ahead >= Touched)

Rest == Clock(NoWrite, NoWrite, address_b, FALSE)
        /\ UNCHANGED <<mode, filling, ahead>>

\* Fault: a sector is started with the ring already full.
FillBeginFull ==
  /\ mode = "READ" /\ ~filling /\ ahead <= SECTORS
  /\ Clock(NoWrite, NoWrite, address_b, FALSE)
  /\ filling' = TRUE
  /\ UNCHANGED <<mode, ahead>>

\* The HPS starts a sector, streams its words, and ends it.
FillBegin ==
  /\ mode = "READ" /\ ~filling /\ ahead < SECTORS
  /\ Clock(NoWrite, NoWrite, address_b, FALSE)
  /\ filling' = TRUE
  /\ UNCHANGED <<mode, ahead>>
HpsWrite(a) ==
  /\ filling /\ a.on /\ SectorOf(a.addr) = FillSlot
  /\ Clock(a, NoWrite, address_b, FALSE)
  /\ UNCHANGED <<mode, filling, ahead>>
FillEnd ==
  /\ filling
  /\ Clock(NoWrite, NoWrite, address_b, ~Offered)
  /\ filling' = FALSE /\ ahead' = ahead + 1
  /\ UNCHANGED mode

\* The Mac has taken a word: data_cnt moves on, whatever the HPS does.
MacNext(a) ==
  /\ mode = "READ" /\ Offered /\ since >= GAP
  /\ a.on => filling /\ SectorOf(a.addr) = FillSlot
  /\ Clock(a, NoWrite, address_c, FALSE)
  /\ ahead' = IF SectorOf(address_c) = SectorOf(address_b) THEN ahead
              ELSE ahead - 1
  /\ UNCHANGED <<mode, filling>>

\* The Mac stores a byte; in the odd lane data_cnt moves on the same edge.
MacStore(b, x) ==
  /\ mode = "WRITE" /\ since >= GAP
  /\ b.on /\ b.addr = address_b /\ x \in {address_b, address_c}
  /\ Clock(NoWrite, b, x, FALSE)
  /\ UNCHANGED <<mode, filling, ahead>>

\* The command ends and data_cnt returns to zero; then the next one starts.
Rewind ==
  /\ mode # "TURN" /\ ~filling /\ since >= GAP
  /\ Clock(NoWrite, NoWrite, 0, TRUE)
  /\ mode' = "TURN" /\ ahead' = 0
  /\ UNCHANGED filling
Begin(md) ==
  /\ mode = "TURN" /\ since >= GAP
  /\ Clock(NoWrite, NoWrite, address_b, FALSE)
  /\ mode' = md
  /\ UNCHANGED <<filling, ahead>>

InitRegisters ==
  /\ ram \in [Addr -> Values] /\ address_b = 0
  /\ q_b \in Values /\ q_c \in Values /\ q_d \in Values
  /\ pf_st = "IDLE" /\ pf_valid = FALSE /\ pf_snooped = FALSE
  /\ pf_c_addr = ADDRS - 1 /\ pf_d_addr = ADDRS - 1
  /\ pf_c_tgt \in Addr /\ pf_d_tgt \in Addr
  /\ filling = FALSE /\ ahead = 0 /\ since = 0

Init == InitRegisters /\ mode = "TURN"

Next ==
  \/ Rest
  \/ FillBegin
  \/ FillEnd
  \/ \E a \in Writes : HpsWrite(a)
  \/ \E a \in Writes : MacNext(a)
  \/ \E b \in Writes, x \in Addr : MacStore(b, x)
  \/ Rewind
  \/ \E md \in {"READ", "WRITE"} : Begin(md)

Spec == Init /\ [][Next]_vars

-----------------------------------------------------------------------------
(* Properties *)

\* Every register has a value of its type.
TypeOK ==
  /\ ram \in [Addr -> Values] /\ address_b \in Addr
  /\ q_b \in Values /\ q_c \in Values /\ q_d \in Values
  /\ pf_st \in {"IDLE", "RDC", "RDD"}
  /\ pf_c_addr \in Addr /\ pf_d_addr \in Addr
  /\ pf_c_tgt \in Addr /\ pf_d_tgt \in Addr
  /\ pf_valid \in BOOLEAN /\ pf_snooped \in BOOLEAN
  /\ mode \in {"TURN", "READ", "WRITE"}
  /\ filling \in BOOLEAN /\ ahead \in 0 .. SECTORS
  /\ since \in 0 .. SETTLE

\* SETTLE clocks after the Mac's last strobe, the three outputs are the RAM's
\* bytes at the Mac's address and the next two, whatever the HPS is writing
\* elsewhere: what DREQ, held down that long, promises the host.
Settled ==
  (Offered /\ since = SETTLE) =>
    q_b = ram[address_b] /\ q_c = ram[address_c] /\ q_d = ram[address_d]
=============================================================================

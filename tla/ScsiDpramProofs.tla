-------------------------- MODULE ScsiDpramProofs --------------------------
(***************************************************************************)
(* Proof that the sector buffer's three outputs settle (ScsiDpram), for    *)
(* every sector size, number of sectors and byte values.                   *)
(*                                                                         *)
(* The prefetch owes a number of clocks (Due) that depends on where it is; *)
(* every clock without a write in its way pays one.  The bulk of the proof *)
(* is that no write is in its way once the Mac may read: the addresses it  *)
(* holds and fetches lie in the sectors the Mac is given.                  *)
(***************************************************************************)
EXTENDS ScsiDpram, TLAPS

\* A sector has two words, the Mac leaves four clocks between two strobes, and
\* DREQ stays down for seven.
Paced == SECTOR >= 2 /\ GAP >= 4 /\ SETTLE >= 7

-----------------------------------------------------------------------------
(* The inductive invariant *)

\* What each part of a command leaves of the ring.
Modes ==
  /\ mode # "READ" => ahead = 0 /\ ~filling
  /\ filling => ahead < SECTORS
  /\ mode = "READ" /\ ahead = 0 /\ ~filling => since >= 5

\* What the holding registers and the read in flight hold, unless a write to
\* their addresses was noticed.
Data ==
  ~pf_snooped =>
    /\ pf_st = "IDLE" /\ pf_valid => q_c = ram[pf_c_addr] /\ q_d = ram[pf_d_addr]
    /\ pf_st = "RDC" => q_b = ram[pf_c_tgt]
    /\ pf_st = "RDD" => q_c = ram[pf_c_tgt] /\ q_b = ram[pf_d_tgt]

\* The pair in flight is the one the Mac's address asks for.
Own == pf_c_tgt = address_c /\ pf_d_tgt = address_d

\* Clocks until the outputs are right, if no write comes in the way.
Due ==
  CASE pf_st = "IDLE" -> IF pf_stale THEN (IF pf_snooped THEN 7 ELSE 4)
                         ELSE IF q_b = ram[address_b] THEN 0 ELSE 1
    [] pf_st = "RDC"  -> IF Own /\ ~pf_snooped THEN 3 ELSE 6
    [] pf_st = "RDD"  -> IF Own /\ ~pf_snooped THEN 2 ELSE 5

\* No write on port A can be in the way.
Calm == mode # "READ" \/ Offered \/ (ahead = 0 /\ ~filling)

OnTime ==
  /\ Calm => Due = 0 \/ Due + since <= 7
  /\ mode = "WRITE" => Due = 0 \/ Due + since <= 4 \/ since >= 5

\* The sectors an access touches.
Home(x) == SectorOf(x) \in {SectorOf(address_b), SectorOf(address_d)}

Filled(x) == filling /\ SectorOf(x) = FillSlot

\* The Mac has just left a sector and the pair held is about to be replaced.
Leaving ==
  /\ since = 0 /\ pf_st = "RDD" /\ ~pf_snooped
  /\ \A x \in {pf_c_addr, pf_d_addr, pf_c_tgt, pf_d_tgt} : ~Filled(x)

\* The prefetch stays in the sectors the Mac is given.
Near ==
  mode = "READ" /\ (filling \/ ahead > 0) =>
    /\ Leaving \/ (Home(pf_c_addr) /\ Home(pf_d_addr))
    /\ pf_st # "IDLE" => Home(pf_c_tgt) /\ Home(pf_d_tgt)

DpramInv == Modes /\ Data /\ OnTime /\ Near

-----------------------------------------------------------------------------
(* Addresses and sectors *)

Step(x) == (x + 1) % ADDRS

LEMMA Bounds ==
  /\ SECTOR \in Nat /\ SECTOR >= 1 /\ SECTORS \in Nat /\ SECTORS >= 1
  /\ ADDRS \in Nat /\ ADDRS >= 3 /\ ADDRS = SECTOR * SECTORS
<1>1. SECTOR \in Nat /\ SECTOR >= 1 /\ SECTORS \in Nat /\ SECTOR * SECTORS >= 3
  BY DpramAssumption
<1>2. SECTOR * SECTORS \in Nat
  BY <1>1
<1>3. SECTORS # 0
  BY <1>1
<1> QED BY <1>1, <1>2, <1>3 DEF ADDRS

LEMMA DivMod ==
  ASSUME NEW a \in Nat, NEW r \in Nat, r > 0
  PROVE  /\ a = r * (a \div r) + (a % r)
         /\ a \div r \in Nat /\ a % r \in 0 .. r - 1
  OBVIOUS

LEMMA DivModIs ==
  ASSUME NEW r \in Nat, r > 0, NEW k \in Nat, NEW m \in 0 .. r - 1
  PROVE  (r * k + m) \div r = k /\ (r * k + m) % r = m
<1> DEFINE a == r * k + m
           p == a \div r
           n == a % r
<1>0. r * k \in Nat /\ m \in Nat
  OBVIOUS
<1>1. a \in Nat
  BY <1>0
<1>2. a = r * p + n /\ p \in Nat /\ n \in 0 .. r - 1
  BY <1>1, DivMod
<1>3. a = r * k + m
  OBVIOUS
<1> HIDE DEF a, p, n
<1>4. r * (p - k) = m - n
  <2>1. r * (p - k) = r * p - r * k /\ r * p \in Nat
    BY <1>2
  <2> QED BY <1>0, <1>2, <1>3, <2>1
<1>5. CASE p - k >= 1
  <2>1. r * (p - k) >= r
    BY <1>2, <1>5
  <2> QED BY <1>2, <1>4, <2>1
<1>6. CASE p - k <= -1
  <2>1. r * (p - k) <= -r
    BY <1>2, <1>6
  <2> QED BY <1>2, <1>4, <2>1
<1>7. CASE p - k = 0
  BY <1>2, <1>4, <1>7 DEF a, p, n
<1> QED BY <1>2, <1>5, <1>6, <1>7

\* The next address is in the same sector, or the first of the next one.
LEMMA StepSector ==
  ASSUME NEW x \in Addr
  PROVE  /\ SectorOf(x) \in 0 .. SECTORS - 1 /\ x % SECTOR \in 0 .. SECTOR - 1
         /\ Step(x) \in Addr
         /\ x % SECTOR # SECTOR - 1 =>
              SectorOf(Step(x)) = SectorOf(x) /\ Step(x) % SECTOR = (x % SECTOR) + 1
         /\ x % SECTOR = SECTOR - 1 =>
              /\ SectorOf(Step(x)) = (SectorOf(x) + 1) % SECTORS
              /\ Step(x) % SECTOR = 0
<1> DEFINE s == SectorOf(x)
           m == x % SECTOR
<1>1. /\ SECTOR \in Nat /\ SECTOR >= 1 /\ SECTORS \in Nat /\ SECTORS >= 1
      /\ ADDRS \in Nat /\ ADDRS >= 3 /\ ADDRS = SECTOR * SECTORS
  BY Bounds
<1>2. x \in Nat /\ x < ADDRS /\ x + 1 \in Nat
  BY <1>1 DEF Addr
<1>3. x = SECTOR * s + m /\ s \in Nat /\ m \in 0 .. SECTOR - 1
  BY <1>1, <1>2, DivMod DEF SectorOf
<1> HIDE DEF s, m
<1>4. s <= SECTORS - 1
  <2> SUFFICES ASSUME s >= SECTORS PROVE FALSE
    BY <1>1, <1>3
  <2>1. SECTOR * (s - SECTORS) >= 0
    BY <1>1, <1>3
  <2>2. SECTOR * (s - SECTORS) = SECTOR * s - SECTOR * SECTORS /\ SECTOR * s \in Nat
    BY <1>1, <1>3
  <2> QED BY <1>1, <1>2, <1>3, <2>1, <2>2
<1>5. Step(x) \in Addr
  BY <1>1, <1>2 DEF Step, Addr
<1>6. SECTOR * s \in Nat /\ SECTOR * (s + 1) = SECTOR * s + SECTOR
  BY <1>1, <1>3
<1>7. ASSUME m # SECTOR - 1
      PROVE  SectorOf(Step(x)) = s /\ Step(x) % SECTOR = m + 1
  <2>1. x + 1 = SECTOR * s + (m + 1) /\ m + 1 \in 0 .. SECTOR - 1
    BY <1>1, <1>3, <1>6, <1>7
  <2>2. SECTOR * (s + 1) <= ADDRS
    <3>1. SECTOR * (SECTORS - (s + 1)) >= 0
      BY <1>1, <1>3, <1>4
    <3>2. SECTOR * (SECTORS - (s + 1)) = SECTOR * SECTORS - SECTOR * (s + 1)
      BY <1>1, <1>3
    <3> QED BY <1>1, <1>6, <3>1, <3>2
  <2>3. x + 1 < ADDRS
    BY <1>1, <1>6, <2>1, <2>2
  <2>4. Step(x) = x + 1
    BY <1>1, <1>2, <2>3 DEF Step
  <2>5. (SECTOR * s + (m + 1)) \div SECTOR = s /\ (SECTOR * s + (m + 1)) % SECTOR = m + 1
    BY <1>1, <1>3, <2>1, DivModIs
  <2> QED BY <2>1, <2>4, <2>5 DEF SectorOf
<1>8. ASSUME m = SECTOR - 1
      PROVE  SectorOf(Step(x)) = (s + 1) % SECTORS /\ Step(x) % SECTOR = 0
  <2>1. x + 1 = SECTOR * (s + 1)
    BY <1>1, <1>3, <1>6, <1>8
  <2>2. CASE s = SECTORS - 1
    <3>1. s + 1 = SECTORS
      BY <1>1, <1>3, <2>2
    <3>2. x + 1 = ADDRS
      BY <1>1, <2>1, <3>1
    <3>3. Step(x) = 0
      BY <1>1, <3>2 DEF Step
    <3>4. SECTORS % SECTORS = 0 /\ 0 \div SECTOR = 0 /\ 0 % SECTOR = 0
      BY <1>1
    <3> QED BY <3>1, <3>3, <3>4 DEF SectorOf
  <2>3. CASE s # SECTORS - 1
    <3>1. s + 1 < SECTORS /\ s + 1 \in Nat
      BY <1>1, <1>3, <1>4, <2>3
    <3>2. SECTOR * (s + 1) < ADDRS
      <4>1. SECTOR * (SECTORS - (s + 1)) > 0
        BY <1>1, <3>1
      <4>2. SECTOR * (SECTORS - (s + 1)) = SECTOR * SECTORS - SECTOR * (s + 1)
        BY <1>1, <3>1
      <4> QED BY <1>1, <1>6, <4>1, <4>2
    <3>3. Step(x) = x + 1
      BY <1>1, <1>2, <2>1, <3>2 DEF Step
    <3>4. (SECTOR * (s + 1) + 0) \div SECTOR = s + 1 /\ (SECTOR * (s + 1) + 0) % SECTOR = 0
      BY <1>1, <3>1, DivModIs
    <3>5. SECTOR * (s + 1) + 0 = SECTOR * (s + 1)
      BY <1>1, <1>6
    <3>6. (s + 1) % SECTORS = s + 1
      BY <1>1, <3>1
    <3> QED BY <2>1, <3>3, <3>4, <3>5, <3>6 DEF SectorOf
  <2> QED BY <2>2, <2>3
<1> QED BY <1>1, <1>3, <1>4, <1>5, <1>7, <1>8 DEF s, m

\* The three addresses the Mac is served from are distinct.
LEMMA Distinct ==
  ASSUME NEW b \in Addr
  PROVE  /\ Step(b) \in Addr /\ Step(Step(b)) \in Addr /\ (b + 2) % ADDRS = Step(Step(b))
         /\ b # Step(b) /\ b # Step(Step(b)) /\ Step(b) # Step(Step(b))
<1>1. ADDRS \in Nat /\ ADDRS >= 3 /\ b \in Nat /\ b < ADDRS
  BY Bounds DEF Addr
<1>2. CASE b + 2 < ADDRS
  BY <1>1, <1>2 DEF Step, Addr
<1>3. CASE b + 2 = ADDRS
  <2>1. Step(b) = b + 1 /\ (b + 1) + 1 = ADDRS /\ ADDRS % ADDRS = 0
    BY <1>1, <1>3 DEF Step
  <2> QED BY <1>1, <1>3, <2>1 DEF Step, Addr
<1>4. CASE b + 1 = ADDRS
  <2>1. Step(b) = 0 /\ (ADDRS + 1) % ADDRS = 1 /\ b + 2 = ADDRS + 1 /\ 1 % ADDRS = 1
    <3>1. (ADDRS * 1 + 1) % ADDRS = 1
      BY <1>1, DivModIs
    <3> QED BY <1>1, <1>4, <3>1 DEF Step
  <2> QED BY <1>1, <1>4, <2>1 DEF Step, Addr
<1> QED BY <1>1, <1>2, <1>3, <1>4

-----------------------------------------------------------------------------
(* The sectors the Mac is given and the one being filled *)

\* Where the bytes ahead lie, and where they lie after a step of the Mac.
LEMMA Sectors ==
  ASSUME Paced, NEW b \in Addr
  PROVE  LET c == Step(b)  d == Step(c)  e == Step(d)
             s == SectorOf(b)  t == (SectorOf(b) + 1) % SECTORS
         IN /\ s \in 0 .. SECTORS - 1
            /\ SectorOf(c) \in {s, SectorOf(d)} /\ SectorOf(d) \in {s, t}
            /\ SectorOf(c) # s => SectorOf(c) = t /\ SectorOf(d) = t
            /\ SectorOf(c) = s => SectorOf(d) \in {s, SectorOf(e)}
<1> DEFINE c == Step(b)
           d == Step(c)
           e == Step(d)
           s == SectorOf(b)
           t == (SectorOf(b) + 1) % SECTORS
<1>1. c \in Addr /\ d \in Addr /\ s \in 0 .. SECTORS - 1 /\ SECTOR \in Nat /\ SECTOR >= 2
      /\ b % SECTOR \in 0 .. SECTOR - 1
  BY StepSector, Bounds DEF Paced
<1>2. CASE b % SECTOR = SECTOR - 1
  <2>1. SectorOf(c) = t /\ c % SECTOR = 0
    BY <1>2, StepSector
  <2>2. c % SECTOR # SECTOR - 1
    BY <1>1, <2>1
  <2>3. SectorOf(d) = SectorOf(c)
    BY <1>1, <2>2, StepSector
  <2> HIDE DEF c, d, e, s, t
  <2> QED BY <1>1, <2>1, <2>3 DEF c, d, e, s, t
<1>3. CASE b % SECTOR # SECTOR - 1
  <2>1. SectorOf(c) = s /\ c % SECTOR = (b % SECTOR) + 1
    BY <1>3, StepSector
  <2>2. CASE c % SECTOR = SECTOR - 1
    <3>1. SectorOf(d) = (SectorOf(c) + 1) % SECTORS /\ d % SECTOR = 0
      BY <1>1, <2>2, StepSector
    <3>2. d % SECTOR # SECTOR - 1
      BY <1>1, <3>1
    <3>3. SectorOf(e) = SectorOf(d)
      BY <1>1, <3>2, StepSector
    <3>4. SectorOf(d) = t
      BY <2>1, <3>1
    <3> HIDE DEF c, d, e, s, t
    <3> QED BY <1>1, <2>1, <3>3, <3>4 DEF c, d, e, s, t
  <2>3. CASE c % SECTOR # SECTOR - 1
    <3>1. SectorOf(d) = SectorOf(c)
      BY <1>1, <2>3, StepSector
    <3> HIDE DEF c, d, e, s, t
    <3> QED BY <1>1, <2>1, <3>1 DEF c, d, e, s, t
  <2> QED BY <2>2, <2>3
<1> QED BY <1>2, <1>3

\* Two numbers less than r apart never agree modulo r.
LEMMA ModApart ==
  ASSUME NEW a \in Nat, NEW b \in Nat, NEW r \in Nat, r > 0, a < b, b < a + r
  PROVE  a % r # b % r
<1> DEFINE p == a \div r
           q == b \div r
<1>1. /\ a = r * p + (a % r) /\ p \in Nat /\ a % r \in Nat
      /\ b = r * q + (b % r) /\ q \in Nat /\ b % r \in Nat
  BY DivMod
<1>2. SUFFICES ASSUME a % r = b % r PROVE FALSE
  OBVIOUS
<1> HIDE DEF p, q
<1>3. b - a = r * (q - p)
  <2>1. r * q - r * p = r * (q - p)
    BY <1>1
  <2> QED BY <1>1, <1>2, <2>1
<1>4. CASE q - p <= 0
  <2>1. r * (q - p) <= 0
    BY <1>1, <1>4
  <2> QED BY <1>3, <2>1
<1>5. CASE q - p >= 1
  <2>1. r * (q - p) >= r
    BY <1>1, <1>5
  <2> QED BY <1>3, <2>1
<1> QED BY <1>1, <1>4, <1>5

\* Slots of the ring counted from the Mac's.
LEMMA SlotsApart ==
  ASSUME NEW s \in 0 .. SECTORS - 1, NEW i \in Nat, i < SECTORS
  PROVE  /\ i >= 1 => (s + i) % SECTORS # s
         /\ i >= 2 => (s + i) % SECTORS # (s + 1) % SECTORS
         /\ i + 2 <= SECTORS => (s + 1 + i) % SECTORS # s
<1>1. SECTORS \in Nat /\ SECTORS >= 1 /\ s \in Nat /\ s < SECTORS
  BY Bounds
<1>2. s % SECTORS = s
  BY <1>1
<1>3. i >= 1 => (s + i) % SECTORS # s
  <2>1. i >= 1 => s + i \in Nat /\ s < s + i /\ s + i < s + SECTORS
    BY <1>1
  <2> QED BY <1>1, <1>2, <2>1, ModApart
<1>4. i >= 2 => (s + i) % SECTORS # (s + 1) % SECTORS
  <2>1. i >= 2 => s + i \in Nat /\ s + 1 \in Nat /\ s + 1 < s + i /\ s + i < (s + 1) + SECTORS
    BY <1>1
  <2> QED BY <1>1, <2>1, ModApart
<1>5. i + 2 <= SECTORS => (s + 1 + i) % SECTORS # s
  <2>1. i + 2 <= SECTORS => s + 1 + i \in Nat /\ s < s + 1 + i /\ s + 1 + i < s + SECTORS
    BY <1>1
  <2> QED BY <1>1, <1>2, <2>1, ModApart
<1> QED BY <1>3, <1>4, <1>5

\* The Mac's addresses in terms of Step, and their sectors.
LEMMA Here ==
  ASSUME Paced, TypeOK
  PROVE  /\ address_b \in Addr /\ address_c \in Addr /\ address_d \in Addr
         /\ address_c = Step(address_b) /\ address_d = Step(address_c)
         /\ address_b # address_c /\ address_b # address_d /\ address_c # address_d
         /\ Home(address_b) /\ Home(address_c) /\ Home(address_d)
         /\ Touched \in 1 .. 2
<1>1. address_b \in Addr
  BY DEF TypeOK
<1>2. address_c = Step(address_b) /\ address_d = Step(address_c)
  BY <1>1, Distinct DEF address_c, address_d, Step
<1>3. SectorOf(address_c) \in {SectorOf(address_b), SectorOf(address_d)}
  BY <1>1, <1>2, Sectors
<1>4. Home(address_b) /\ Home(address_c) /\ Home(address_d)
  BY <1>3 DEF Home
<1>5. Touched \in 1 .. 2
  BY DEF Touched
<1> QED BY <1>1, <1>2, <1>4, <1>5, Distinct

\* The sector being filled is none the Mac is given.
LEMMA FillAway ==
  ASSUME Paced, TypeOK, Modes, filling, Offered, NEW x, Home(x)
  PROVE  SectorOf(x) # FillSlot
<1> DEFINE s == SectorOf(address_b)
<1>1. ahead \in Nat /\ ahead < SECTORS /\ ahead >= Touched /\ Touched \in 1 .. 2 /\ SECTORS \in Nat
  BY Here, Bounds DEF TypeOK, Modes, Offered
<1>2. s \in 0 .. SECTORS - 1 /\ SectorOf(address_d) \in {s, (s + 1) % SECTORS}
  BY Here, Sectors
<1>3. FillSlot = (s + ahead) % SECTORS
  BY DEF FillSlot
<1>4. FillSlot # s
  BY <1>1, <1>2, <1>3, SlotsApart
<1>5. CASE SectorOf(address_d) = s
  BY <1>4, <1>5 DEF Home
<1>6. CASE SectorOf(address_d) # s
  <2>1. Touched = 2 /\ SectorOf(address_d) = (s + 1) % SECTORS
    BY <1>2, <1>6 DEF Touched
  <2>2. FillSlot # (s + 1) % SECTORS
    BY <1>1, <1>2, <1>3, <2>1, SlotsApart
  <2> QED BY <1>4, <2>1, <2>2 DEF Home
<1> QED BY <1>5, <1>6

-----------------------------------------------------------------------------
(* Types *)

LEMMA WriteForm ==
  ASSUME NEW w \in Writes
  PROVE  w.on \in BOOLEAN /\ (w.on => w.addr \in Addr /\ w.data \in Values)
<1>1. CASE w = NoWrite
  BY <1>1 DEF NoWrite
<1>2. CASE w \in [on : {TRUE}, addr : Addr, data : Values]
  BY <1>2
<1> QED BY <1>1, <1>2 DEF Writes

LEMMA NoWriteForm == NoWrite \in Writes /\ ~NoWrite.on
  BY DEF NoWrite, Writes

\* What one clock edge does to the types of the registers.
LEMMA ClockTypes ==
  ASSUME TypeOK, NEW a \in Writes, NEW b \in Writes, NEW x \in Addr, NEW newly,
         Clock(a, b, x, newly), address_c \in Addr, address_d \in Addr
  PROVE  /\ ram' \in [Addr -> Values] /\ address_b' \in Addr
         /\ q_b' \in Values /\ q_c' \in Values /\ q_d' \in Values
         /\ pf_st' \in {"IDLE", "RDC", "RDD"}
         /\ pf_c_addr' \in Addr /\ pf_d_addr' \in Addr
         /\ pf_c_tgt' \in Addr /\ pf_d_tgt' \in Addr
         /\ pf_valid' \in BOOLEAN /\ pf_snooped' \in BOOLEAN
         /\ since' \in 0 .. SETTLE
<1>1. /\ a.on \in BOOLEAN /\ (a.on => a.addr \in Addr /\ a.data \in Values)
      /\ b.on \in BOOLEAN /\ (b.on => b.addr \in Addr /\ b.data \in Values)
  BY WriteForm
<1>2. ram' \in [Addr -> Values] /\ address_b' = x
  BY <1>1 DEF Clock, Ram, At, TypeOK
<1>3. q_b' \in Values
  <2>1. address_b_eff(b) \in Addr
    BY DEF address_b_eff, TypeOK
  <2>2. ram[address_b_eff(b)] \in Values
    BY <2>1 DEF TypeOK
  <2>3. PortB(a, b)
    BY DEF Clock
  <2>4. CASE b.on
    BY <1>1, <2>3, <2>4 DEF PortB
  <2>5. CASE ~b.on
    BY <1>1, <2>2, <2>3, <2>5 DEF PortB, At
  <2> QED BY <2>4, <2>5
<1>4. since' \in 0 .. SETTLE
  <2>1. since \in 0 .. SETTLE /\ SETTLE \in Nat
    BY DpramAssumption DEF TypeOK
  <2>2. since' \in {0, SETTLE} \/ (since' = since + 1 /\ since < SETTLE)
    BY DEF Clock
  <2> QED BY <2>1, <2>2
<1>5. PfIdle(a, b) \/ PfReadC(a, b) \/ PfReadD(a, b)
  BY DEF Clock
<1>6. CASE PfIdle(a, b)
  BY <1>2, <1>3, <1>4, <1>6 DEF PfIdle, TypeOK
<1>7. CASE PfReadC(a, b)
  BY <1>2, <1>3, <1>4, <1>7 DEF PfReadC, TypeOK
<1>8. CASE PfReadD(a, b)
  BY <1>2, <1>3, <1>4, <1>8 DEF PfReadD, TypeOK
<1> QED BY <1>5, <1>6, <1>7, <1>8

\* Types, and the parts of Modes that bound the ring.
Ring ==
  /\ TypeOK
  /\ mode # "READ" => ahead = 0 /\ ~filling
  /\ filling => ahead < SECTORS

LEMMA RingStep ==
  ASSUME Paced, Ring, [Next]_vars
  PROVE  Ring'
<1> USE DEF Ring
<1>0. TypeOK /\ SECTORS \in Nat /\ SECTORS >= 1 /\ ahead \in 0 .. SECTORS
  BY Bounds DEF TypeOK
<1>1. /\ address_b \in Addr /\ address_c \in Addr /\ address_d \in Addr
      /\ Touched \in 1 .. 2 /\ 0 \in Addr
  BY Here, Bounds DEF Addr
<1>2. CASE UNCHANGED vars
  BY <1>0, <1>2 DEF vars, pfVars, envVars, TypeOK
<1>3. CASE Next
  <2> DEFINE Env == /\ mode' \in {"TURN", "READ", "WRITE"}
                    /\ filling' \in BOOLEAN /\ ahead' \in 0 .. SECTORS
                    /\ mode' # "READ" => ahead' = 0 /\ ~filling'
                    /\ filling' => ahead' < SECTORS
  <2>1. SUFFICES ASSUME NEW a \in Writes, NEW b \in Writes, NEW x \in Addr, NEW newly,
                        Clock(a, b, x, newly), Env
                 PROVE  Ring'
    <3> HIDE DEF Env
    <3>1. CASE Rest
      <4>1. Env
        BY <1>0, <3>1 DEF Rest, TypeOK, Env
      <4> QED BY <1>1, <2>1, <3>1, <4>1, NoWriteForm DEF Rest
    <3>2. CASE FillBegin
      <4>1. Env
        BY <1>0, <3>2 DEF FillBegin, TypeOK, Env
      <4> QED BY <1>1, <2>1, <3>2, <4>1, NoWriteForm DEF FillBegin
    <3>3. CASE FillEnd
      <4>1. Env
        <5>1. mode = "READ" /\ ahead < SECTORS
          BY <3>3 DEF FillEnd
        <5>2. ahead' = ahead + 1 /\ ~filling' /\ filling' \in BOOLEAN /\ mode' = mode
          BY <3>3 DEF FillEnd
        <5>3. ahead' \in 0 .. SECTORS
          BY <1>0, <5>1, <5>2
        <5> QED BY <5>1, <5>2, <5>3 DEF Env
      <4> QED BY <1>1, <2>1, <3>3, <4>1, NoWriteForm DEF FillEnd
    <3>4. CASE \E a \in Writes : HpsWrite(a)
      <4>1. Env
        BY <1>0, <3>4 DEF HpsWrite, TypeOK, Env
      <4> QED BY <1>1, <2>1, <3>4, <4>1, NoWriteForm DEF HpsWrite
    <3>5. CASE \E a \in Writes : MacNext(a)
      <4>1. Env
        <5>1. mode = "READ" /\ ahead >= Touched /\ mode' = mode /\ filling' = filling
          BY <3>5 DEF MacNext, Offered
        <5>2. ahead' = ahead \/ ahead' = ahead - 1
          BY <3>5 DEF MacNext
        <5> QED BY <1>0, <1>1, <5>1, <5>2 DEF Env, TypeOK
      <4> QED BY <1>1, <2>1, <3>5, <4>1, NoWriteForm DEF MacNext
    <3>6. CASE \E b \in Writes, x \in Addr : MacStore(b, x)
      <4>1. Env
        BY <1>0, <3>6 DEF MacStore, TypeOK, Env
      <4> QED BY <2>1, <3>6, <4>1, NoWriteForm DEF MacStore
    <3>7. CASE Rewind
      <4>1. Env
        BY <1>0, <3>7 DEF Rewind, TypeOK, Env
      <4> QED BY <1>1, <2>1, <3>7, <4>1, NoWriteForm DEF Rewind
    <3>8. CASE \E md \in {"READ", "WRITE"} : Begin(md)
      <4>1. Env
        BY <1>0, <3>8 DEF Begin, TypeOK, Env
      <4> QED BY <1>1, <2>1, <3>8, <4>1, NoWriteForm DEF Begin
    <3> QED BY <1>3, <3>1, <3>2, <3>3, <3>4, <3>5, <3>6, <3>7, <3>8 DEF Next
  <2>2. /\ ram' \in [Addr -> Values] /\ address_b' \in Addr
        /\ q_b' \in Values /\ q_c' \in Values /\ q_d' \in Values
        /\ pf_st' \in {"IDLE", "RDC", "RDD"}
        /\ pf_c_addr' \in Addr /\ pf_d_addr' \in Addr
        /\ pf_c_tgt' \in Addr /\ pf_d_tgt' \in Addr
        /\ pf_valid' \in BOOLEAN /\ pf_snooped' \in BOOLEAN
        /\ since' \in 0 .. SETTLE
    BY <1>0, <1>1, <2>1, ClockTypes
  <2> QED BY <2>1, <2>2 DEF TypeOK, Env
<1> QED BY <1>2, <1>3

LEMMA RingInit == ASSUME Init PROVE Ring
<1>1. ADDRS \in Nat /\ ADDRS >= 3 /\ SECTORS \in Nat /\ SETTLE \in Nat
  BY Bounds, DpramAssumption
<1>2. 0 \in Addr /\ ADDRS - 1 \in Addr
  BY <1>1 DEF Addr
<1>3. ahead = 0 /\ since = 0 /\ ~filling /\ filling \in BOOLEAN
  BY DEF Init, InitRegisters
<1>4. ahead \in 0 .. SECTORS /\ since \in 0 .. SETTLE
  BY <1>1, <1>3
<1>5. TypeOK
  BY <1>2, <1>3, <1>4 DEF Init, InitRegisters, TypeOK
<1> QED BY <1>3, <1>5 DEF Ring

\* The registers of the sector buffer keep their types; the Mac never leaves
\* a sector that was not delivered and the HPS never fills a full ring, so the
\* count of delivered sectors stays between zero and the ring's size.
THEOREM DpramTypes == ASSUME Paced PROVE Spec => []TypeOK
<1>1. Init => Ring
  BY RingInit
<1>2. Ring /\ [Next]_vars => Ring'
  BY RingStep
<1>3. Ring => TypeOK
  BY DEF Ring
<1> QED BY <1>1, <1>2, <1>3, PTL DEF Spec

-----------------------------------------------------------------------------
(* One clock edge *)

LEMMA RamKept ==
  ASSUME NEW a, NEW b, Ram(a, b), NEW y \in Addr, ~At(a, y), ~At(b, y)
  PROVE  ram'[y] = ram[y]
  BY DEF Ram

\* The snooping keeps the holding registers honest, whatever port A writes:
\* only a store in the middle of a fetch would escape it.
LEMMA DataStep ==
  ASSUME Paced, TypeOK, Data, NEW a \in Writes, NEW b \in Writes, NEW x, NEW newly,
         Clock(a, b, x, newly), b.on => pf_st # "RDC"
  PROVE  Data'
<1>1. /\ address_c \in Addr /\ address_d \in Addr /\ pf_c_addr \in Addr /\ pf_d_addr \in Addr
      /\ pf_c_tgt \in Addr /\ pf_d_tgt \in Addr
  BY Here DEF TypeOK
<1>2. Ram(a, b) /\ PortB(a, b)
  BY DEF Clock
<1>3. ASSUME ~pf_snoop_hit(a, b)
      PROVE  /\ ram'[pf_c_addr] = ram[pf_c_addr] /\ ram'[pf_d_addr] = ram[pf_d_addr]
             /\ pf_st # "IDLE" => /\ ram'[pf_c_tgt] = ram[pf_c_tgt]
                                  /\ ram'[pf_d_tgt] = ram[pf_d_tgt]
  <2>1. /\ ~At(a, pf_c_addr) /\ ~At(a, pf_d_addr) /\ ~At(b, pf_c_addr) /\ ~At(b, pf_d_addr)
    BY <1>3 DEF pf_snoop_hit, Held
  <2>2. pf_st # "IDLE" => /\ ~At(a, pf_c_tgt) /\ ~At(a, pf_d_tgt)
                          /\ ~At(b, pf_c_tgt) /\ ~At(b, pf_d_tgt)
    BY <1>3 DEF pf_snoop_hit, InFlight
  <2> QED BY <1>1, <1>2, <2>1, <2>2, RamKept
<1>4. SUFFICES ASSUME ~pf_snooped'
               PROVE  /\ pf_st' = "IDLE" /\ pf_valid' =>
                           q_c' = ram'[pf_c_addr'] /\ q_d' = ram'[pf_d_addr']
                      /\ pf_st' = "RDC" => q_b' = ram'[pf_c_tgt']
                      /\ pf_st' = "RDD" => q_c' = ram'[pf_c_tgt'] /\ q_b' = ram'[pf_d_tgt']
  BY DEF Data
<1>5. CASE PfIdle(a, b)
  <2>1. ~pf_snooped /\ ~pf_snoop_hit(a, b)
    BY <1>4, <1>5 DEF PfIdle
  <2>2. pf_st = "IDLE" /\ UNCHANGED <<q_c, q_d, pf_c_addr, pf_d_addr, pf_valid>>
    BY <1>5 DEF PfIdle
  <2>3. CASE pf_steal_c(b)
    <3>1. pf_st' = "RDC" /\ pf_c_tgt' = address_c /\ ~b.on
      BY <1>5, <2>3 DEF PfIdle, pf_steal_c
    <3>2. ~At(a, address_c) /\ ~At(b, address_c)
      BY <2>1, <2>3, <3>1 DEF pf_snoop_hit, At
    <3>3. q_b' = ram[address_c]
      BY <1>2, <2>3, <3>1, <3>2 DEF PortB, address_b_eff
    <3> QED BY <1>1, <1>2, <3>1, <3>2, <3>3, RamKept
  <2>4. CASE ~pf_steal_c(b)
    <3>1. pf_st' = "IDLE"
      BY <1>5, <2>2, <2>4 DEF PfIdle
    <3> QED BY <1>3, <2>1, <2>2, <3>1 DEF Data
  <2> QED BY <2>3, <2>4
<1>6. CASE PfReadC(a, b)
  <2>1. ~pf_snooped /\ ~pf_snoop_hit(a, b) /\ pf_st = "RDC" /\ ~b.on
    BY <1>4, <1>6 DEF PfReadC
  <2>2. pf_st' = "RDD" /\ q_c' = q_b /\ pf_c_tgt' = pf_c_tgt /\ pf_d_tgt' = pf_d_tgt
    BY <1>6, <2>1 DEF PfReadC, pf_steal_d
  <2>3. ~At(a, pf_d_tgt)
    BY <2>1 DEF pf_snoop_hit, InFlight
  <2>4. q_b' = ram[pf_d_tgt]
    BY <1>2, <2>1, <2>3 DEF PortB, address_b_eff, pf_steal_c, pf_steal_d
  <2> QED BY <1>3, <2>1, <2>2, <2>4 DEF Data
<1>7. CASE PfReadD(a, b)
  <2>1. pf_st = "RDD" /\ pf_st' = "IDLE" /\ q_c' = q_c /\ q_d' = q_b
    BY <1>7 DEF PfReadD
  <2>2. CASE ~pf_snooped /\ ~pf_snoop_hit(a, b)
    <3>1. pf_c_addr' = pf_c_tgt /\ pf_d_addr' = pf_d_tgt
      BY <1>7, <2>2 DEF PfReadD
    <3> QED BY <1>3, <2>1, <2>2, <3>1 DEF Data
  <2>3. CASE ~(~pf_snooped /\ ~pf_snoop_hit(a, b))
    <3>1. ~pf_valid'
      BY <1>7, <2>3 DEF PfReadD
    <3> QED BY <2>1, <3>1
  <2> QED BY <2>2, <2>3
<1> QED BY <1>5, <1>6, <1>7 DEF Clock

\* What the prefetch owes in each of its states.
Ledger ==
  /\ pf_st = "IDLE" /\ pf_stale /\ pf_snooped => Due = 7
  /\ pf_st = "IDLE" /\ pf_stale /\ ~pf_snooped => Due = 4
  /\ pf_st = "IDLE" /\ ~pf_stale => Due \in 0 .. 1
  /\ pf_st = "IDLE" /\ ~pf_stale => (Due = 0 <=> q_b = ram[address_b])
  /\ pf_st = "RDC" /\ Own /\ ~pf_snooped => Due = 3
  /\ pf_st = "RDC" /\ ~(Own /\ ~pf_snooped) => Due = 6
  /\ pf_st = "RDD" /\ Own /\ ~pf_snooped => Due = 2
  /\ pf_st = "RDD" /\ ~(Own /\ ~pf_snooped) => Due = 5

LEMMA LedgerIs == Ledger
<1>1. pf_st = "IDLE" => /\ pf_stale /\ pf_snooped => Due = 7
                        /\ pf_stale /\ ~pf_snooped => Due = 4
                        /\ ~pf_stale /\ q_b = ram[address_b] => Due = 0
                        /\ ~pf_stale /\ q_b # ram[address_b] => Due = 1
  BY DEF Due
<1>2. pf_st = "RDC" => /\ Own /\ ~pf_snooped => Due = 3
                       /\ ~(Own /\ ~pf_snooped) => Due = 6
  BY DEF Due
<1>3. pf_st = "RDD" => /\ Own /\ ~pf_snooped => Due = 2
                       /\ ~(Own /\ ~pf_snooped) => Due = 5
  BY DEF Due
<1> QED BY <1>1, <1>2, <1>3 DEF Ledger

LEMMA LedgerNext == Ledger'
  BY LedgerIs, PTL

DueTyped == TypeOK => Due \in 0 .. 7

LEMMA DueRange == DueTyped
<1> SUFFICES ASSUME TypeOK PROVE Due \in 0 .. 7
  BY DEF DueTyped
<1>1. pf_st = "IDLE" => Due = 7 \/ Due = 4 \/ Due = 0 \/ Due = 1
  BY DEF Due
<1>2. pf_st = "RDC" => Due = 3 \/ Due = 6
  BY DEF Due
<1>3. pf_st = "RDD" => Due = 2 \/ Due = 5
  BY DEF Due
<1>4. pf_st \in {"IDLE", "RDC", "RDD"}
  BY DEF TypeOK
<1>5. Due \in {0, 1, 2, 3, 4, 5, 6, 7}
  BY <1>1, <1>2, <1>3, <1>4
<1> QED BY <1>5

LEMMA DueRangeNext == DueTyped'
  BY DueRange, PTL

\* With three clocks or fewer to go the pair asked for is held or in flight.
LEMMA Soon ==
  ASSUME TypeOK, Due <= 3
  PROVE  /\ ~pf_snooped
         /\ \/ pf_st = "IDLE" /\ ~pf_stale
            \/ pf_st = "RDC" /\ Own
            \/ pf_st = "RDD" /\ Own
         /\ Due <= 2 => pf_st # "RDC"
<1>0. Ledger
  BY LedgerIs
<1>1. CASE pf_st = "IDLE"
  <2>1. ~pf_stale
    <3>1. CASE pf_stale /\ pf_snooped
      BY <1>0, <1>1, <3>1 DEF Ledger
    <3>2. CASE pf_stale /\ ~pf_snooped
      BY <1>0, <1>1, <3>2 DEF Ledger
    <3> QED BY <3>1, <3>2
  <2> QED BY <1>1, <2>1 DEF pf_stale
<1>2. CASE pf_st = "RDC"
  <2>1. Due = 3 \/ Due = 6
    BY <1>0, <1>2 DEF Ledger
  <2>2. Own /\ ~pf_snooped
    BY <1>0, <1>2 DEF Ledger
  <2> QED BY <1>2, <2>1, <2>2
<1>3. CASE pf_st = "RDD"
  <2>1. Own /\ ~pf_snooped
    BY <1>0, <1>3 DEF Ledger
  <2> QED BY <1>3, <2>1
<1> QED BY <1>1, <1>2, <1>3 DEF TypeOK

\* A write on port A that touches nothing the prefetch is about.
Clear(a) ==
  /\ ~At(a, address_b) /\ ~At(a, address_c) /\ ~At(a, address_d)
  /\ ~Held(a) /\ ~InFlight(a)

LEMMA ClearNoHit ==
  ASSUME NEW a, Clear(a)
  PROVE  ~pf_snoop_hit(a, NoWrite) /\ ~NoWrite.on
  BY NoWriteForm DEF Clear, pf_snoop_hit, Held, InFlight, At

\* A clock with nothing in the way pays one of the clocks owed.
LEMMA DueStep ==
  ASSUME Paced, TypeOK, NEW a \in Writes, Clear(a), NEW newly,
         Clock(a, NoWrite, address_b, newly)
  PROVE  Due' = 0 \/ Due' <= Due - 1
<1>0. Ledger /\ Ledger'
  BY LedgerIs, LedgerNext
<1>1. ~pf_snoop_hit(a, NoWrite) /\ ~NoWrite.on /\ address_b \in Addr
  BY ClearNoHit, Here
<1>2. address_b' = address_b /\ address_c' = address_c /\ address_d' = address_d
  BY DEF Clock, address_c, address_d
<1>3. CASE PfIdle(a, NoWrite)
  <2>1. /\ pf_st = "IDLE" /\ pf_snooped' = (pf_snoop_hit(a, NoWrite) \/ pf_snooped)
        /\ UNCHANGED <<q_c, q_d, pf_c_addr, pf_d_addr, pf_valid>>
    BY <1>3 DEF PfIdle
  <2>2. pf_snooped' <=> pf_snooped
    BY <1>1, <2>1
  <2>3. CASE pf_stale
    <3>1. pf_steal_c(NoWrite)
      BY <1>1, <2>1, <2>3 DEF pf_steal_c
    <3>2. pf_st' = "RDC" /\ Own'
      BY <1>2, <1>3, <3>1 DEF PfIdle, Own
    <3>3. CASE pf_snooped
      <4>1. Due = 7
        BY <1>0, <2>1, <2>3, <3>3 DEF Ledger
      <4>2. Due' = 6
        BY <1>0, <2>2, <3>2, <3>3 DEF Ledger
      <4> QED BY <4>1, <4>2
    <3>4. CASE ~pf_snooped
      <4>1. Due = 4
        BY <1>0, <2>1, <2>3, <3>4 DEF Ledger
      <4>2. Due' = 3
        BY <1>0, <2>2, <3>2, <3>4 DEF Ledger
      <4> QED BY <4>1, <4>2
    <3> QED BY <3>3, <3>4
  <2>4. CASE ~pf_stale
    <3>1. ~pf_steal_c(NoWrite) /\ ~pf_steal_d(NoWrite)
      BY <2>1, <2>4 DEF pf_steal_c, pf_steal_d
    <3>2. pf_st' = "IDLE" /\ ~pf_stale'
      BY <1>2, <1>3, <2>1, <2>2, <2>4, <3>1 DEF PfIdle, pf_stale
    <3>3. q_b' = ram[address_b]
      BY <1>1, <3>1 DEF Clock, PortB, address_b_eff, Clear
    <3>4. ~At(a, address_b) /\ ~At(NoWrite, address_b)
      BY <1>1 DEF Clear, At
    <3>5. ram'[address_b] = ram[address_b]
      BY <1>1, <3>4, RamKept DEF Clock
    <3> QED BY <1>0, <1>2, <3>2, <3>3, <3>5 DEF Ledger
  <2> QED BY <2>3, <2>4
<1>4. CASE PfReadC(a, NoWrite)
  <2>1. /\ pf_st = "RDC" /\ pf_snooped' = (pf_snoop_hit(a, NoWrite) \/ pf_snooped)
        /\ pf_st' = "RDD" /\ pf_c_tgt' = pf_c_tgt /\ pf_d_tgt' = pf_d_tgt
    BY <1>1, <1>4 DEF PfReadC, pf_steal_d
  <2>2. (pf_snooped' <=> pf_snooped) /\ (Own' <=> Own)
    BY <1>1, <1>2, <2>1 DEF Own
  <2>3. CASE Own /\ ~pf_snooped
    <3>1. Due = 3
      BY <1>0, <2>1, <2>3 DEF Ledger
    <3>2. Due' = 2
      BY <1>0, <2>1, <2>2, <2>3 DEF Ledger
    <3> QED BY <3>1, <3>2
  <2>4. CASE ~(Own /\ ~pf_snooped)
    <3>1. Due = 6
      BY <1>0, <2>1, <2>4 DEF Ledger
    <3>2. Due' = 5
      BY <1>0, <2>1, <2>2, <2>4 DEF Ledger
    <3> QED BY <3>1, <3>2
  <2> QED BY <2>3, <2>4
<1>5. CASE PfReadD(a, NoWrite)
  <2>1. pf_st = "RDD" /\ pf_st' = "IDLE" /\ ~pf_snooped'
    BY <1>5 DEF PfReadD
  <2>2. CASE Own /\ ~pf_snooped
    <3>1. Due = 2
      BY <1>0, <2>1, <2>2 DEF Ledger
    <3>2. pf_c_addr' = pf_c_tgt /\ pf_d_addr' = pf_d_tgt /\ pf_valid'
      BY <1>1, <1>5, <2>2 DEF PfReadD
    <3>3. ~pf_stale'
      BY <1>2, <2>1, <2>2, <3>2 DEF pf_stale, Own
    <3>4. Due' \in 0 .. 1
      BY <1>0, <2>1, <3>3 DEF Ledger
    <3> QED BY <3>1, <3>4
  <2>3. CASE ~(Own /\ ~pf_snooped)
    <3>1. Due = 5
      BY <1>0, <2>1, <2>3 DEF Ledger
    <3>2. Due' = 4 \/ Due' \in 0 .. 1
      BY <1>0, <2>1 DEF Ledger
    <3> QED BY <3>1, <3>2
  <2> QED BY <2>2, <2>3
<1> QED BY <1>3, <1>4, <1>5 DEF Clock

\* A store of the Mac with at most two clocks to go leaves at most four.
LEMMA StoreStep ==
  ASSUME Paced, TypeOK, Due <= 2, NEW b \in Writes, b.on, b.addr = address_b,
         NEW x \in Addr, NEW newly, Clock(NoWrite, b, x, newly)
  PROVE  Due' <= 4
<1>0. Ledger' /\ ~NoWrite.on
  BY LedgerNext, NoWriteForm
<1>1. ~pf_snooped /\ ((pf_st = "IDLE" /\ ~pf_stale) \/ pf_st = "RDD")
  <2>1. Due <= 3
    BY DueRange DEF DueTyped
  <2> QED BY <2>1, Soon
<1>2. pf_st' = "IDLE" /\ ~pf_snooped'
  <2>1. CASE pf_st = "IDLE" /\ ~pf_stale
    <3>1. ~pf_steal_c(b) /\ pf_c_addr = address_c /\ pf_d_addr = address_d
      BY <2>1 DEF pf_steal_c, pf_stale
    <3>2. address_b # address_c /\ address_b # address_d
      BY Here
    <3>3. ~pf_snoop_hit(NoWrite, b)
      BY <1>0, <2>1, <3>1, <3>2 DEF pf_snoop_hit, Held, InFlight, At
    <3>4. PfIdle(NoWrite, b)
      BY <2>1 DEF Clock, PfReadC, PfReadD
    <3> QED BY <1>1, <2>1, <3>1, <3>3, <3>4 DEF PfIdle
  <2>2. CASE pf_st = "RDD"
    BY <2>2 DEF Clock, PfIdle, PfReadC, PfReadD
  <2> QED BY <1>1, <2>1, <2>2
<1>3. Due' = 4 \/ Due' \in 0 .. 1
  BY <1>0, <1>2 DEF Ledger
<1> QED BY <1>3

-----------------------------------------------------------------------------
(* Where the Mac and the HPS are *)

\* The Mac's addresses after a step, and the sectors they lie in.
LEMMA Moved ==
  ASSUME Paced, TypeOK, address_b' = address_c
  PROVE  /\ address_c' = address_d /\ address_b # address_c
         /\ SectorOf(address_d) \in {SectorOf(address_b'), SectorOf(address_d')}
         /\ SectorOf(address_c) = SectorOf(address_b) =>
              \A x : Home(x) => SectorOf(x) \in {SectorOf(address_b'), SectorOf(address_d')}
<1>1. /\ address_b \in Addr /\ address_c \in Addr /\ address_d \in Addr
      /\ address_c = Step(address_b) /\ address_d = Step(address_c) /\ address_b # address_c
  BY Here
<1>2. (address_c + 2) % ADDRS = Step(Step(address_c))
  BY <1>1, Distinct
<1>3. address_c' = Step(address_c) /\ address_d' = Step(Step(address_c))
  BY <1>2 DEF address_c, address_d, Step
<1>4. SectorOf(address_d) \in {SectorOf(address_c), SectorOf(address_d')}
  BY <1>1, <1>3, Sectors
<1> QED BY <1>1, <1>3, <1>4 DEF Home

\* The sector being filled is spared by a read that does not meet it.
LEMMA ClearFill ==
  ASSUME Paced, TypeOK, Modes, Near, mode = "READ", Offered,
         NEW a \in Writes, a.on => Filled(a.addr)
  PROVE  Clear(a)
<1>1. CASE ~a.on
  BY <1>1 DEF Clear, At, Held, InFlight
<1>2. CASE a.on
  <2>1. filling /\ SectorOf(a.addr) = FillSlot
    BY <1>2 DEF Filled
  <2>2. \A x : Home(x) => SectorOf(x) # FillSlot
    BY <2>1, FillAway
  <2>3. Home(address_b) /\ Home(address_c) /\ Home(address_d)
    BY Here
  <2>4. pf_st # "IDLE" => Home(pf_c_tgt) /\ Home(pf_d_tgt)
    BY <2>1 DEF Near
  <2>5. SectorOf(pf_c_addr) # FillSlot /\ SectorOf(pf_d_addr) # FillSlot
    <3>1. CASE Leaving
      BY <2>1, <3>1 DEF Leaving, Filled
    <3>2. CASE ~Leaving
      BY <2>1, <2>2, <3>2 DEF Near
    <3> QED BY <3>1, <3>2
  <2>6. ~At(a, address_b) /\ ~At(a, address_c) /\ ~At(a, address_d)
    BY <2>1, <2>2, <2>3 DEF At
  <2>7. ~Held(a)
    BY <2>1, <2>5 DEF Held, At
  <2>8. ~InFlight(a)
    BY <2>1, <2>2, <2>4 DEF InFlight, At
  <2> QED BY <2>6, <2>7, <2>8 DEF Clear
<1> QED BY <1>1, <1>2, WriteForm

\* While the Mac's address rests, the prefetch stays with it.
LEMMA NearStep ==
  ASSUME Paced, TypeOK, Leaving \/ (Home(pf_c_addr) /\ Home(pf_d_addr)),
         pf_st # "IDLE" => Home(pf_c_tgt) /\ Home(pf_d_tgt),
         NEW a \in Writes, a.on => Filled(a.addr), NEW newly,
         Clock(a, NoWrite, address_b, newly)
  PROVE  /\ Home(pf_c_addr)' /\ Home(pf_d_addr)'
         /\ pf_st' # "IDLE" => Home(pf_c_tgt)' /\ Home(pf_d_tgt)'
<1>1. address_b' = address_b /\ address_d' = address_d
  BY DEF Clock, address_d
<1>2. Home(address_c) /\ Home(address_d)
  BY Here
<1>3. CASE PfIdle(a, NoWrite)
  <2>1. pf_st = "IDLE" /\ pf_c_addr' = pf_c_addr /\ pf_d_addr' = pf_d_addr
    BY <1>3 DEF PfIdle
  <2>2. Home(pf_c_addr) /\ Home(pf_d_addr)
    BY <2>1 DEF Leaving
  <2>3. pf_st' = "IDLE" \/ (pf_c_tgt' = address_c /\ pf_d_tgt' = address_d)
    BY <1>3 DEF PfIdle
  <2> QED BY <1>1, <1>2, <2>1, <2>2, <2>3 DEF Home
<1>4. CASE PfReadC(a, NoWrite)
  <2>1. /\ pf_st = "RDC" /\ pf_c_addr' = pf_c_addr /\ pf_d_addr' = pf_d_addr
        /\ pf_c_tgt' = pf_c_tgt /\ pf_d_tgt' = pf_d_tgt
    BY <1>4 DEF PfReadC
  <2>2. Home(pf_c_addr) /\ Home(pf_d_addr)
    BY <2>1 DEF Leaving
  <2> QED BY <1>1, <2>1, <2>2 DEF Home
<1>5. CASE PfReadD(a, NoWrite)
  <2>1. pf_st = "RDD" /\ pf_st' = "IDLE"
    BY <1>5 DEF PfReadD
  <2>2. CASE pf_c_addr' = pf_c_tgt /\ pf_d_addr' = pf_d_tgt
    BY <1>1, <2>1, <2>2 DEF Home
  <2>3. CASE ~(pf_c_addr' = pf_c_tgt /\ pf_d_addr' = pf_d_tgt)
    <3>1. pf_c_addr' = pf_c_addr /\ pf_d_addr' = pf_d_addr
      BY <1>5, <2>3 DEF PfReadD
    <3>2. pf_snooped \/ pf_snoop_hit(a, NoWrite)
      BY <1>5, <2>3 DEF PfReadD
    <3>3. ~Leaving
      <4> SUFFICES ASSUME Leaving PROVE FALSE
        OBVIOUS
      <4>1. pf_snoop_hit(a, NoWrite)
        BY <3>2 DEF Leaving
      <4>2. Held(a) \/ InFlight(a)
        BY <2>1, <4>1, NoWriteForm DEF pf_snoop_hit, pf_steal_c, Held, InFlight, At
      <4>3. a.on /\ a.addr \in {pf_c_addr, pf_d_addr, pf_c_tgt, pf_d_tgt}
        BY <4>2 DEF Held, InFlight, At
      <4> QED BY <4>3 DEF Leaving
    <3> QED BY <1>1, <2>1, <3>1, <3>3 DEF Home
  <2> QED BY <2>2, <2>3
<1> QED BY <1>3, <1>4, <1>5 DEF Clock

\* Leaving a sector, the HPS fills neither that one nor the next.
LEMMA FillBehind ==
  ASSUME Paced, TypeOK, Modes, mode = "READ", Offered, filling,
         SectorOf(address_c) # SectorOf(address_b),
         address_b' = address_c, ahead' = ahead - 1, NEW x,
         Home(x) \/ SectorOf(x) \in {SectorOf(address_c), SectorOf(address_d)}
  PROVE  SectorOf(x) # FillSlot'
<1> DEFINE s == SectorOf(address_b)
           t == (s + 1) % SECTORS
           i == ahead - 1
<1>1. /\ s \in 0 .. SECTORS - 1 /\ SectorOf(address_c) = t /\ SectorOf(address_d) = t
      /\ SECTORS \in Nat /\ SECTORS >= 1
  BY Here, Sectors, Bounds
<1>2. ahead \in Nat /\ ahead >= 2 /\ ahead < SECTORS
  BY <1>1 DEF TypeOK, Modes, Offered, Touched
<1>3. i \in Nat /\ i >= 1 /\ i + 2 <= SECTORS /\ i < SECTORS /\ ahead' = i
  BY <1>1, <1>2
<1>4. FillSlot' = (t + i) % SECTORS
  BY <1>1, <1>3 DEF FillSlot
<1> HIDE DEF i
<1>5. t \in 0 .. SECTORS - 1
  BY <1>1
<1>6. (t + i) % SECTORS # t
  <2> HIDE DEF s, t
  <2> QED BY <1>3, <1>5, SlotsApart
<1>7. (t + i) % SECTORS # s
  <2> HIDE DEF s
  <2>1. CASE s + 1 < SECTORS
    <3>1. t = s + 1
      BY <1>1, <2>1
    <3>2. (s + 1 + i) % SECTORS # s
      BY <1>1, <1>3, SlotsApart
    <3> QED BY <3>1, <3>2
  <2>2. CASE s + 1 = SECTORS
    <3>1. t = 0 /\ s = SECTORS - 1
      BY <1>1, <2>2
    <3>2. 0 + i = i /\ i % SECTORS = i
      BY <1>1, <1>3
    <3> QED BY <1>1, <1>3, <3>1, <3>2
  <2> QED BY <1>1, <2>1, <2>2
<1> QED BY <1>1, <1>4, <1>6, <1>7 DEF Home

-----------------------------------------------------------------------------
(* The invariant is preserved *)

LEMMA SinceStep ==
  ASSUME Paced, TypeOK, NEW a, NEW b, NEW x, NEW newly, Clock(a, b, x, newly)
  PROVE  /\ newly \/ b.on \/ x # address_b => since' = 0
         /\ ~newly /\ ~b.on /\ x = address_b =>
              \/ since' = since + 1
              \/ since' = since /\ since >= 7
<1>1. since \in 0 .. SETTLE /\ SETTLE \in Nat /\ SETTLE >= 7
  BY DpramAssumption DEF TypeOK, Paced
<1>2. newly \/ b.on \/ x # address_b => since' = 0
  BY DEF Clock
<1>3. ASSUME ~newly /\ ~b.on /\ x = address_b
      PROVE  since' = since + 1 \/ (since' = since /\ since >= 7)
  <2>1. since' = IF since < SETTLE THEN since + 1 ELSE SETTLE
    BY <1>3 DEF Clock
  <2> QED BY <1>1, <2>1
<1> QED BY <1>2, <1>3

LEMMA PaidNumbers ==
  ASSUME NEW d \in 0 .. 7, NEW e \in 0 .. 7, NEW m \in Nat, NEW n \in Nat,
         e = 0 \/ e <= d - 1, n = 0 \/ n = m + 1 \/ (n = m /\ m >= 7),
         d = 0 \/ d + m <= 7
  PROVE  e = 0 \/ e + n <= 7
<1>1. CASE n = 0
  BY <1>1
<1>2. CASE n = m + 1
  BY <1>2
<1>3. CASE n = m /\ m >= 7
  BY <1>3
<1> QED BY <1>1, <1>2, <1>3

\* A clock paid is a clock passed.
LEMMA Paid ==
  ASSUME TypeOK, TypeOK', Due' = 0 \/ Due' <= Due - 1,
         since' = 0 \/ since' = since + 1 \/ (since' = since /\ since >= 7),
         Due = 0 \/ Due + since <= 7
  PROVE  Due' = 0 \/ Due' + since' <= 7
<1>1. Due \in 0 .. 7 /\ Due' \in 0 .. 7
  BY DueRange, DueRangeNext DEF DueTyped
<1>2. since \in Nat /\ since' \in Nat
  BY DpramAssumption DEF TypeOK
<1> QED BY <1>1, <1>2, PaidNumbers

\* When the Mac's next strobe may come, its pair is held or in flight.
LEMMA Ripe ==
  ASSUME Paced, TypeOK, OnTime, Calm, since >= GAP
  PROVE  /\ Due <= 3
         /\ since >= 5 => Due <= 2
         /\ mode = "WRITE" => Due <= 2
<1>1. Due \in 0 .. 7 /\ since \in Nat /\ since >= 4
  BY DueRange, DpramAssumption DEF DueTyped, TypeOK, Paced
<1>2. Due = 0 \/ Due + since <= 7
  BY DEF OnTime
<1>3. mode = "WRITE" => Due = 0 \/ Due + since <= 4 \/ since >= 5
  BY DEF OnTime
<1> QED BY <1>1, <1>2, <1>3

LEMMA ModesStep ==
  ASSUME Paced, Ring, Modes, Ring', Next
  PROVE  Modes'
<1>0. TypeOK /\ ahead \in Nat /\ since \in Nat /\ GAP \in Nat /\ GAP >= 4
  BY Bounds, DpramAssumption DEF Ring, TypeOK, Paced
<1>1. SUFFICES ASSUME mode' = "READ", ahead' = 0, ~filling' PROVE since' >= 5
  BY DEF Modes, Ring
<1>2. CASE Rest
  <2>1. since >= 5
    BY <1>1, <1>2 DEF Rest, Modes
  <2>2. since' = since + 1 \/ since' = since
    BY <1>0, <1>2, SinceStep, NoWriteForm DEF Rest
  <2> QED BY <1>0, <2>1, <2>2
<1>3. CASE FillBegin
  BY <1>1, <1>3 DEF FillBegin
<1>4. CASE FillEnd
  <2>1. ahead' = ahead + 1
    BY <1>4 DEF FillEnd
  <2> QED BY <1>0, <1>1, <2>1
<1>5. CASE \E a \in Writes : HpsWrite(a)
  BY <1>1, <1>5 DEF HpsWrite
<1>6. CASE \E a \in Writes : MacNext(a)
  <2>1. ahead >= Touched /\ Touched \in 1 .. 2
    BY <1>0, <1>6, Here DEF MacNext, Offered
  <2>2. CASE SectorOf(address_c) = SectorOf(address_b)
    <3>1. ahead' = ahead
      BY <1>6, <2>2 DEF MacNext
    <3> QED BY <1>0, <1>1, <2>1, <3>1
  <2>3. CASE SectorOf(address_c) # SectorOf(address_b)
    <3>1. ahead' = ahead - 1
      BY <1>6, <2>3 DEF MacNext
    <3>2. SectorOf(address_d) # SectorOf(address_b)
      BY <1>0, <2>3, Here, Sectors
    <3>3. Touched = 2
      BY <3>2 DEF Touched
    <3> QED BY <1>0, <1>1, <2>1, <3>1, <3>3
  <2> QED BY <2>2, <2>3
<1>7. CASE \E b \in Writes, x \in Addr : MacStore(b, x)
  BY <1>1, <1>7 DEF MacStore
<1>8. CASE Rewind
  BY <1>1, <1>8 DEF Rewind
<1>9. CASE \E md \in {"READ", "WRITE"} : Begin(md)
  <2>1. since >= GAP
    BY <1>9 DEF Begin
  <2>2. since' = since + 1 \/ (since' = since /\ since >= 7)
    BY <1>0, <1>9, SinceStep, NoWriteForm DEF Begin
  <2> QED BY <1>0, <2>1, <2>2
<1> QED BY <1>2, <1>3, <1>4, <1>5, <1>6, <1>7, <1>8, <1>9 DEF Next

LEMMA DataNext ==
  ASSUME Paced, Ring, Data, OnTime, Next
  PROVE  Data'
<1>0. TypeOK /\ NoWrite \in Writes /\ ~NoWrite.on
  BY NoWriteForm DEF Ring
<1>1. ASSUME NEW b \in Writes, NEW x \in Addr, MacStore(b, x)
      PROVE  Data'
  <2>1. mode = "WRITE" /\ since >= GAP /\ Calm
    BY <1>1 DEF MacStore, Calm
  <2>2. Due <= 2
    BY <1>0, <2>1, Ripe
  <2>3. Due <= 3
    BY <1>0, <2>1, Ripe
  <2>4. pf_st # "RDC"
    BY <1>0, <2>2, <2>3, Soon
  <2>5. Clock(NoWrite, b, x, FALSE)
    BY <1>1 DEF MacStore
  <2> QED BY <1>0, <2>4, <2>5, DataStep
<1>2. ASSUME NEW a \in Writes, NEW x, NEW newly, Clock(a, NoWrite, x, newly)
      PROVE  Data'
  BY <1>0, <1>2, DataStep
<1>3. CASE Rest
  BY <1>0, <1>2, <1>3 DEF Rest
<1>4. CASE FillBegin
  BY <1>0, <1>2, <1>4 DEF FillBegin
<1>5. CASE FillEnd
  BY <1>0, <1>2, <1>5 DEF FillEnd
<1>6. CASE \E a \in Writes : HpsWrite(a)
  BY <1>2, <1>6 DEF HpsWrite
<1>7. CASE \E a \in Writes : MacNext(a)
  BY <1>2, <1>7 DEF MacNext
<1>8. CASE Rewind
  BY <1>0, <1>2, <1>8 DEF Rewind
<1>9. CASE \E md \in {"READ", "WRITE"} : Begin(md)
  BY <1>0, <1>2, <1>9 DEF Begin
<1> QED BY <1>1, <1>3, <1>4, <1>5, <1>6, <1>7, <1>8, <1>9 DEF Next

LEMMA SumZero ==
  ASSUME NEW d \in 0 .. 7, NEW n, n = 0
  PROVE  d + n = d /\ d + n <= 7
  OBVIOUS

LEMMA StoreNumbers ==
  ASSUME NEW d \in 0 .. 7, NEW e \in 0 .. 7, NEW m \in Nat, NEW n \in Nat,
         e = 0 \/ e <= d - 1, n = m + 1 \/ (n = m /\ m >= 7),
         d = 0 \/ d + m <= 4 \/ m >= 5
  PROVE  e = 0 \/ e + n <= 4 \/ n >= 5
<1>1. CASE n = m + 1
  BY <1>1
<1>2. CASE n = m /\ m >= 7
  BY <1>2
<1> QED BY <1>1, <1>2

\* An access pays what is due in a quiet clock, or starts over.
LEMMA OnTimeStep ==
  ASSUME Paced, Ring, Modes, OnTime, Near, Ring', Next
  PROVE  OnTime'
<1>0. TypeOK /\ TypeOK' /\ NoWrite \in Writes /\ ~NoWrite.on /\ since \in Nat /\ since' \in Nat
  BY NoWriteForm, DpramAssumption DEF Ring, TypeOK
<1>1. Due \in 0 .. 7 /\ Due' \in 0 .. 7
  BY <1>0, DueRange, DueRangeNext DEF DueTyped
<1>2. ASSUME since' = 0, mode' # "WRITE"
      PROVE  OnTime'
  <2>1. Due' + since' <= 7
    BY <1>1, <1>2, SumZero
  <2> QED BY <1>2, <2>1 DEF OnTime
<1>3. ASSUME NEW a \in Writes, Clear(a), Clock(a, NoWrite, address_b, FALSE), Calm
      PROVE  /\ Due' = 0 \/ Due' <= Due - 1
             /\ since' = since + 1 \/ (since' = since /\ since >= 7)
             /\ Due' = 0 \/ Due' + since' <= 7
  <2>1. Due' = 0 \/ Due' <= Due - 1
    BY <1>0, <1>3, DueStep
  <2>2. since' = since + 1 \/ (since' = since /\ since >= 7)
    BY <1>0, <1>3, SinceStep
  <2>3. Due = 0 \/ Due + since <= 7
    BY <1>3 DEF OnTime
  <2> QED BY <1>0, <2>1, <2>2, <2>3, Paid
<1>4. Clear(NoWrite)
  BY <1>0 DEF Clear, At, Held, InFlight
<1>5. ASSUME mode' = "READ", mode = "READ", Calm' => Calm, NEW a \in Writes, Calm => Clear(a),
             Clock(a, NoWrite, address_b, FALSE)
      PROVE  OnTime'
  <2>1. Calm' => Due' = 0 \/ Due' + since' <= 7
    BY <1>3, <1>5
  <2> QED BY <1>5, <2>1 DEF OnTime
<1>6. address_b' = address_b => (Touched' = Touched)
  BY DEF Touched, address_d
<1>7. CASE Rest
  <2>1. Clock(NoWrite, NoWrite, address_b, FALSE) /\ UNCHANGED <<mode, filling, ahead, address_b>>
    BY <1>7 DEF Rest, Clock
  <2>2. Calm' <=> Calm
    BY <1>6, <2>1 DEF Calm, Offered
  <2>3. CASE mode = "READ"
    BY <1>0, <1>4, <1>5, <2>1, <2>2, <2>3
  <2>4. CASE mode # "READ"
    <3>1. Calm
      BY <2>4 DEF Calm
    <3>2. /\ Due' = 0 \/ Due' <= Due - 1
          /\ since' = since + 1 \/ (since' = since /\ since >= 7)
          /\ Due' = 0 \/ Due' + since' <= 7
      BY <1>0, <1>3, <1>4, <2>1, <3>1
    <3>3. ASSUME mode = "WRITE"
          PROVE  Due' = 0 \/ Due' + since' <= 4 \/ since' >= 5
      <4>1. Due = 0 \/ Due + since <= 4 \/ since >= 5
        BY <3>3 DEF OnTime
      <4> QED BY <1>0, <1>1, <3>2, <4>1, StoreNumbers
    <3> QED BY <2>1, <3>2, <3>3 DEF OnTime
  <2> QED BY <2>3, <2>4
<1>8. CASE FillBegin
  <2>1. /\ Clock(NoWrite, NoWrite, address_b, FALSE) /\ UNCHANGED <<mode, ahead, address_b>>
        /\ mode = "READ" /\ filling'
    BY <1>8 DEF FillBegin, Clock
  <2>2. Calm' => Calm
    BY <1>6, <2>1 DEF Calm, Offered
  <2> QED BY <1>0, <1>4, <1>5, <2>1, <2>2
<1>9. CASE FillEnd
  <2>1. /\ Clock(NoWrite, NoWrite, address_b, ~Offered) /\ filling /\ mode = "READ" /\ mode' = mode
    BY <1>9 DEF FillEnd, Ring
  <2>2. CASE Offered
    <3>1. Clock(NoWrite, NoWrite, address_b, FALSE)
      BY <2>1, <2>2 DEF Clock
    <3>2. Calm
      BY <2>2 DEF Calm
    <3> QED BY <1>0, <1>4, <1>5, <2>1, <3>1, <3>2
  <2>3. CASE ~Offered
    <3>1. since' = 0
      BY <1>0, <2>1, <2>3, SinceStep
    <3> QED BY <1>2, <2>1, <3>1
  <2> QED BY <2>2, <2>3
<1>10. ASSUME NEW a \in Writes, HpsWrite(a)
       PROVE  OnTime'
  <2>1. /\ Clock(a, NoWrite, address_b, FALSE) /\ UNCHANGED <<mode, ahead, filling, address_b>>
        /\ mode = "READ" /\ filling /\ Filled(a.addr)
    BY <1>10 DEF HpsWrite, Clock, Ring, Filled
  <2>2. Calm' => Calm
    BY <1>6, <2>1 DEF Calm, Offered
  <2>3. Calm => Clear(a)
    BY <1>0, <2>1, ClearFill DEF Calm
  <2> QED BY <1>5, <2>1, <2>2, <2>3
<1>11. ASSUME NEW a \in Writes, MacNext(a)
       PROVE  OnTime'
  <2>1. address_c # address_b /\ Clock(a, NoWrite, address_c, FALSE) /\ mode' = "READ"
    BY <1>0, <1>11, Here DEF MacNext
  <2>2. since' = 0
    BY <2>1 DEF Clock
  <2> QED BY <1>2, <2>1, <2>2
<1>12. ASSUME NEW b \in Writes, NEW x \in Addr, MacStore(b, x)
       PROVE  OnTime'
  <2>1. /\ mode = "WRITE" /\ since >= GAP /\ Calm /\ b.on /\ b.addr = address_b
        /\ Clock(NoWrite, b, x, FALSE)
    BY <1>12 DEF MacStore, Calm
  <2>2. Due <= 2
    BY <1>0, <2>1, Ripe
  <2>3. Due' <= 4
    BY <1>0, <2>1, <2>2, StoreStep
  <2>4. since' = 0
    BY <1>0, <2>1, SinceStep
  <2>5. Due' + since' <= 4 /\ Due' + since' <= 7
    BY <1>1, <2>3, <2>4, SumZero
  <2> QED BY <2>5 DEF OnTime
<1>13. CASE Rewind
  <2>1. Clock(NoWrite, NoWrite, 0, TRUE) /\ mode' = "TURN"
    BY <1>13 DEF Rewind
  <2>2. since' = 0
    BY <1>0, <2>1, SinceStep
  <2> QED BY <1>2, <2>1, <2>2
<1>14. CASE \E md \in {"READ", "WRITE"} : Begin(md)
  <2>1. Calm /\ since >= GAP /\ Clock(NoWrite, NoWrite, address_b, FALSE)
    BY <1>14 DEF Begin, Calm
  <2>2. /\ since' = since + 1 \/ (since' = since /\ since >= 7)
        /\ Due' = 0 \/ Due' + since' <= 7
    BY <1>0, <1>3, <1>4, <2>1
  <2>3. GAP \in Nat /\ GAP >= 4
    BY DpramAssumption DEF Paced
  <2>4. since' >= 5
    BY <1>0, <2>1, <2>2, <2>3
  <2> QED BY <2>2, <2>4 DEF OnTime
<1> QED BY <1>7, <1>8, <1>9, <1>10, <1>11, <1>12, <1>13, <1>14 DEF Next

\* The pair asked for, held or about to be published, after a clock with
\* nothing in the way.
LEMMA PairHeld ==
  ASSUME Paced, TypeOK, Due <= 3, pf_st # "RDC", NEW a \in Writes, Clear(a), NEW x, NEW newly,
         Clock(a, NoWrite, x, newly)
  PROVE  pf_st' = "IDLE" /\ pf_c_addr' = address_c /\ pf_d_addr' = address_d
<1>1. ~pf_snoop_hit(a, NoWrite)
  BY ClearNoHit
<1>2. ~pf_snooped /\ ((pf_st = "IDLE" /\ ~pf_stale) \/ (pf_st = "RDD" /\ Own))
  BY Soon
<1>3. CASE pf_st = "IDLE" /\ ~pf_stale
  <2>1. pf_c_addr = address_c /\ pf_d_addr = address_d /\ ~pf_steal_c(NoWrite)
    BY <1>3 DEF pf_stale, pf_steal_c
  <2>2. PfIdle(a, NoWrite)
    BY <1>3 DEF Clock, PfReadC, PfReadD
  <2> QED BY <1>3, <2>1, <2>2 DEF PfIdle
<1>4. CASE pf_st = "RDD" /\ Own
  <2>1. PfReadD(a, NoWrite)
    BY <1>4 DEF Clock, PfIdle, PfReadC
  <2> QED BY <1>1, <1>2, <1>4, <2>1 DEF PfReadD, Own
<1> QED BY <1>2, <1>3, <1>4

\* The Mac steps on: its pair is held, or in flight with the old pair in a
\* sector that is not being filled.
LEMMA NearMove ==
  ASSUME Paced, Ring, Modes, OnTime, Near, NEW a \in Writes, MacNext(a)
  PROVE  Near'
<1>0. /\ TypeOK /\ mode = "READ" /\ Offered /\ since >= GAP /\ Calm
      /\ Clock(a, NoWrite, address_c, FALSE) /\ address_b' = address_c /\ filling' = filling
  BY DEF MacNext, Calm, Ring, Clock
<1>1. ahead > 0
  <2>1. ahead >= Touched /\ Touched \in 1 .. 2 /\ ahead \in Nat
    BY <1>0, Here, Bounds DEF Offered, TypeOK
  <2> QED BY <2>1
<1>2. Clear(a)
  <2>1. a.on => Filled(a.addr)
    BY DEF MacNext, Filled
  <2> QED BY <1>0, <2>1, ClearFill
<1>3. Due <= 3
  BY <1>0, Ripe
<1>4. /\ address_c' = address_d /\ address_c # address_b
      /\ SectorOf(address_d) \in {SectorOf(address_b'), SectorOf(address_d')}
      /\ SectorOf(address_c) = SectorOf(address_b) =>
           \A x : Home(x) => SectorOf(x) \in {SectorOf(address_b'), SectorOf(address_d')}
  BY <1>0, Moved
<1>5. CASE pf_st # "RDC"
  <2>1. pf_st' = "IDLE" /\ pf_c_addr' = address_c /\ pf_d_addr' = address_d
    BY <1>0, <1>2, <1>3, <1>5, PairHeld
  <2>2. Home(pf_c_addr)' /\ Home(pf_d_addr)'
    BY <1>0, <1>4, <2>1 DEF Home
  <2> QED BY <2>1, <2>2 DEF Near
<1>6. CASE pf_st = "RDC"
  <2>1. ~pf_snooped /\ pf_c_tgt = address_c /\ pf_d_tgt = address_d
    BY <1>0, <1>3, <1>6, Soon DEF Own
  <2>2. ~pf_snoop_hit(a, NoWrite) /\ ~NoWrite.on
    BY <1>2, ClearNoHit
  <2>3. PfReadC(a, NoWrite)
    BY <1>0, <1>6 DEF Clock, PfIdle, PfReadD
  <2>4. /\ pf_st' = "RDD" /\ pf_c_tgt' = address_c /\ pf_d_tgt' = address_d
        /\ pf_c_addr' = pf_c_addr /\ pf_d_addr' = pf_d_addr
    BY <1>6, <2>1, <2>2, <2>3 DEF PfReadC, pf_steal_d
  <2>5. ~pf_snooped'
    BY <2>1, <2>2, <2>3 DEF PfReadC
  <2>6. Home(pf_c_tgt)' /\ Home(pf_d_tgt)'
    BY <1>0, <1>4, <2>4 DEF Home
  <2>7. Home(pf_c_addr) /\ Home(pf_d_addr)
    BY <1>0, <1>1, <1>6 DEF Near, Leaving
  <2>8. CASE SectorOf(address_c) = SectorOf(address_b)
    <3>1. Home(pf_c_addr)' /\ Home(pf_d_addr)'
      BY <1>4, <2>4, <2>7, <2>8 DEF Home
    <3> QED BY <2>6, <3>1 DEF Near
  <2>9. CASE SectorOf(address_c) # SectorOf(address_b)
    <3>1. ahead' = ahead - 1
      BY <2>9 DEF MacNext
    <3>2. ASSUME filling
          PROVE  /\ SectorOf(pf_c_addr) # FillSlot' /\ SectorOf(pf_d_addr) # FillSlot'
                 /\ SectorOf(address_c) # FillSlot' /\ SectorOf(address_d) # FillSlot'
      BY <1>0, <2>7, <2>9, <3>1, <3>2, FillBehind
    <3>3. \A x \in {pf_c_addr', pf_d_addr', pf_c_tgt', pf_d_tgt'} :
             ~(filling' /\ SectorOf(x) = FillSlot')
      BY <1>0, <2>4, <3>2
    <3>4. since' = 0
      BY <1>0, <1>4 DEF Clock
    <3>5. Leaving'
      BY <2>4, <2>5, <3>3, <3>4 DEF Leaving, Filled
    <3> QED BY <2>6, <3>5 DEF Near
  <2> QED BY <2>8, <2>9
<1> QED BY <1>5, <1>6

\* Five clocks after the last strobe at most two are left.
LEMMA Prompt ==
  ASSUME TypeOK, OnTime, Calm, since >= 5
  PROVE  Due <= 2 /\ Due <= 3
<1>1. Due \in 0 .. 7 /\ since \in Nat
  BY DueRange, DpramAssumption DEF DueTyped, TypeOK
<1>2. Due = 0 \/ Due + since <= 7
  BY DEF OnTime
<1> QED BY <1>1, <1>2

LEMMA NearNext ==
  ASSUME Paced, Ring, Modes, OnTime, Near, Next
  PROVE  Near'
<1>0. TypeOK /\ NoWrite \in Writes /\ ~NoWrite.on /\ ahead \in Nat /\ since \in Nat
  BY NoWriteForm, Bounds, DpramAssumption DEF Ring, TypeOK
<1>1. ASSUME NEW a \in Writes, a.on => Filled(a.addr), NEW newly,
             Clock(a, NoWrite, address_b, newly), mode = "READ", filling \/ ahead > 0
      PROVE  Near'
  <2>1. /\ Leaving \/ (Home(pf_c_addr) /\ Home(pf_d_addr))
        /\ pf_st # "IDLE" => Home(pf_c_tgt) /\ Home(pf_d_tgt)
    BY <1>1 DEF Near
  <2>2. /\ Home(pf_c_addr)' /\ Home(pf_d_addr)'
        /\ pf_st' # "IDLE" => Home(pf_c_tgt)' /\ Home(pf_d_tgt)'
    BY <1>0, <1>1, <2>1, NearStep
  <2> QED BY <2>2 DEF Near
<1>2. SUFFICES ASSUME mode' = "READ", filling' \/ ahead' > 0
               PROVE  Near'
  BY DEF Near
<1>3. CASE Rest
  BY <1>0, <1>1, <1>2, <1>3 DEF Rest
<1>4. CASE FillBegin
  <2>1. mode = "READ" /\ ~filling /\ Clock(NoWrite, NoWrite, address_b, FALSE)
    BY <1>4 DEF FillBegin
  <2>2. CASE ahead > 0
    BY <1>0, <1>1, <2>1, <2>2
  <2>3. CASE ahead = 0
    <3>1. since >= 5 /\ Calm
      BY <2>1, <2>3 DEF Modes, Calm
    <3>2. Due <= 2 /\ Due <= 3
      BY <1>0, <3>1, Prompt
    <3>3. pf_st # "RDC"
      BY <1>0, <3>2, Soon
    <3>4. Clear(NoWrite)
      BY <1>0 DEF Clear, At, Held, InFlight
    <3>5. pf_st' = "IDLE" /\ pf_c_addr' = address_c /\ pf_d_addr' = address_d
      BY <1>0, <2>1, <3>2, <3>3, <3>4, PairHeld
    <3>6. Home(address_c) /\ Home(address_d)
      BY <1>0, Here
    <3>7. address_b' = address_b /\ address_d' = address_d
      BY <2>1 DEF Clock, address_d
    <3>8. Home(pf_c_addr)' /\ Home(pf_d_addr)'
      BY <3>5, <3>6, <3>7 DEF Home
    <3> QED BY <3>5, <3>8 DEF Near
  <2> QED BY <1>0, <2>2, <2>3
<1>5. CASE FillEnd
  <2>1. filling /\ mode = "READ" /\ Clock(NoWrite, NoWrite, address_b, ~Offered)
    BY <1>5 DEF FillEnd, Ring
  <2> QED BY <1>0, <1>1, <2>1
<1>6. ASSUME NEW a \in Writes, HpsWrite(a)
      PROVE  Near'
  <2>1. filling /\ mode = "READ" /\ Filled(a.addr) /\ Clock(a, NoWrite, address_b, FALSE)
    BY <1>6 DEF HpsWrite, Ring, Filled
  <2> QED BY <1>1, <2>1
<1>7. ASSUME NEW a \in Writes, MacNext(a)
      PROVE  Near'
  BY <1>7, NearMove
<1>8. ASSUME NEW b \in Writes, NEW x \in Addr, MacStore(b, x)
      PROVE  Near'
  BY <1>2, <1>8 DEF MacStore
<1>9. CASE Rewind
  BY <1>2, <1>9 DEF Rewind
<1>10. CASE \E md \in {"READ", "WRITE"} : Begin(md)
  <2>1. ahead' = 0 /\ ~filling'
    BY <1>10 DEF Begin, Ring
  <2> QED BY <1>2, <2>1
<1> QED BY <1>3, <1>4, <1>5, <1>6, <1>7, <1>8, <1>9, <1>10 DEF Next

LEMMA DpramStep ==
  ASSUME Paced, Ring, DpramInv, [Next]_vars
  PROVE  DpramInv'
<1>1. Ring'
  BY RingStep
<1>2. CASE Next
  BY <1>1, <1>2, ModesStep, DataNext, OnTimeStep, NearNext DEF DpramInv
<1>3. CASE UNCHANGED vars
  <2>1. Modes' <=> Modes
    BY <1>3 DEF vars, envVars, Modes
  <2>2. Data' <=> Data
    BY <1>3 DEF vars, pfVars, Data
  <2>3. UNCHANGED <<address_b, address_c, address_d, mode, filling, ahead, since, pf_st>>
    BY <1>3 DEF vars, pfVars, envVars, address_c, address_d
  <2>4. (pf_stale' <=> pf_stale) /\ (Own' <=> Own)
    BY <1>3, <2>3 DEF vars, pfVars, pf_stale, Own
  <2>5. Due' = Due
    <3>1. UNCHANGED <<q_b, ram, pf_snooped>>
      BY <1>3 DEF vars, pfVars
    <3> QED BY <2>3, <2>4, <3>1 DEF Due
  <2>6. Calm' <=> Calm
    BY <2>3 DEF Calm, Offered, Touched
  <2>7. OnTime' <=> OnTime
    BY <2>3, <2>5, <2>6 DEF OnTime
  <2>8. Near' <=> Near
    BY <1>3, <2>3 DEF vars, pfVars, Near, Leaving, Home, Filled, FillSlot
  <2> QED BY <2>1, <2>2, <2>7, <2>8 DEF DpramInv
<1> QED BY <1>2, <1>3

LEMMA DpramStart ==
  ASSUME Init
  PROVE  DpramInv
<1>1. /\ mode = "TURN" /\ ahead = 0 /\ ~filling /\ pf_st = "IDLE" /\ ~pf_valid /\ ~pf_snooped
      /\ since = 0
  BY DEF Init, InitRegisters
<1>2. Due = 4
  BY <1>1, LedgerIs DEF Ledger, pf_stale
<1>3. Due + since <= 7
  BY <1>1, <1>2
<1> QED BY <1>1, <1>3 DEF DpramInv, Modes, Data, OnTime, Near

\* Nothing is due once the clocks DREQ stays down are over.
LEMMA SettledThen ==
  ASSUME Paced, Ring, DpramInv
  PROVE  Settled
<1>0. TypeOK /\ Data /\ OnTime
  BY DEF Ring, DpramInv
<1>1. SUFFICES ASSUME Offered, since = SETTLE
               PROVE  q_b = ram[address_b] /\ q_c = ram[address_c] /\ q_d = ram[address_d]
  BY DEF Settled
<1>2. Due = 0
  <2>1. Due \in 0 .. 7 /\ SETTLE \in Nat /\ SETTLE >= 7
    BY <1>0, DueRange, DpramAssumption DEF DueTyped, Paced
  <2>2. Due = 0 \/ Due + since <= 7
    BY <1>0, <1>1 DEF OnTime, Calm
  <2> QED BY <1>1, <2>1, <2>2
<1>3. Due <= 3 /\ Due <= 2
  BY <1>2
<1>4. ~pf_snooped /\ pf_st = "IDLE" /\ ~pf_stale
  <2>1. pf_st # "RDD"
    <3>1. Own /\ ~pf_snooped /\ pf_st = "RDD" => Due = 2
      BY LedgerIs DEF Ledger
    <3> QED BY <1>0, <1>2, <1>3, <3>1, Soon
  <2> QED BY <1>0, <1>3, <2>1, Soon
<1>5. q_b = ram[address_b]
  BY <1>2, <1>4, LedgerIs DEF Ledger
<1>6. pf_valid /\ pf_c_addr = address_c /\ pf_d_addr = address_d
  BY <1>4 DEF pf_stale
<1> QED BY <1>0, <1>4, <1>5, <1>6 DEF Data

\* Whatever the HPS fills and whenever the Mac moves or stores, seven clocks
\* after its last strobe the three outputs of a lane are the RAM's bytes at the
\* Mac's address and the next two: a host that DREQ held off that long never
\* reads a stale look-ahead byte (scsi_dpram of rtl/scsi.v).
THEOREM OutputsSettle == ASSUME Paced PROVE Spec => []Settled
<1>1. Init => Ring /\ DpramInv
  BY RingInit, DpramStart
<1>2. Ring /\ DpramInv /\ [Next]_vars => (Ring /\ DpramInv)'
  BY RingStep, DpramStep
<1>3. Ring /\ DpramInv => Settled
  BY SettledThen
<1> QED BY <1>1, <1>2, <1>3, PTL DEF Spec
=============================================================================

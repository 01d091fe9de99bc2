------------------------ MODULE SimBlockDeviceProofs ------------------------
(***************************************************************************)
(* Proof that the simulated HPS (SimBlockDevice) keeps the contract of a   *)
(* block-device server (HpsChannel), for every number of disks, sector     *)
(* size, mount delay, latency and set of addresses.                        *)
(*                                                                         *)
(* The one counter that times mount pulses and transfers alike must not    *)
(* run out on a disk that is current but has no transfer (FalseEnd).       *)
(* Only the CD target asks for a sector while the mount pulses last, and   *)
(* the arithmetic of its wait (Timed) says when that is safe.              *)
(***************************************************************************)
EXTENDS SimBlockDevice, SequenceTheorems, TLAPS

\* A sector has more than one word.
Sectored == BLKSZ >= 2

\* The counter runs out on the current disk while it has no transfer.
FalseEnd == stage = "ack" /\ turn = current_disk /\ ack_delay = 1 /\ Idle

-----------------------------------------------------------------------------
(* The inductive invariant *)

\* n words from position t on, each at its place in the buffer.
Run(t, n) == [k \in 1 .. n |-> <<k - 1, t + k - 1>>]

\* The first n words of the sector disk i was asked for.
Words(i, n) == Run(taken[i] * BLKSZ, n)

\* After disk i's data moved in its visit, and before the visit is over.
Visited(i) == turn = i /\ stage \in {"mount", "pickup", "ack"}

\* A transfer has a disk, and the counter does not run out under it.
Serving ==
  /\ ~(reading /\ writing)
  /\ ~Idle => current_disk # None /\ ack_delay >= 1

\* Only the current disk is acknowledged: in its transfer, or at its end until
\* the visit is over.  Its request is gone from the next clock edge on.
Acks ==
  \A i \in sd_ack :
    /\ current_disk = i
    /\ turn <= i => sd_req[i] = "none"
    /\ Idle => Visited(i) /\ log[i] = Words(i, BLKSZ)
    /\ ~Idle => ack_delay = 1

\* The words moved so far are the first ones of the sector.
Moved ==
  /\ DOMAIN log = Disks
  /\ ~Idle =>
       /\ pos[current_disk] = taken[current_disk] * BLKSZ + bytecnt
       /\ log[current_disk] = Words(current_disk, bytecnt)

\* Before the ack at most one word moves, in the visit that raises the ack.
Early ==
  ~Idle /\ current_disk \notin sd_ack =>
    \/ bytecnt = 0
    \/ bytecnt = 1 /\ Visited(current_disk) /\ ack_delay = 1

\* The core shows the word a write is to store next.
Shown ==
  writing =>
    /\ bytecnt < BLKSZ => sd_buff_addr = bytecnt
    /\ turn < current_disk \/ (turn = current_disk /\ stage = "transfer") =>
         q = sd_buff_addr

SimInv == Serving /\ Acks /\ Moved /\ Early /\ Shown

-----------------------------------------------------------------------------
(* Start-up: the shared counter, while the images are mounted *)

\* Visits between clock edge a of the CD's pulse and the one that finds its
\* request, and what is left of the pulse in that visit.
ToRequest(a) == (TOC_DELAY + 1 - a) * VDNUM
Lead         == MOUNT_DELAY - ToRequest(0)

\* Once the CD target waits, a round of visits takes VDNUM + 1 ticks: one for
\* each disk and one more for the current one.  With a disc in the drive the
\* pulse outlasts the wait for the request, and its last ticks do not fall on
\* the CD's own visit (1200, 2 and 10 in the code: Lead is 1170, 4 modulo 11).
Timed == CD \in Images => Lead > 0 /\ Lead % (VDNUM + 1) \notin {0, 1}

\* Disks this round has been past, and those since the CD's last visit.
Passed == IF stage \in {"transfer", "mount"} THEN turn ELSE turn + 1
Turns  == Passed - (CD + 1) + (IF turn <= CD THEN VDNUM ELSE 0)

\* The pulse ends whole rounds and x ticks after the request was found.
Beat(x) == \E k \in Nat : Lead = k * (VDNUM + 1) + x

Unasked(S) == \A i \in S : sd_req[i] = "none"

\* The CD's pulse, before its request is found: every visit has counted.
Waiting ==
  /\ Idle /\ current_disk = None
  /\ ack_delay = Lead + ToRequest(age) + (CD + 1) - Passed
  /\ age = 0 => Passed > CD
  /\ age <= TOC_DELAY => sd_req[CD] = "none"
  /\ age = TOC_DELAY + 1 => /\ sd_req[CD] = "rd"
                            /\ turn < CD \/ (turn = CD /\ stage # "ack")

\* The CD is the current disk and waits for its own pulse to run out.
Queued ==
  /\ Idle /\ current_disk = CD /\ sd_req[CD] = "rd" /\ age = TOC_DELAY + 1
  /\ turn = CD /\ stage = "ack" => ack_delay # 0
  /\ ack_delay # 0 => Beat(Turns + ack_delay - VDNUM)

\* The transfer began under the pulse: its first word ends the pulse.
Begun ==
  /\ ~Idle /\ current_disk = CD /\ age = TOC_DELAY + 1
  /\ \/ bytecnt = 0
     \/ bytecnt = 1 /\ turn = CD /\ stage = "mount" /\ ack_delay = 1

\* The transfer ended in this visit.
Ended ==
  /\ turn = CD /\ sd_req[CD] = "none"
  /\ \/ stage = "mount" /\ ack_delay = 1
     \/ stage \in {"pickup", "ack"} /\ ack_delay = 0

Mounts ==
  /\ known \subseteq Images /\ mountQueue \subseteq Images /\ img_mounted \subseteq Images
  /\ turn = VDNUM => stage = "transfer"
  /\ CD \in mountQueue => age = 0 /\ CD \notin img_mounted
  /\ Mounting => Unasked(Disks \ {CD})

DiscPulse ==
  CD \in img_mounted => img_mounted = {CD} /\ (Waiting \/ Queued \/ Begun)

\* Under another disk's pulse, or between two, only the CD's sector moves.
OtherPulse ==
  CD \notin img_mounted =>
    /\ age \in {0, TOC_DELAY + 1} /\ (age = 0 => CD \notin known)
    /\ Mounting => \/ Idle /\ current_disk = None /\ sd_req[CD] = "none"
                   \/ current_disk = CD /\ age = TOC_DELAY + 1 /\ (Idle => Ended)

\* Nothing is timed afterwards but transfers; the last tick of the last pulse
\* may be left over.
AllMounted ==
  ~Mounting /\ Idle /\ ack_delay # 0 =>
    /\ ack_delay = 1
    /\ stage = "transfer" => current_disk = None
    /\ stage \in {"pickup", "ack"} => current_disk = None /\ Unasked(Disks)

Starting == Mounts /\ DiscPulse /\ OtherPulse /\ AllMounted

-----------------------------------------------------------------------------
(* Types *)

LEMMA Bounds ==
  /\ VDNUM \in Nat /\ VDNUM >= 1 /\ BLKSZ \in Nat /\ BLKSZ >= 1
  /\ MOUNT_DELAY \in Nat /\ LATENCY \in Nat /\ LATENCY >= 1
  /\ Images \subseteq Disks /\ LBAs \subseteq Nat /\ 0 \in LBAs
  /\ CD \in Disks /\ TOC_DELAY \in Nat /\ TOC_DELAY >= 1
  /\ None \notin Disks /\ None \notin LBAs
<1>1. /\ VDNUM \in Nat /\ VDNUM >= 1 /\ BLKSZ \in Nat /\ BLKSZ >= 1
      /\ MOUNT_DELAY \in Nat /\ LATENCY \in Nat /\ LATENCY >= 1
      /\ Images \subseteq 0 .. VDNUM - 1 /\ LBAs \subseteq Nat /\ 0 \in LBAs
      /\ CD \in 0 .. VDNUM - 1 /\ TOC_DELAY \in Nat /\ TOC_DELAY >= 1
  BY DeviceAssumption
<1>2. None \notin Nat
  BY DEF None
<1>3. Disks \subseteq Nat
  BY <1>1 DEF Disks
<1> QED BY <1>1, <1>2, <1>3 DEF Disks

\* The position of a sector fits the int it is computed in.
LEMMA SeekIs ==
  ASSUME NEW l \in LBAs
  PROVE  SeekTo(l) = l * BLKSZ /\ l * BLKSZ \in Nat
<1>1. l \in Nat /\ BLKSZ \in Nat /\ BLKSZ >= 1 /\ INT_SPACE \in Nat
      /\ (l + 1) * BLKSZ <= INT_SPACE \div 2
  BY DeviceAssumption
<1>2. l * BLKSZ \in Nat /\ (l + 1) * BLKSZ = l * BLKSZ + BLKSZ
  BY <1>1
<1>3. INT_SPACE \div 2 <= INT_SPACE /\ INT_SPACE \div 2 \in Nat
  BY <1>1
<1> DEFINE p == l * BLKSZ
<1>4. p \in Nat /\ p < INT_SPACE
  BY <1>1, <1>2, <1>3
<1> HIDE DEF p
<1>5. p % INT_SPACE = p
  BY <1>1, <1>4
<1> QED BY <1>2, <1>5 DEF p, SeekTo

LEMMA TypeInit == Init => TypeOK
<1> SUFFICES ASSUME Init PROVE TypeOK
  OBVIOUS
<1>1. turn \in 0 .. VDNUM /\ ack_delay \in Nat /\ bytecnt \in 0 .. BLKSZ
      /\ sd_buff_addr \in 0 .. BLKSZ - 1 /\ q \in 0 .. BLKSZ - 1 /\ age \in 0 .. TOC_DELAY + 1
  BY Bounds DEF Init
<1>2. /\ sd_req \in [Disks -> {"none", "rd", "wr"}] /\ sd_lba \in [Disks -> LBAs]
      /\ taken \in [Disks -> LBAs] /\ pos \in [Disks -> Nat]
  BY Bounds DEF Init
<1>3. reading \in BOOLEAN /\ writing \in BOOLEAN /\ sd_buff_wr \in BOOLEAN
  BY DEF Init
<1>4. /\ mountQueue \subseteq Disks /\ img_mounted \subseteq Disks /\ sd_ack \subseteq Disks
      /\ busy \subseteq Disks /\ known \subseteq Disks
  BY Bounds DEF Init
<1>5. stage \in {"transfer", "mount", "pickup", "ack"} /\ current_disk \in Disks \cup {None}
  BY DEF Init
<1> QED BY <1>1, <1>2, <1>3, <1>4, <1>5 DEF TypeOK

LEMMA TransferTypes ==
  ASSUME TypeOK, turn < VDNUM, Transfer
  PROVE  TypeOK'
<1>0. /\ turn \in Disks /\ VDNUM \in Nat /\ BLKSZ \in Nat /\ BLKSZ >= 1 /\ bytecnt \in 0 .. BLKSZ
      /\ pos \in [Disks -> Nat]
  BY Bounds DEF TypeOK, Disks
<1>1. /\ stage' = "mount" /\ turn' = turn
      /\ UNCHANGED <<current_disk, ack_delay, mountQueue, sd_ack, img_mounted, coreVars>>
  BY DEF Transfer, At
<1>2. ASSUME /\ bytecnt' \in 0 .. BLKSZ /\ sd_buff_addr' \in 0 .. BLKSZ - 1
             /\ pos' \in [Disks -> Nat] /\ taken' = taken
             /\ reading' \in BOOLEAN /\ writing' \in BOOLEAN /\ sd_buff_wr' \in BOOLEAN
      PROVE  TypeOK'
  BY <1>1, <1>2 DEF TypeOK, coreVars
<1>3. pos[turn] + 1 \in Nat
  BY <1>0
<1>4. CASE Send
  <2>1. bytecnt' \in 0 .. BLKSZ /\ sd_buff_addr' \in 0 .. BLKSZ - 1
    BY <1>0, <1>4 DEF Send
  <2>2. pos' \in [Disks -> Nat] /\ taken' = taken
    BY <1>0, <1>3, <1>4 DEF Send
  <2>3. reading' \in BOOLEAN /\ writing' \in BOOLEAN /\ sd_buff_wr' \in BOOLEAN
    BY <1>4 DEF Send, TypeOK
  <2> QED BY <1>2, <2>1, <2>2, <2>3
<1>5. CASE Store
  <2>1. bytecnt' \in 0 .. BLKSZ /\ sd_buff_addr' \in 0 .. BLKSZ - 1
    BY <1>0, <1>5 DEF Store
  <2>2. pos' \in [Disks -> Nat] /\ taken' = taken
    BY <1>0, <1>3, <1>5 DEF Store
  <2>3. reading' \in BOOLEAN /\ writing' \in BOOLEAN /\ sd_buff_wr' \in BOOLEAN
    BY <1>5 DEF Store, TypeOK
  <2> QED BY <1>2, <2>1, <2>2, <2>3
<1>6. CASE Flush
  <2>1. sd_buff_addr' \in 0 .. BLKSZ - 1
    BY <1>0, <1>6 DEF Flush
  <2> QED BY <1>2, <1>6, <2>1 DEF Flush, TypeOK
<1>7. CASE Strobe
  BY <1>2, <1>7 DEF Strobe, TypeOK
<1>8. CASE UNCHANGED <<xferVars, sd_buff_addr>> /\ sd_buff_wr' \in {FALSE, sd_buff_wr}
  BY <1>2, <1>8 DEF xferVars, TypeOK
<1> QED BY <1>4, <1>5, <1>6, <1>7, <1>8 DEF Transfer

LEMMA MountTypes ==
  ASSUME TypeOK, turn < VDNUM, Mount
  PROVE  TypeOK'
<1>0. turn \in Disks /\ pos \in [Disks -> Nat] /\ MOUNT_DELAY \in Nat /\ ack_delay \in Nat
  BY Bounds DEF TypeOK, Disks
<1>1. /\ stage' = "pickup" /\ turn' = turn
      /\ UNCHANGED <<current_disk, reading, writing, bytecnt, taken, log, sd_ack,
                     sd_buff_wr, sd_buff_addr, coreVars>>
  BY DEF Mount, At
<1>2. ASSUME /\ mountQueue' \subseteq Disks /\ img_mounted' \subseteq Disks
             /\ pos' \in [Disks -> Nat] /\ ack_delay' \in Nat
      PROVE  TypeOK'
  BY <1>1, <1>2 DEF TypeOK, coreVars
<1>3. CASE Issue
  BY <1>0, <1>2, <1>3 DEF Issue, TypeOK
<1>4. CASE ClearPulse
  BY <1>2, <1>4 DEF ClearPulse, TypeOK
<1>5. CASE CountDown
  <2>1. ack_delay' = ack_delay \/ (ack_delay' = ack_delay - 1 /\ ack_delay > 0)
    BY <1>5 DEF CountDown
  <2>2. ack_delay' \in Nat
    BY <1>0, <2>1
  <2> QED BY <1>2, <1>5, <2>2 DEF CountDown, TypeOK
<1> QED BY <1>3, <1>4, <1>5 DEF Mount

LEMMA PickupTypes ==
  ASSUME TypeOK, turn < VDNUM, Pickup
  PROVE  TypeOK'
<1>0. turn \in Disks /\ pos \in [Disks -> Nat] /\ sd_lba[turn] \in LBAs /\ LATENCY \in Nat
      /\ taken \in [Disks -> LBAs]
  BY Bounds DEF TypeOK, Disks
<1>1. /\ stage' = "ack" /\ turn' = turn
      /\ UNCHANGED <<mountQueue, sd_ack, sd_buff_wr, img_mounted, coreVars>>
  BY DEF Pickup, At
<1>2. current_disk' \in Disks \cup {None}
  BY <1>0 DEF Pickup, TypeOK
<1>3. CASE Begin
  <2>1. bytecnt' \in 0 .. BLKSZ /\ sd_buff_addr' \in 0 .. BLKSZ - 1 /\ ack_delay' \in Nat
    BY <1>0, <1>3, Bounds DEF Begin
  <2>2. pos' \in [Disks -> Nat] /\ taken' \in [Disks -> LBAs]
    BY <1>0, <1>3, SeekIs DEF Begin
  <2>3. reading' \in BOOLEAN /\ writing' \in BOOLEAN
    BY <1>3 DEF Begin
  <2> QED BY <1>1, <1>2, <2>1, <2>2, <2>3 DEF TypeOK, coreVars
<1>4. CASE UNCHANGED <<ack_delay, xferVars, sd_buff_addr>>
  BY <1>1, <1>2, <1>4 DEF TypeOK, coreVars, xferVars
<1> QED BY <1>3, <1>4 DEF Pickup

LEMMA AcknowledgeTypes ==
  ASSUME TypeOK, turn < VDNUM, Acknowledge
  PROVE  TypeOK'
<1>0. turn \in Disks /\ turn + 1 \in 0 .. VDNUM /\ ack_delay \in Nat
  BY Bounds DEF TypeOK, Disks
<1>1. /\ stage' = "transfer" /\ turn' = turn + 1
      /\ UNCHANGED <<mountQueue, sd_buff_wr, sd_buff_addr, img_mounted, xferVars, coreVars>>
  BY DEF Acknowledge
<1>2. ack_delay' = ack_delay \/ (ack_delay' = ack_delay - 1 /\ ack_delay >= 1)
  <2>1. CASE ack_delay > 1 \/ (ack_delay = 1 /\ Idle)
    <3>1. ack_delay >= 1
      BY <1>0, <2>1
    <3> QED BY <2>1, <3>1 DEF Acknowledge
  <2>2. CASE ~(ack_delay > 1 \/ (ack_delay = 1 /\ Idle))
    BY <2>2 DEF Acknowledge
  <2> QED BY <2>1, <2>2
<1>3. ack_delay' \in Nat
  BY <1>0, <1>2
<1>4. sd_ack' \subseteq Disks /\ current_disk' \in Disks \cup {None}
  BY <1>0 DEF Acknowledge, TypeOK
<1> QED BY <1>0, <1>1, <1>3, <1>4 DEF TypeOK, coreVars, xferVars

LEMMA EdgeTypes ==
  ASSUME TypeOK, Edge,
         /\ sd_req' \in [Disks -> {"none", "rd", "wr"}]
         /\ sd_lba' \in [Disks -> LBAs] /\ busy' \subseteq Disks
  PROVE  TypeOK'
<1>1. turn' = 0 /\ 0 \in 0 .. VDNUM /\ age \in 0 .. TOC_DELAY + 1 /\ TOC_DELAY \in Nat
  BY Bounds DEF TypeOK, Edge
<1>2. age' = age \/ (age' = age + 1 /\ age <= TOC_DELAY)
  BY DEF Edge
<1>3. age' \in 0 .. TOC_DELAY + 1
  BY <1>1, <1>2
<1>4. /\ known' \subseteq Disks /\ q' = sd_buff_addr
      /\ UNCHANGED <<stage, current_disk, ack_delay, mountQueue, portVars, xferVars>>
  BY DEF Edge, TypeOK
<1> QED BY <1>1, <1>3, <1>4 DEF TypeOK, portVars, xferVars

LEMMA RequestTypes ==
  ASSUME TypeOK, NEW r \in SUBSET Disks, NEW kind \in {"rd", "wr"}, NEW l \in LBAs,
         Requests(r, kind, l)
  PROVE  /\ sd_req' \in [Disks -> {"none", "rd", "wr"}]
         /\ sd_lba' \in [Disks -> LBAs] /\ busy' \subseteq Disks
  BY DEF Requests, TypeOK

\* The ways the core's clock edge moves the request lines.
LEMMA EdgeForms ==
  ASSUME TypeOK, Quiet \/ ReadToc \/ Request \/ BusReset
  PROVE  /\ Edge
         /\ \/ \E r \in SUBSET Disks, kind \in {"rd", "wr"}, l \in LBAs : Requests(r, kind, l)
            \/ sd_req' = [i \in Disks |-> "none"] /\ busy' = {} /\ UNCHANGED sd_lba
<1>1. CASE Quiet
  BY <1>1, Bounds DEF Quiet
<1>2. CASE ReadToc
  BY <1>2, Bounds DEF ReadToc
<1>3. CASE Request
  BY <1>3 DEF Request, Free, TypeOK
<1>4. CASE BusReset
  BY <1>4 DEF BusReset
<1> QED BY <1>1, <1>2, <1>3, <1>4

LEMMA TypeStep ==
  ASSUME TypeOK, [Next]_vars
  PROVE  TypeOK'
<1>1. CASE Visit
  BY <1>1, TransferTypes, MountTypes, PickupTypes, AcknowledgeTypes DEF Visit
<1>2. CASE Quiet \/ ReadToc \/ Request \/ BusReset
  <2>1. Edge
    BY <1>2, EdgeForms
  <2>2. /\ sd_req' \in [Disks -> {"none", "rd", "wr"}]
        /\ sd_lba' \in [Disks -> LBAs] /\ busy' \subseteq Disks
    <3>1. CASE \E r \in SUBSET Disks, kind \in {"rd", "wr"}, l \in LBAs : Requests(r, kind, l)
      BY <3>1, RequestTypes
    <3>2. CASE sd_req' = [i \in Disks |-> "none"] /\ busy' = {} /\ UNCHANGED sd_lba
      BY <3>2 DEF TypeOK
    <3> QED BY <1>2, <3>1, <3>2, EdgeForms
  <2> QED BY <2>1, <2>2, EdgeTypes
<1>3. CASE UNCHANGED vars
  BY <1>3 DEF vars, portVars, xferVars, coreVars, TypeOK
<1> QED BY <1>1, <1>2, <1>3 DEF Next

\* The registers of the simulated HPS keep their types: the buffer address and
\* the word count stay inside the sector, the counter never goes below zero and
\* a file position is never negative.
THEOREM SimTypes == Spec => []TypeOK
<1>1. TypeOK /\ [Next]_vars => TypeOK'
  BY TypeStep
<1> QED BY <1>1, TypeInit, PTL DEF Spec

-----------------------------------------------------------------------------
(* Runs of words *)

LEMMA RunIs ==
  ASSUME NEW t \in Nat, NEW n \in Nat
  PROVE  /\ Run(t, n) \in Seq(Int \X Int) /\ Len(Run(t, n)) = n
         /\ \A k \in 1 .. n : Run(t, n)[k] = <<k - 1, t + k - 1>>
  BY DEF Run

LEMMA RunGrows ==
  ASSUME NEW t \in Nat, NEW n \in Nat
  PROVE  Append(Run(t, n), <<n, t + n>>) = Run(t, n + 1)
<1> DEFINE s == Run(t, n)
           e == <<n, t + n>>
           u == Run(t, n + 1)
<1>1. /\ s \in Seq(Int \X Int) /\ Len(s) = n
      /\ \A k \in 1 .. n : s[k] = <<k - 1, t + k - 1>>
  BY RunIs
<1>2. n + 1 \in Nat /\ e \in Int \X Int
  OBVIOUS
<1>3. /\ u \in Seq(Int \X Int) /\ Len(u) = n + 1
      /\ \A k \in 1 .. n + 1 : u[k] = <<k - 1, t + k - 1>>
  BY <1>2, RunIs
<1> HIDE DEF s, e, u
<1>4. /\ Append(s, e) \in Seq(Int \X Int) /\ Len(Append(s, e)) = n + 1
      /\ \A k \in 1 .. n : Append(s, e)[k] = s[k]
      /\ Append(s, e)[n + 1] = e
  BY <1>1, <1>2, AppendProperties
<1>5. \A k \in 1 .. n + 1 : Append(s, e)[k] = u[k]
  <2>1. (n + 1) - 1 = n /\ t + (n + 1) - 1 = t + n
    OBVIOUS
  <2>2. u[n + 1] = e
    BY <1>2, <1>3, <2>1 DEF e
  <2>3. ASSUME NEW k \in 1 .. n PROVE Append(s, e)[k] = u[k]
    <3>1. k \in 1 .. n + 1
      OBVIOUS
    <3> QED BY <1>1, <1>3, <1>4, <3>1
  <2>4. \A k \in 1 .. n + 1 : k \in 1 .. n \/ k = n + 1
    OBVIOUS
  <2> QED BY <1>4, <2>2, <2>3, <2>4
<1>6. Append(s, e) = u
  BY <1>3, <1>4, <1>5, SeqEqual
<1> QED BY <1>6 DEF s, e, u

LEMMA RunApart ==
  ASSUME NEW t \in Nat, NEW n \in Nat, NEW m \in Nat, Run(t, n) = Run(t, m)
  PROVE  n = m
  BY RunIs

LEMMA RunEmpty ==
  ASSUME NEW t \in Nat
  PROVE  Run(t, 0) = <<>>
<1>1. Run(t, 0) \in Seq(Int \X Int) /\ Len(Run(t, 0)) = 0
  BY RunIs
<1> QED BY <1>1, EmptySeq

-----------------------------------------------------------------------------
(* The invariant is preserved *)

\* What the proofs below need of the types.
LEMMA Basics ==
  ASSUME TypeOK, turn < VDNUM
  PROVE  /\ turn \in Disks /\ turn \in Nat /\ Disks \subseteq Nat /\ turn # None
         /\ taken[turn] * BLKSZ \in Nat /\ BLKSZ \in Nat /\ bytecnt \in Nat /\ ack_delay \in Nat
         /\ pos \in [Disks -> Nat]
<1>1. /\ turn \in 0 .. VDNUM /\ VDNUM \in Nat /\ BLKSZ \in Nat /\ bytecnt \in 0 .. BLKSZ
      /\ taken \in [Disks -> LBAs] /\ LBAs \subseteq Nat /\ ack_delay \in Nat /\ pos \in [Disks -> Nat]
  BY Bounds DEF TypeOK
<1>2. turn \in Disks /\ Disks \subseteq Nat
  BY <1>1 DEF Disks
<1>3. taken[turn] \in Nat
  BY <1>1, <1>2
<1>4. taken[turn] * BLKSZ \in Nat
  BY <1>1, <1>3
<1> QED BY <1>1, <1>2, <1>4, Bounds

\* A word moves: it is the next one of the sector.
LEMMA WordStep ==
  ASSUME Sectored, TypeOK, turn < VDNUM, SimInv, Transfer, current_disk = turn, ack_delay = 1,
         ~Idle, bytecnt < BLKSZ, bytecnt' = bytecnt + 1, taken' = taken,
         log' = [log EXCEPT ![turn] = Append(@, <<bytecnt, pos[turn]>>)],
         pos' = [pos EXCEPT ![turn] = @ + 1], reading' = reading, writing' = writing
  PROVE  Serving' /\ Acks' /\ Moved' /\ Early'
<1>0. /\ turn \in Disks /\ turn # None /\ taken[turn] * BLKSZ \in Nat /\ bytecnt \in Nat
      /\ pos \in [Disks -> Nat] /\ DOMAIN log = Disks /\ DOMAIN log' = Disks
  BY Basics DEF SimInv, Moved
<1>1. /\ stage = "transfer" /\ stage' = "mount" /\ turn' = turn
      /\ UNCHANGED <<current_disk, ack_delay, mountQueue, sd_ack, img_mounted, sd_req>>
  BY DEF Transfer, At, coreVars
<1>2. ~Idle' /\ current_disk' = turn
  BY <1>1 DEF Idle
<1>3. Serving'
  BY <1>1, <1>2 DEF SimInv, Serving, Idle
<1>4. Acks'
  <2> SUFFICES ASSUME NEW i \in sd_ack'
               PROVE  /\ current_disk' = i
                      /\ turn' <= i => sd_req'[i] = "none"
                      /\ ~Idle' => ack_delay' = 1
    BY <1>2 DEF Acks
  <2> QED BY <1>1 DEF SimInv, Acks
<1>5. Moved'
  <2>1. pos[turn] = taken[turn] * BLKSZ + bytecnt /\ log[turn] = Run(taken[turn] * BLKSZ, bytecnt)
    BY DEF SimInv, Moved, Words
  <2>2. pos'[turn] = taken[turn] * BLKSZ + (bytecnt + 1)
    <3>1. pos'[turn] = pos[turn] + 1
      BY <1>0
    <3> QED BY <1>0, <2>1, <3>1
  <2>3. log'[turn] = Append(log[turn], <<bytecnt, pos[turn]>>)
    BY <1>0
  <2>4. log'[turn] = Run(taken[turn] * BLKSZ, bytecnt + 1)
    BY <1>0, <2>1, <2>3, RunGrows
  <2> QED BY <1>0, <1>2, <2>2, <2>4 DEF Moved, Words
<1>6. Early'
  <2> SUFFICES ASSUME turn \notin sd_ack
               PROVE  bytecnt' = 1
    BY <1>1, <1>2 DEF Early, Visited
  <2>1. bytecnt = 0
    BY <1>1 DEF SimInv, Early, Visited
  <2> QED BY <2>1
<1> QED BY <1>3, <1>4, <1>5, <1>6

LEMMA TransferStep ==
  ASSUME Sectored, TypeOK, turn < VDNUM, SimInv, Transfer
  PROVE  SimInv'
<1>0. /\ turn \in Disks /\ turn # None /\ taken[turn] * BLKSZ \in Nat /\ bytecnt \in 0 .. BLKSZ
      /\ BLKSZ \in Nat /\ BLKSZ >= 2 /\ turn \in Nat
  BY Basics DEF TypeOK, Sectored
<1>1. /\ stage = "transfer" /\ stage' = "mount" /\ turn' = turn
      /\ UNCHANGED <<current_disk, ack_delay, mountQueue, sd_ack, img_mounted, sd_req, q>>
  BY DEF Transfer, At, coreVars
<1>2. Idle => sd_ack = {}
  BY <1>1 DEF SimInv, Acks, Visited
<1>3. CASE UNCHANGED <<xferVars, sd_buff_addr>>
  <2>1. UNCHANGED <<reading, writing, bytecnt, pos, taken, log, sd_buff_addr>>
    BY <1>3 DEF xferVars
  <2>2. Serving'
    BY <1>1, <2>1 DEF SimInv, Serving, Idle
  <2>3. Acks'
    BY <1>1, <1>2, <2>1 DEF SimInv, Acks, Idle
  <2>4. Moved'
    BY <1>1, <2>1 DEF SimInv, Moved, Words, Idle
  <2>5. Early'
    BY <1>1, <2>1 DEF SimInv, Early, Visited, Idle
  <2>6. Shown'
    BY <1>1, <2>1 DEF SimInv, Shown
  <2> QED BY <2>2, <2>3, <2>4, <2>5, <2>6 DEF SimInv
<1>4. ASSUME current_disk = turn, ack_delay = 1, Send
      PROVE  SimInv'
  <2>1. reading /\ ~Idle /\ ~writing' /\ writing' = writing /\ reading' = reading
    BY <1>4 DEF Send, Idle, SimInv, Serving
  <2>2. Serving' /\ Acks' /\ Moved' /\ Early'
    BY <1>4, <2>1, WordStep DEF Send
  <2> QED BY <2>1, <2>2 DEF SimInv, Shown
<1>5. ASSUME current_disk = turn, ack_delay = 1, Store
      PROVE  SimInv'
  <2>1. writing /\ ~Idle /\ writing' = writing /\ reading' = reading /\ bytecnt < BLKSZ
    BY <1>5 DEF Store, Idle
  <2>2. q = bytecnt
    BY <1>1, <1>5, <2>1 DEF SimInv, Shown
  <2>3. Serving' /\ Acks' /\ Moved' /\ Early'
    BY <1>5, <2>1, <2>2, WordStep DEF Store
  <2>4. Shown'
    <3>1. bytecnt' < BLKSZ => sd_buff_addr' = bytecnt'
      BY <1>5 DEF Store
    <3>2. ~(turn' < current_disk') /\ stage' # "transfer"
      BY <1>0, <1>1, <1>5
    <3> QED BY <3>1, <3>2 DEF Shown
  <2> QED BY <2>3, <2>4 DEF SimInv
<1>6. ASSUME current_disk = turn, ack_delay = 1, ~Idle, bytecnt >= BLKSZ, Idle',
             UNCHANGED <<bytecnt, pos, taken, log>>
      PROVE  SimInv'
  <2>1. bytecnt = BLKSZ /\ turn \in sd_ack
    BY <1>0, <1>1, <1>6 DEF SimInv, Early, Visited
  <2>2. log[turn] = Words(turn, BLKSZ)
    BY <1>6, <2>1 DEF SimInv, Moved
  <2>3. Acks'
    <3> SUFFICES ASSUME NEW i \in sd_ack'
                 PROVE  /\ current_disk' = i
                        /\ turn' <= i => sd_req'[i] = "none"
                        /\ Visited(i)' /\ log'[i] = Words(i, BLKSZ)'
      BY <1>6 DEF Acks
    <3>1. i = turn
      BY <1>1, <1>6 DEF SimInv, Acks
    <3>2. Visited(i)'
      BY <1>1, <3>1 DEF Visited
    <3>3. log'[i] = Words(i, BLKSZ)'
      BY <1>6, <2>2, <3>1 DEF Words
    <3> QED BY <1>1, <1>6, <3>1, <3>2, <3>3 DEF SimInv, Acks
  <2>4. ~reading' /\ ~writing'
    BY <1>6 DEF Idle
  <2> QED BY <1>6, <2>3, <2>4 DEF SimInv, Serving, Moved, Early, Shown
<1>7. ASSUME current_disk = turn, ack_delay = 1, Flush
      PROVE  SimInv'
  <2>1. writing /\ ~reading /\ ~writing' /\ ~reading' /\ ~Idle /\ Idle'
    BY <1>7 DEF Flush, Idle, SimInv, Serving
  <2> QED BY <1>6, <1>7, <2>1 DEF Flush
<1>8. ASSUME current_disk = turn, ack_delay = 1, Strobe
      PROVE  SimInv'
  <2>1. ~writing /\ writing' = writing /\ UNCHANGED <<bytecnt, pos, taken, log, sd_buff_addr>>
    BY <1>8 DEF Strobe
  <2>2. reading' = (reading /\ bytecnt < BLKSZ)
    BY <1>8 DEF Strobe
  <2>3. CASE reading /\ ~(bytecnt < BLKSZ)
    <3>1. ~Idle /\ Idle'
      BY <2>1, <2>2, <2>3, Zenon DEF Idle
    <3>2. bytecnt >= BLKSZ
      BY <1>0, <2>3
    <3> QED BY <1>6, <1>8, <2>1, <3>1, <3>2
  <2>4. CASE ~(reading /\ ~(bytecnt < BLKSZ))
    <3>1. reading \in BOOLEAN
      BY DEF TypeOK
    <3>2. reading' = reading
      <4>1. CASE reading
        <5>1. bytecnt < BLKSZ
          BY <2>4, <4>1
        <5> QED BY <2>2, <3>1, <4>1, <5>1, Zenon
      <4>2. CASE ~reading
        BY <2>2, <3>1, <4>2, Zenon
      <4> QED BY <4>1, <4>2
    <3> QED BY <1>3, <2>1, <3>2 DEF xferVars
  <2> QED BY <2>3, <2>4
<1> QED BY <1>3, <1>4, <1>5, <1>7, <1>8 DEF Transfer

LEMMA MountStep ==
  ASSUME TypeOK, turn < VDNUM, SimInv, Mount
  PROVE  SimInv'
<1>0. turn \in Disks /\ pos \in [Disks -> Nat]
  BY Basics
<1>1. /\ stage = "mount" /\ stage' = "pickup" /\ turn' = turn
      /\ UNCHANGED <<current_disk, reading, writing, bytecnt, taken, log, sd_ack,
                     sd_buff_addr, sd_req, q>>
  BY DEF Mount, At, coreVars
<1>2. Idle' <=> Idle
  BY <1>1 DEF Idle
<1>3. ~Idle => pos' = pos /\ ack_delay' = ack_delay
  BY DEF Mount, Issue, ClearPulse, CountDown
<1>4. Serving'
  BY <1>1, <1>2, <1>3 DEF SimInv, Serving
<1>5. Acks'
  <2> SUFFICES ASSUME NEW i \in sd_ack'
               PROVE  /\ current_disk' = i
                      /\ turn' <= i => sd_req'[i] = "none"
                      /\ Idle' => Visited(i)' /\ log'[i] = Words(i, BLKSZ)'
                      /\ ~Idle' => ack_delay' = 1
    BY DEF Acks
  <2>1. Visited(i) => Visited(i)'
    BY <1>1 DEF Visited
  <2>2. Words(i, BLKSZ)' = Words(i, BLKSZ)
    BY <1>1 DEF Words
  <2> QED BY <1>1, <1>2, <1>3, <2>1, <2>2 DEF SimInv, Acks
<1>6. Moved'
  BY <1>1, <1>2, <1>3 DEF SimInv, Moved, Words
<1>7. Early'
  BY <1>1, <1>2, <1>3 DEF SimInv, Early, Visited
<1>8. Shown'
  BY <1>1 DEF SimInv, Shown
<1> QED BY <1>4, <1>5, <1>6, <1>7, <1>8 DEF SimInv

LEMMA PickupStep ==
  ASSUME Sectored, TypeOK, turn < VDNUM, SimInv, Pickup
  PROVE  SimInv'
<1>0. /\ turn \in Disks /\ turn \in Nat /\ turn # None /\ pos \in [Disks -> Nat]
      /\ BLKSZ \in Nat /\ BLKSZ >= 2 /\ ack_delay \in Nat
  BY Basics DEF Sectored
<1>1. /\ stage = "pickup" /\ stage' = "ack" /\ turn' = turn
      /\ UNCHANGED <<sd_ack, sd_req, q, sd_lba>>
  BY DEF Pickup, At, coreVars
<1>2. \A i : Visited(i) => Visited(i)'
  BY <1>1 DEF Visited
<1>3. ASSUME Begin, current_disk \in {None, turn}, sd_req[turn] # "none", current_disk' = turn
      PROVE  SimInv'
  <2>1. Idle
    BY <1>0, <1>3 DEF Begin, SimInv, Serving
  <2>2. sd_ack = {}
    <3>1. \A i \in sd_ack : i = turn
      BY <1>3, Bounds DEF SimInv, Acks, TypeOK
    <3>2. turn <= turn
      BY <1>0
    <3> QED BY <1>3, <3>1, <3>2 DEF SimInv, Acks
  <2>3. sd_lba[turn] \in LBAs /\ sd_req[turn] \in {"none", "rd", "wr"} /\ taken \in [Disks -> LBAs]
        /\ DOMAIN log = Disks
    BY <1>0 DEF TypeOK, SimInv, Moved
  <2>4. reading' <=> sd_req[turn] = "rd"
    BY <1>3, <2>1 DEF Begin, Idle
  <2>5. writing' <=> sd_req[turn] = "wr"
    BY <1>3, <2>1 DEF Begin, Idle
  <2>6. bytecnt' = 0 /\ sd_buff_addr' = 0 /\ ack_delay' >= 1
    BY <1>3, Bounds DEF Begin
  <2>7. Serving'
    BY <1>0, <1>3, <2>4, <2>5, <2>6 DEF Serving
  <2>8. Moved'
    <3>1. taken'[turn] = sd_lba[turn] /\ pos'[turn] = SeekTo(sd_lba[turn]) /\ log'[turn] = <<>>
          /\ DOMAIN log' = Disks
      BY <1>0, <1>3, <2>3 DEF Begin
    <3>2. SeekTo(sd_lba[turn]) = sd_lba[turn] * BLKSZ /\ sd_lba[turn] * BLKSZ \in Nat
      BY <2>3, SeekIs
    <3>3. pos'[turn] = taken'[turn] * BLKSZ + bytecnt'
      BY <2>6, <3>1, <3>2
    <3>4. log'[turn] = Run(taken'[turn] * BLKSZ, bytecnt')
      BY <2>6, <3>1, <3>2, RunEmpty
    <3> QED BY <1>3, <3>1, <3>3, <3>4 DEF Moved, Words
  <2>9. Shown'
    BY <1>0, <1>1, <1>3, <2>6 DEF Shown
  <2> QED BY <1>1, <2>2, <2>6, <2>7, <2>8, <2>9 DEF SimInv, Acks, Early
<1>4. ASSUME UNCHANGED <<ack_delay, xferVars, sd_buff_addr>>,
             current_disk' = current_disk \/ (current_disk = None /\ current_disk' = turn)
      PROVE  SimInv'
  <2>1. UNCHANGED <<ack_delay, reading, writing, bytecnt, pos, taken, log, sd_buff_addr>>
    BY <1>4 DEF xferVars
  <2>2. Idle' <=> Idle
    BY <2>1 DEF Idle
  <2>3. ~Idle => current_disk' = current_disk
    BY <1>4 DEF SimInv, Serving
  <2>4. sd_ack # {} => current_disk' = current_disk
    BY <1>4, Bounds DEF SimInv, Acks, TypeOK
  <2>5. Serving'
    BY <2>1, <2>2, <2>3 DEF SimInv, Serving
  <2>6. Acks'
    <3> SUFFICES ASSUME NEW i \in sd_ack'
                 PROVE  /\ current_disk' = i
                        /\ turn' <= i => sd_req'[i] = "none"
                        /\ Idle' => Visited(i)' /\ log'[i] = Words(i, BLKSZ)'
                        /\ ~Idle' => ack_delay' = 1
      BY DEF Acks
    <3>1. Words(i, BLKSZ)' = Words(i, BLKSZ)
      BY <2>1 DEF Words
    <3> QED BY <1>1, <1>2, <2>1, <2>2, <2>4, <3>1 DEF SimInv, Acks
  <2>7. Moved'
    BY <2>1, <2>2, <2>3 DEF SimInv, Moved, Words
  <2>8. Early'
    BY <1>1, <1>2, <2>1, <2>2, <2>3 DEF SimInv, Early
  <2>9. Shown'
    <3>1. writing => ~Idle
      BY DEF Idle
    <3> QED BY <1>1, <2>1, <2>3, <3>1 DEF SimInv, Shown
  <2> QED BY <2>5, <2>6, <2>7, <2>8, <2>9 DEF SimInv
<1>5. CASE current_disk \in {None, turn} /\ sd_req[turn] # "none"
  <2>1. current_disk' = turn /\ (Begin \/ UNCHANGED <<ack_delay, xferVars, sd_buff_addr>>)
    BY <1>5 DEF Pickup
  <2> QED BY <1>3, <1>4, <1>5, <2>1
<1>6. CASE ~(current_disk \in {None, turn} /\ sd_req[turn] # "none")
  <2>1. UNCHANGED <<current_disk, ack_delay, xferVars, sd_buff_addr>>
    BY <1>6 DEF Pickup
  <2> QED BY <1>4, <2>1
<1> QED BY <1>5, <1>6

LEMMA AcknowledgeStep ==
  ASSUME Sectored, TypeOK, turn < VDNUM, SimInv, ~FalseEnd, Acknowledge
  PROVE  SimInv'
<1>0. /\ turn \in Disks /\ turn \in Nat /\ turn # None /\ Disks \subseteq Nat
      /\ BLKSZ \in Nat /\ BLKSZ >= 2 /\ ack_delay \in Nat /\ sd_ack \subseteq Disks
  BY Basics DEF Sectored, TypeOK
<1>1. /\ stage = "ack" /\ stage' = "transfer" /\ turn' = turn + 1
      /\ UNCHANGED <<reading, writing, bytecnt, pos, taken, log, sd_buff_addr, sd_req, q>>
  BY DEF Acknowledge, xferVars, coreVars
<1>2. Idle' <=> Idle
  BY <1>1 DEF Idle
<1>3. CASE current_disk # turn
  <2>1. UNCHANGED <<sd_ack, ack_delay, current_disk>>
    BY <1>3 DEF Acknowledge
  <2>2. Serving'
    BY <1>1, <1>2, <2>1 DEF SimInv, Serving
  <2>3. Acks'
    <3> SUFFICES ASSUME NEW i \in sd_ack'
                 PROVE  /\ current_disk' = i
                        /\ turn' <= i => sd_req'[i] = "none"
                        /\ ~Idle'
                        /\ ack_delay' = 1
      BY DEF Acks
    <3>1. i \in Nat /\ i \in sd_ack /\ current_disk = i
      BY <1>0, <2>1 DEF SimInv, Acks
    <3>2. turn' <= i => turn <= i
      BY <1>0, <1>1, <3>1
    <3>3. ~Idle
      BY <1>3, <3>1 DEF SimInv, Acks, Visited
    <3> QED BY <1>1, <1>2, <2>1, <3>1, <3>2, <3>3 DEF SimInv, Acks
  <2>4. Moved'
    BY <1>1, <1>2, <2>1 DEF SimInv, Moved, Words
  <2>5. Early'
    BY <1>1, <1>2, <1>3, <2>1 DEF SimInv, Early, Visited
  <2>6. Shown'
    <3>1. ASSUME writing,
                 turn' < current_disk \/ (turn' = current_disk /\ stage' = "transfer")
          PROVE  turn < current_disk
      <4>1. current_disk \in Nat
        BY <1>0, <3>1 DEF SimInv, Serving, TypeOK, Idle
      <4> QED BY <1>0, <1>1, <3>1, <4>1
    <3> QED BY <1>1, <2>1, <3>1 DEF SimInv, Shown
  <2> QED BY <2>2, <2>3, <2>4, <2>5, <2>6 DEF SimInv
<1>4. CASE current_disk = turn
  <2>1. \A i \in sd_ack : i = turn
    BY <1>4 DEF SimInv, Acks
  <2>2. CASE Idle
    <3>1. ack_delay # 1
      BY <1>1, <1>4, <2>2 DEF FalseEnd
    <3>2. sd_ack' = {}
      BY <1>4, <2>1, <3>1 DEF Acknowledge
    <3>3. ~reading' /\ ~writing' /\ Idle'
      BY <1>1, <1>2, <2>2 DEF Idle
    <3> QED BY <1>1, <3>2, <3>3 DEF SimInv, Serving, Acks, Moved, Early, Shown
  <2>3. CASE ~Idle
    <3>1. current_disk' = turn
      BY <1>4, <2>3 DEF Acknowledge
    <3>2. ack_delay >= 1
      BY <2>3 DEF SimInv, Serving
    <3>3. /\ ack_delay = 1 => ack_delay' = 1 /\ sd_ack' = {turn}
          /\ ack_delay > 1 => ack_delay' = ack_delay - 1 /\ sd_ack' = {}
      <4>1. CASE ack_delay = 1
        <5>1. ~(ack_delay > 1)
          BY <4>1
        <5>2. ack_delay' = ack_delay /\ sd_ack' = sd_ack \cup {turn}
          BY <1>4, <2>3, <4>1, <5>1 DEF Acknowledge
        <5> QED BY <2>1, <4>1, <5>1, <5>2
      <4>2. CASE ack_delay > 1
        <5>1. ack_delay # 1
          BY <1>0, <4>2
        <5>2. ack_delay' = ack_delay - 1 /\ sd_ack' = sd_ack \ {turn}
          BY <1>4, <4>2, <5>1 DEF Acknowledge
        <5> QED BY <2>1, <5>1, <5>2
      <4> QED BY <1>0, <3>2, <4>1, <4>2
    <3>4. (ack_delay = 1 \/ ack_delay > 1) /\ ack_delay' >= 1
      BY <1>0, <3>2, <3>3
    <3>5. Serving'
      BY <1>0, <1>1, <1>2, <3>1, <3>4 DEF SimInv, Serving
    <3>6. Acks'
      <4>1. ~(turn' <= turn)
        BY <1>0, <1>1
      <4> QED BY <1>2, <2>3, <3>1, <3>3, <3>4, <4>1 DEF Acks
    <3>7. Moved'
      BY <1>1, <1>2, <1>4, <3>1 DEF SimInv, Moved, Words
    <3>8. Early'
      <4>1. ASSUME ack_delay > 1 PROVE bytecnt = 0
        <5>1. ack_delay # 1
          BY <1>0, <4>1
        <5>2. turn \notin sd_ack
          BY <2>3, <5>1 DEF SimInv, Acks
        <5> QED BY <1>4, <2>3, <5>1, <5>2 DEF SimInv, Early
      <4> QED BY <1>1, <3>1, <3>3, <3>4, <4>1 DEF Early
    <3>9. Shown'
      <4>1. ~(turn' < turn) /\ turn' # turn
        BY <1>0, <1>1
      <4> QED BY <1>1, <3>1, <4>1 DEF SimInv, Shown
    <3> QED BY <3>5, <3>6, <3>7, <3>8, <3>9 DEF SimInv
  <2> QED BY <2>2, <2>3
<1> QED BY <1>3, <1>4

LEMMA EdgeStep ==
  ASSUME TypeOK, SimInv, Quiet \/ ReadToc \/ Request \/ BusReset
  PROVE  SimInv'
<1>1. Edge
  BY EdgeForms
<1>2. /\ turn = VDNUM /\ turn' = 0 /\ q' = sd_buff_addr
      /\ UNCHANGED <<stage, current_disk, ack_delay, sd_ack, sd_buff_addr, reading, writing,
                     bytecnt, pos, taken, log>>
  BY <1>1 DEF Edge, portVars, xferVars
<1>3. Idle' <=> Idle
  BY <1>2 DEF Idle
<1>4. VDNUM \notin Disks
  BY Bounds DEF Disks
<1>5. \A i \in sd_ack : ~Visited(i)
  BY <1>2, <1>4 DEF Visited, TypeOK
<1>6. \A i \in sd_ack : sd_req'[i] = "none"
  <2>1. sd_ack \subseteq Disks
    BY DEF TypeOK
  <2>2. CASE \E r \in SUBSET Disks, kind \in {"rd", "wr"}, l \in LBAs : Requests(r, kind, l)
    BY <2>1, <2>2 DEF Requests
  <2>3. CASE sd_req' = [i \in Disks |-> "none"]
    BY <2>1, <2>3
  <2> QED BY <2>2, <2>3, EdgeForms
<1>7. Serving'
  BY <1>2, <1>3 DEF SimInv, Serving
<1>8. Acks'
  BY <1>2, <1>3, <1>5, <1>6 DEF SimInv, Acks
<1>9. Moved'
  BY <1>2, <1>3 DEF SimInv, Moved, Words
<1>10. Early'
  <2>1. ~Idle => ~Visited(current_disk)
    BY <1>2, <1>4 DEF SimInv, Serving, Visited, TypeOK
  <2> QED BY <1>2, <1>3, <2>1 DEF SimInv, Early
<1>11. Shown'
  BY <1>2 DEF SimInv, Shown
<1> QED BY <1>7, <1>8, <1>9, <1>10, <1>11 DEF SimInv

LEMMA SimInit == Init => SimInv
<1> SUFFICES ASSUME Init PROVE SimInv
  OBVIOUS
<1>1. ~reading /\ ~writing /\ sd_ack = {} /\ DOMAIN log = Disks
  BY DEF Init
<1> QED BY <1>1 DEF SimInv, Serving, Acks, Moved, Early, Shown, Idle

LEMMA SimStep ==
  ASSUME Sectored, TypeOK, SimInv, ~FalseEnd, [Next]_vars
  PROVE  SimInv'
<1>1. CASE Visit
  BY <1>1, TransferStep, MountStep, PickupStep, AcknowledgeStep DEF Visit
<1>2. CASE Quiet \/ ReadToc \/ Request \/ BusReset
  BY <1>2, EdgeStep
<1>3. CASE UNCHANGED vars
  BY <1>3 DEF vars, portVars, xferVars, coreVars, SimInv, Serving, Acks, Moved, Early, Shown,
              Visited, Words, Idle
<1> QED BY <1>1, <1>2, <1>3 DEF Next

-----------------------------------------------------------------------------
(* Refinement *)

\* A channel as the core sees it, and the sector its last answer moved whole.
St(i) == IF i \in sd_ack THEN "ack"
         ELSE IF current_disk = i /\ ~Idle THEN "busy" ELSE "idle"
Mv(i) == IF log[i] = Words(i, BLKSZ) THEN taken[i] ELSE None

Rests(i) == /\ St(i)' = St(i) /\ taken'[i] = taken[i]
            /\ Mv(i)' = Mv(i) \/ St(i) = "ack"
Takes(i) == St(i) = "idle" /\ St(i)' = "busy" /\ taken'[i] \in LBAs /\ Mv(i)' = None
Rises(i) == St(i) = "busy" /\ St(i)' = "ack" /\ taken'[i] = taken[i] /\ Mv(i)' = None
Falls(i) == St(i) = "ack" /\ St(i)' = "idle" /\ taken'[i] = taken[i] /\ Mv(i)' = taken[i]

LEMMA MapStep ==
  ASSUME \A i \in Disks : Rests(i) \/ Takes(i) \/ Rises(i) \/ Falls(i),
         \A i, j \in Disks : St(i)' # "idle" /\ St(j)' # "idle" => i = j
  PROVE  Channel!Next
<1> DEFINE st == [i \in Disks |-> IF i \in sd_ack THEN "ack"
                       ELSE IF current_disk = i /\ ~Idle THEN "busy" ELSE "idle"]
           mv == [i \in Disks |-> IF log[i] = [k \in 1 .. BLKSZ |->
                                          <<k - 1, taken[i] * BLKSZ + k - 1>>]
                                  THEN taken[i] ELSE None]
<1>1. \A i \in Disks : st[i] = St(i) /\ st'[i] = St(i)'
  BY DEF St
<1>2. \A i \in Disks : mv[i] = Mv(i) /\ mv'[i] = Mv(i)'
  BY DEF Mv, Words, Run
<1> HIDE DEF st, mv
<1>3. \A i \in Disks :
        \/ /\ st'[i] = st[i] /\ taken'[i] = taken[i]
           /\ mv'[i] = mv[i] \/ st[i] = "ack"
        \/ st[i] = "idle" /\ st'[i] = "busy" /\ taken'[i] \in LBAs /\ mv'[i] = None
        \/ st[i] = "busy" /\ st'[i] = "ack" /\ taken'[i] = taken[i] /\ mv'[i] = None
        \/ st[i] = "ack" /\ st'[i] = "idle" /\ taken'[i] = taken[i] /\ mv'[i] = taken'[i]
  BY <1>1, <1>2 DEF Rests, Takes, Rises, Falls
<1>4. \A i, j \in Disks : st'[i] # "idle" /\ st'[j] # "idle" => i = j
  BY <1>1
<1>5. \A i \in Disks :
        \/ /\ st'[i] = st[i] /\ taken'[i] = taken[i]
           /\ mv'[i] = mv[i] \/ st[i] = "ack"
        \/ st[i] = "idle" /\ st'[i] = "busy" /\ taken'[i] \in LBAs /\ mv'[i] = None
        \/ st[i] = "busy" /\ st'[i] = "ack" /\ taken'[i] = taken[i] /\ mv'[i] = None
        \/ st[i] = "ack" /\ st'[i] = "idle" /\ taken'[i] = taken[i] /\ mv'[i] = taken[i]
  BY <1>3
<1> QED BY <1>4, <1>5 DEF Channel!Next, Channel!Rest, Channel!Take, Channel!Rise, Channel!Fall, st, mv

\* Only the current disk is served.
LEMMA OneServed ==
  ASSUME SimInv'
  PROVE  \A i, j \in Disks : St(i)' # "idle" /\ St(j)' # "idle" => i = j
  BY DEF SimInv, Acks, St

\* Before the ack the sector is not whole.
NotWhole ==
  Sectored /\ TypeOK /\ SimInv /\ ~Idle /\ current_disk \notin sd_ack => Mv(current_disk) = None

LEMMA BeforeAck == NotWhole
<1> SUFFICES ASSUME Sectored, TypeOK, SimInv, ~Idle, current_disk \notin sd_ack
             PROVE  log[current_disk] # Words(current_disk, BLKSZ)
  BY DEF NotWhole, Mv
<1>1. current_disk \in Disks /\ taken \in [Disks -> LBAs] /\ LBAs \subseteq Nat
      /\ BLKSZ \in Nat /\ BLKSZ >= 2
  BY Bounds DEF SimInv, Serving, TypeOK, Sectored
<1>2. taken[current_disk] \in Nat
  BY <1>1
<1>3. taken[current_disk] * BLKSZ \in Nat
  BY <1>1, <1>2
<1>4. (bytecnt = 0 \/ bytecnt = 1) /\ log[current_disk] = Run(taken[current_disk] * BLKSZ, bytecnt)
  BY DEF SimInv, Early, Moved, Words
<1>5. bytecnt \in Nat /\ bytecnt # BLKSZ
  BY <1>1, <1>4
<1> QED BY <1>1, <1>3, <1>4, <1>5, RunApart DEF Words

LEMMA BeforeAckNext == NotWhole'
  BY BeforeAck, PTL

LEMMA TransferMaps ==
  ASSUME Sectored, TypeOK, TypeOK', turn < VDNUM, SimInv, SimInv', Transfer, NEW i \in Disks
  PROVE  Rests(i)
<1>0. turn \in Disks /\ DOMAIN log = Disks
  BY Basics DEF SimInv, Moved
<1>1. UNCHANGED <<current_disk, sd_ack, taken>> /\ stage = "transfer"
  BY DEF Transfer, At, Send, Store, Flush, Strobe, xferVars
<1>2. i # turn \/ current_disk # turn \/ Idle => log'[i] = log[i]
  BY <1>0 DEF Transfer, Send, Store, Flush, Strobe, xferVars, Idle
<1>3. CASE i \in sd_ack
  BY <1>1, <1>3 DEF Rests, St
<1>4. CASE i \notin sd_ack /\ current_disk = i
  <2>1. Idle' <=> Idle
    <3>1. CASE UNCHANGED <<reading, writing>>
      BY <3>1 DEF Idle
    <3>2. CASE Send \/ Store
      BY <3>1, <3>2 DEF Send, Store
    <3>3. ~Idle => bytecnt < BLKSZ /\ ~(bytecnt >= BLKSZ)
      <4>1. ~Idle => bytecnt = 0
        BY <1>1, <1>4 DEF SimInv, Early, Visited
      <4>2. BLKSZ \in Nat /\ BLKSZ >= 2
        BY Bounds DEF Sectored
      <4> QED BY <4>1, <4>2
    <3>4. CASE Flush
      BY <3>3, <3>4 DEF Flush, Idle
    <3>5. CASE Strobe
      <4>1. writing' = writing /\ reading' = (reading /\ bytecnt < BLKSZ)
        BY <3>5 DEF Strobe
      <4> QED BY <3>3, <4>1, Zenon DEF Idle
    <3> QED BY <3>1, <3>2, <3>4, <3>5 DEF Transfer, xferVars
  <2>2. St(i)' = St(i)
    BY <1>1, <2>1 DEF St
  <2>3. CASE Idle
    BY <1>1, <1>2, <2>2, <2>3 DEF Rests, Mv, Words
  <2>4. CASE ~Idle
    <3>1. Mv(current_disk) = None
      BY <1>4, <2>4, BeforeAck DEF NotWhole
    <3>2. Mv(current_disk)' = None
      BY <1>1, <1>4, <2>1, <2>4, BeforeAckNext DEF NotWhole
    <3>3. Mv(i)' = Mv(current_disk)' /\ Mv(i) = Mv(current_disk)
      BY <1>1, <1>4 DEF Mv, Words
    <3> QED BY <1>1, <2>2, <3>1, <3>2, <3>3 DEF Rests
  <2> QED BY <2>3, <2>4
<1>5. CASE i \notin sd_ack /\ current_disk # i
  <2>1. log'[i] = log[i]
    BY <1>2, <1>5
  <2> QED BY <1>1, <1>5, <2>1 DEF Rests, St, Mv, Words
<1> QED BY <1>3, <1>4, <1>5

\* A step that moves no data and changes no ack.
LEMMA StillMaps ==
  ASSUME UNCHANGED <<sd_ack, reading, writing, taken, log>>,
         ~Idle => current_disk' = current_disk, NEW i \in Disks
  PROVE  Rests(i)
  BY DEF Rests, St, Mv, Words, Idle

LEMMA PickupMaps ==
  ASSUME Sectored, TypeOK, TypeOK', turn < VDNUM, SimInv, SimInv', Pickup, NEW i \in Disks
  PROVE  Rests(i) \/ Takes(i)
<1>0. turn \in Disks /\ turn \in Nat /\ turn # None /\ DOMAIN log = Disks /\ taken \in [Disks -> LBAs]
  BY Basics DEF SimInv, Moved, TypeOK
<1>1. UNCHANGED <<sd_ack, sd_req>>
  BY DEF Pickup, coreVars
<1>2. CASE ~Begin \/ ~(current_disk \in {None, turn} /\ sd_req[turn] # "none")
  <2>1. UNCHANGED <<reading, writing, taken, log>>
    BY <1>2 DEF Pickup, xferVars
  <2>2. ~Idle => current_disk' = current_disk
    BY DEF Pickup, SimInv, Serving
  <2> QED BY <1>1, <2>1, <2>2, StillMaps
<1>3. CASE Begin /\ current_disk \in {None, turn} /\ sd_req[turn] # "none"
  <2>1. current_disk' = turn
    BY <1>3 DEF Pickup
  <2>2. Idle
    BY <1>3 DEF Begin, SimInv, Serving
  <2>3. sd_ack = {}
    <3>1. \A j \in sd_ack : j = turn
      BY <1>3, Bounds DEF SimInv, Acks, TypeOK
    <3>2. turn <= turn
      BY <1>0
    <3> QED BY <1>3, <3>1, <3>2 DEF SimInv, Acks
  <2>4. ~Idle'
    <3>1. sd_req[turn] \in {"rd", "wr"}
      BY <1>0, <1>3 DEF TypeOK
    <3> QED BY <1>3, <3>1 DEF Begin, Idle
  <2>5. CASE i = turn
    <3>1. taken'[i] \in LBAs
      BY DEF TypeOK
    <3>2. Mv(current_disk)' = None
      BY <1>1, <2>3, <2>4, BeforeAckNext DEF NotWhole
    <3>3. Mv(i)' = Mv(current_disk)'
      BY <2>1, <2>5 DEF Mv, Words
    <3> QED BY <1>1, <2>1, <2>2, <2>3, <2>4, <2>5, <3>1, <3>2, <3>3 DEF Takes, St
  <2>6. CASE i # turn
    <3>1. taken'[i] = taken[i] /\ log'[i] = log[i]
      BY <1>0, <1>3, <2>6 DEF Begin
    <3> QED BY <1>1, <2>1, <2>2, <2>3, <2>6, <3>1 DEF Rests, St, Mv, Words
  <2> QED BY <2>5, <2>6
<1> QED BY <1>2, <1>3

LEMMA AcknowledgeMaps ==
  ASSUME Sectored, TypeOK, turn < VDNUM, SimInv, ~FalseEnd, Acknowledge, NEW i \in Disks
  PROVE  Rests(i) \/ Rises(i) \/ Falls(i)
<1>0. ack_delay \in Nat /\ turn # None
  BY Basics
<1>1. stage = "ack" /\ UNCHANGED <<reading, writing, taken, log>>
  BY DEF Acknowledge, xferVars
<1>2. CASE current_disk # turn
  BY <1>1, <1>2, StillMaps DEF Acknowledge
<1>3. CASE current_disk = turn
  <2>1. \A j \in sd_ack : j = turn
    BY <1>3 DEF SimInv, Acks
  <2>2. /\ Mv(i)' = Mv(i) /\ taken'[i] = taken[i] /\ (Idle' <=> Idle)
        /\ current_disk' \in {None, turn} /\ (~Idle => current_disk' = turn)
    BY <1>1, <1>3 DEF Acknowledge, Mv, Words, Idle
  <2>3. CASE i # turn
    <3>1. i \notin sd_ack /\ i \notin sd_ack'
      BY <2>1, <2>3 DEF Acknowledge
    <3>2. current_disk' # i
      BY <2>2, <2>3, Bounds
    <3> QED BY <1>3, <2>2, <2>3, <3>1, <3>2 DEF Rests, St
  <2>4. CASE i = turn /\ Idle
    <3>1. ack_delay # 1
      BY <1>1, <1>3, <2>4 DEF FalseEnd
    <3>2. i \notin sd_ack'
      BY <1>3, <2>4, <3>1 DEF Acknowledge
    <3>3. St(i)' = "idle"
      BY <2>2, <2>4, <3>2 DEF St
    <3>4. CASE i \in sd_ack
      <4>1. Mv(i) = taken[i]
        BY <2>4, <3>4 DEF SimInv, Acks, Mv
      <4> QED BY <2>2, <3>3, <3>4, <4>1 DEF Falls, St
    <3>5. CASE i \notin sd_ack
      BY <2>2, <2>4, <3>3, <3>5 DEF Rests, St
    <3> QED BY <3>4, <3>5
  <2>5. CASE i = turn /\ ~Idle
    <3>1. CASE ack_delay = 1
      <4>1. St(i)' = "ack"
        BY <1>3, <2>5, <3>1 DEF Acknowledge, St
      <4>2. CASE i \in sd_ack
        BY <2>2, <4>1, <4>2 DEF Rests, St
      <4>3. CASE i \notin sd_ack
        <5>1. Mv(i) = None
          BY <1>3, <2>5, <4>3, BeforeAck DEF NotWhole
        <5> QED BY <1>3, <2>2, <2>5, <4>1, <4>3, <5>1 DEF Rises, St
      <4> QED BY <4>2, <4>3
    <3>2. CASE ack_delay # 1
      <4>1. i \notin sd_ack
        BY <2>5, <3>2 DEF SimInv, Acks
      <4>2. i \notin sd_ack'
        BY <1>3, <2>5, <3>2 DEF Acknowledge
      <4> QED BY <1>3, <2>2, <2>5, <4>1, <4>2 DEF Rests, St
    <3> QED BY <3>1, <3>2
  <2> QED BY <2>3, <2>4, <2>5
<1> QED BY <1>2, <1>3

LEMMA EdgeMaps ==
  ASSUME TypeOK, Quiet \/ ReadToc \/ Request \/ BusReset, NEW i \in Disks
  PROVE  Rests(i)
<1>1. Edge
  BY EdgeForms
<1> QED BY <1>1, StillMaps DEF Edge, portVars, xferVars

LEMMA MountMaps ==
  ASSUME Mount, NEW i \in Disks
  PROVE  Rests(i)
  BY StillMaps DEF Mount

LEMMA ChannelStep ==
  ASSUME Sectored, TypeOK, TypeOK', SimInv, SimInv', ~FalseEnd, [Next]_vars
  PROVE  [Channel!Next]_Channel!vars
<1>1. CASE Next
  <2>1. \A i \in Disks : Rests(i) \/ Takes(i) \/ Rises(i) \/ Falls(i)
    <3>1. CASE Visit
      BY <3>1, TransferMaps, MountMaps, PickupMaps, AcknowledgeMaps DEF Visit
    <3>2. CASE Quiet \/ ReadToc \/ Request \/ BusReset
      BY <3>2, EdgeMaps
    <3> QED BY <1>1, <3>1, <3>2 DEF Next
  <2>2. Channel!Next
    BY <2>1, OneServed, MapStep
  <2> QED BY <2>2
<1>2. CASE UNCHANGED vars
  BY <1>2 DEF vars, portVars, xferVars, coreVars, Channel!vars, Idle
<1> QED BY <1>1, <1>2

LEMMA ChannelInit ==
  ASSUME Init
  PROVE  Channel!Init
<1>1. ~(current_disk # None) /\ sd_ack = {} /\ Idle
  BY DEF Init, Idle
<1>2. taken \in [Disks -> LBAs] /\ \A i \in Disks : taken[i] = 0 /\ log[i] = <<>>
  BY Bounds DEF Init
<1>3. \A i \in Disks : log[i] # [k \in 1 .. BLKSZ |-> <<k - 1, taken[i] * BLKSZ + k - 1>>]
  <2> SUFFICES ASSUME NEW i \in Disks, log[i] = Run(taken[i] * BLKSZ, BLKSZ)
               PROVE  FALSE
    BY DEF Run
  <2>1. BLKSZ \in Nat /\ BLKSZ >= 1 /\ taken[i] = 0
    BY <1>2, Bounds
  <2>2. taken[i] * BLKSZ \in Nat
    BY <2>1
  <2>3. log[i] = Run(taken[i] * BLKSZ, 0)
    BY <1>2, <2>2, RunEmpty
  <2> QED BY <2>1, <2>2, <2>3, RunApart
<1> QED BY <1>1, <1>2, <1>3 DEF Channel!Init

\* As long as the shared counter never runs out on an idle current disk, the
\* simulated HPS serves one channel at a time, raises an ack only for a transfer
\* it has begun, and drops it only when exactly the words of the sector asked
\* for have moved, each between its buffer address and its place in the file
\* (SimBlockDevice::BeforeEval).
THEOREM ChannelKept == ASSUME Sectored PROVE Spec /\ []~FalseEnd => ImplementsChannel
<1>1. Init => TypeOK /\ SimInv /\ Channel!Init
  BY TypeInit, SimInit, ChannelInit
<1>2. TypeOK /\ SimInv /\ ~FalseEnd /\ [Next]_vars => TypeOK' /\ SimInv'
  BY TypeStep, SimStep
<1>3. TypeOK /\ SimInv /\ ~FalseEnd /\ TypeOK' /\ SimInv' /\ [Next]_vars
        => [Channel!Next]_Channel!vars
  BY ChannelStep
<1> QED BY <1>1, <1>2, <1>3, PTL DEF Spec, ImplementsChannel, Channel!Spec

-----------------------------------------------------------------------------
(* Start-up *)

LEMMA ToRequestIs ==
  /\ \A a \in 0 .. TOC_DELAY + 1 : ToRequest(a) \in Nat
  /\ \A a \in 0 .. TOC_DELAY : ToRequest(a) = ToRequest(a + 1) + VDNUM
  /\ ToRequest(TOC_DELAY + 1) = 0
<1>1. TOC_DELAY \in Nat /\ VDNUM \in Nat
  BY Bounds
<1>2. ASSUME NEW a \in 0 .. TOC_DELAY + 1 PROVE ToRequest(a) \in Nat
  <2>1. PICK b \in Nat : b = TOC_DELAY + 1 - a
    BY <1>1
  <2>2. b * VDNUM \in Nat
    BY <1>1
  <2> QED BY <2>1, <2>2 DEF ToRequest
<1>3. ASSUME NEW a \in 0 .. TOC_DELAY PROVE ToRequest(a) = ToRequest(a + 1) + VDNUM
  <2>1. PICK b \in Nat : b = TOC_DELAY - a
    BY <1>1
  <2>2. TOC_DELAY + 1 - a = b + 1 /\ TOC_DELAY + 1 - (a + 1) = b
    BY <1>1, <2>1
  <2>3. (b + 1) * VDNUM = b * VDNUM + VDNUM
    BY <1>1
  <2> QED BY <2>2, <2>3 DEF ToRequest
<1>4. ToRequest(TOC_DELAY + 1) = 0
  <2>1. TOC_DELAY + 1 - (TOC_DELAY + 1) = 0 /\ 0 * VDNUM = 0
    BY <1>1
  <2> QED BY <2>1 DEF ToRequest
<1> QED BY <1>2, <1>3, <1>4

LEMMA DivMod ==
  ASSUME NEW a \in Nat, NEW r \in Nat, r > 0
  PROVE  a = r * (a \div r) + (a % r) /\ a \div r \in Nat /\ a % r \in 0 .. r - 1
  OBVIOUS

LEMMA RemainderIs ==
  ASSUME NEW r \in Nat, r > 0, NEW k \in Nat, NEW m \in 0 .. r - 1, NEW a \in Nat, a = k * r + m
  PROVE  a % r = m
<1> DEFINE p == a \div r
           n == a % r
<1>1. a = r * p + n /\ p \in Nat /\ n \in 0 .. r - 1
  BY DivMod
<1> HIDE DEF p, n
<1>2. r * (p - k) = m - n
  <2>1. r * (p - k) = r * p - k * r /\ r * p \in Nat /\ k * r \in Nat
    BY <1>1
  <2> QED BY <1>1, <2>1
<1>3. CASE p - k >= 1
  <2>1. r * (p - k) >= r
    BY <1>1, <1>3
  <2> QED BY <1>1, <1>2, <2>1
<1>4. CASE p - k <= -1
  <2>1. r * (p - k) <= -r
    BY <1>1, <1>4
  <2> QED BY <1>1, <1>2, <2>1
<1>5. CASE p - k = 0
  <2>1. r * (p - k) = 0
    BY <1>1, <1>5
  <2>2. m = n
    BY <1>1, <1>2, <2>1
  <2> QED BY <2>2 DEF n
<1> QED BY <1>1, <1>3, <1>4, <1>5

LEMMA LeadIs ==
  ASSUME Timed, CD \in Images
  PROVE  /\ Lead \in Nat /\ Lead >= 2 /\ ~Beat(0) /\ ~Beat(1) /\ Beat(Lead)
         /\ MOUNT_DELAY = Lead + ToRequest(0)
<1>1. Lead > 0 /\ Lead % (VDNUM + 1) # 0 /\ Lead % (VDNUM + 1) # 1
  BY DEF Timed
<1>2. MOUNT_DELAY \in Nat /\ ToRequest(0) \in Nat /\ VDNUM \in Nat /\ VDNUM >= 1
  BY Bounds, ToRequestIs
<1>3. Lead \in Nat /\ MOUNT_DELAY = Lead + ToRequest(0)
  BY <1>1, <1>2 DEF Lead
<1>4. PICK c \in Nat : c = VDNUM + 1 /\ c >= 2
  BY <1>2
<1>5. ASSUME NEW k \in Nat, NEW x \in {0, 1}, Lead = k * c + x
      PROVE  FALSE
  <2>1. x \in 0 .. c - 1 /\ c > 0
    BY <1>4
  <2>2. Lead % c = x
    BY <1>3, <1>5, <2>1, RemainderIs
  <2> QED BY <1>1, <1>4, <2>2
<1>6. ~Beat(0) /\ ~Beat(1)
  BY <1>4, <1>5 DEF Beat
<1>7. Beat(Lead) /\ Lead # 1
  <2>1. 0 * c + Lead = Lead
    BY <1>3, <1>4
  <2>2. Beat(Lead)
    BY <1>4, <2>1 DEF Beat
  <2> QED BY <1>6, <2>2
<1>8. Lead >= 2
  BY <1>1, <1>3, <1>7
<1> QED BY <1>3, <1>6, <1>7, <1>8

\* A round later the pulse is a round shorter.
LEMMA BeatRound ==
  ASSUME NEW x \in Int, Beat(x)
  PROVE  Beat(x - (VDNUM + 1))
<1>1. PICK c \in Nat : c = VDNUM + 1
  BY Bounds
<1>2. PICK k \in Nat : Lead = k * c + x
  BY <1>1 DEF Beat
<1>3. k + 1 \in Nat /\ (k + 1) * c + (x - c) = k * c + x
  BY <1>1
<1> QED BY <1>1, <1>2, <1>3 DEF Beat

\* What the steps below need of the types.
LEMMA Places ==
  ASSUME TypeOK
  PROVE  /\ turn \in 0 .. VDNUM /\ VDNUM \in Nat /\ CD \in Nat /\ CD < VDNUM /\ CD \in Disks
         /\ ack_delay \in Nat /\ age \in 0 .. TOC_DELAY + 1 /\ TOC_DELAY \in Nat /\ TOC_DELAY >= 1
         /\ None # CD /\ Disks \subseteq Nat
<1>1. CD \in Disks /\ VDNUM \in Nat /\ TOC_DELAY \in Nat /\ TOC_DELAY >= 1 /\ None \notin Disks
  BY Bounds
<1>2. CD \in Nat /\ CD < VDNUM /\ Disks \subseteq Nat
  BY <1>1 DEF Disks
<1> QED BY <1>1, <1>2 DEF TypeOK

\* The pulse outlasts the wait for the request.
LEMMA WaitingLong ==
  ASSUME Timed, TypeOK, Mounts, CD \in img_mounted, Waiting
  PROVE  ack_delay >= Lead /\ Lead \in Nat /\ Lead >= 2 /\ (Passed <= CD => ack_delay > Lead)
<1>0. CD \in Images
  BY DEF Mounts
<1>1. Lead \in Nat /\ Lead >= 2
  BY <1>0, LeadIs
<1>2. /\ turn \in 0 .. VDNUM /\ VDNUM \in Nat /\ CD \in Nat /\ CD < VDNUM
      /\ age \in 0 .. TOC_DELAY + 1 /\ TOC_DELAY \in Nat
  BY Places
<1>3. Passed \in Nat /\ Passed <= VDNUM
  BY <1>2 DEF Passed, Mounts
<1>4. PICK r \in Nat : r = ToRequest(age)
  BY <1>2, ToRequestIs
<1>5. ack_delay = Lead + r + (CD + 1) - Passed
  BY <1>4 DEF Waiting
<1>6. CASE age = TOC_DELAY + 1
  <2>1. Passed <= CD + 1
    BY <1>2, <1>6 DEF Waiting, Passed
  <2> QED BY <1>1, <1>2, <1>3, <1>5, <2>1
<1>7. CASE age # TOC_DELAY + 1
  <2>1. age \in 0 .. TOC_DELAY /\ age + 1 \in 0 .. TOC_DELAY + 1
    BY <1>2, <1>7
  <2>2. r = ToRequest(age + 1) + VDNUM /\ ToRequest(age + 1) \in Nat
    BY <1>4, <2>1, ToRequestIs
  <2>3. r >= VDNUM
    BY <1>2, <2>2
  <2> QED BY <1>1, <1>2, <1>3, <1>5, <2>3
<1> QED BY <1>6, <1>7

LEMMA StartInit == Init => Starting
<1> SUFFICES ASSUME Init PROVE Starting
  OBVIOUS
<1>1. /\ current_disk = None /\ ack_delay = 0 /\ mountQueue = Images /\ img_mounted = {}
      /\ known = {} /\ age = 0 /\ stage = "transfer"
      /\ \A i \in Disks : sd_req[i] = "none"
  BY DEF Init
<1>2. Idle /\ CD \in Disks
  BY Bounds DEF Init, Idle
<1> QED BY <1>1, <1>2 DEF Starting, Mounts, DiscPulse, OtherPulse, AllMounted, Unasked

LEMMA StartTransfer ==
  ASSUME Sectored, TypeOK, turn < VDNUM, SimInv, Starting, Transfer
  PROVE  Starting'
<1>0. /\ turn \in Disks /\ turn # None /\ CD \in Disks /\ CD # None /\ turn # VDNUM
      /\ BLKSZ \in Nat /\ BLKSZ >= 2 /\ bytecnt \in 0 .. BLKSZ /\ turn \in Nat /\ CD \in Nat
  BY Basics, Places DEF Sectored, TypeOK
<1>1. /\ stage = "transfer" /\ stage' = "mount" /\ turn' = turn
      /\ UNCHANGED <<current_disk, ack_delay, mountQueue, img_mounted, sd_ack, sd_req, known, age>>
  BY DEF Transfer, At, coreVars
<1>2. /\ Passed' = Passed /\ Turns' = Turns /\ (Mounting' <=> Mounting)
  BY <1>1 DEF Passed, Turns, Mounting
<1>3. current_disk # turn => UNCHANGED <<reading, writing, bytecnt>>
  BY DEF Transfer, xferVars
<1>4. Idle => Idle'
  BY DEF Transfer, Send, Store, Flush, Strobe, xferVars, Idle
<1>5. ASSUME ~Idle, Idle'
      PROVE  current_disk = turn /\ ack_delay = 1 /\ bytecnt >= BLKSZ
  <2>1. current_disk = turn /\ ack_delay = 1 /\ (Flush \/ Strobe)
    BY <1>5 DEF Transfer, Send, Store, xferVars, Idle
  <2>2. Strobe => ~(bytecnt < BLKSZ)
    BY <1>5, Zenon DEF Strobe, Idle
  <2> QED BY <1>0, <2>1, <2>2 DEF Flush
<1>6. ~Idle /\ bytecnt = 0 =>
        bytecnt' = 0 \/ (bytecnt' = 1 /\ current_disk = turn /\ ack_delay = 1)
  BY <1>0 DEF Transfer, Send, Store, Flush, Strobe, xferVars, Idle
<1>7. Mounts'
  BY <1>0, <1>1, <1>2 DEF Starting, Mounts, Unasked
<1>8. DiscPulse'
  <2> SUFFICES ASSUME CD \in img_mounted
               PROVE  img_mounted = {CD} /\ (Waiting' \/ Queued' \/ Begun')
    BY <1>1 DEF DiscPulse
  <2>1. CASE Waiting
    <3>1. Idle' /\ ToRequest(age)' = ToRequest(age) /\ Lead' = Lead
      BY <1>1, <1>4, <2>1 DEF Waiting, ToRequest, Lead
    <3> QED BY <1>1, <1>2, <2>1, <3>1 DEF Waiting, Starting, DiscPulse
  <2>2. CASE Queued
    BY <1>1, <1>2, <1>4, <2>2 DEF Queued, Starting, DiscPulse, Beat, Lead, ToRequest
  <2>3. CASE Begun
    <3>1. bytecnt = 0 /\ ~Idle
      BY <1>1, <2>3 DEF Begun
    <3>2. ~Idle'
      BY <1>0, <1>5, <3>1
    <3> QED BY <1>1, <1>6, <2>3, <3>1, <3>2 DEF Begun, Starting, DiscPulse
  <2> QED BY <2>1, <2>2, <2>3 DEF Starting, DiscPulse
<1>9. OtherPulse'
  <2>1. ASSUME ~Idle, Idle', current_disk = CD PROVE Ended'
    <3>1. turn = CD /\ ack_delay = 1 /\ bytecnt # 0
      BY <1>0, <1>5, <2>1
    <3>2. CD \in sd_ack
      BY <1>1, <2>1, <3>1 DEF SimInv, Early, Visited
    <3>3. turn <= CD
      BY <1>0, <3>1
    <3>4. sd_req[CD] = "none"
      BY <3>2, <3>3 DEF SimInv, Acks
    <3> QED BY <1>1, <3>1, <3>4 DEF Ended
  <2>2. ~Ended
    BY <1>1 DEF Ended
  <2> QED BY <1>0, <1>1, <1>2, <1>3, <1>4, <2>1, <2>2 DEF Starting, OtherPulse
<1>10. AllMounted'
  BY <1>1, <1>2, <1>5 DEF Starting, AllMounted
<1> QED BY <1>7, <1>8, <1>9, <1>10 DEF Starting

LEMMA StartMount ==
  ASSUME Timed, TypeOK, turn < VDNUM, SimInv, Starting, Mount
  PROVE  Starting'
<1>0. /\ turn \in Disks /\ turn \in Nat /\ CD \in Disks /\ CD \in Nat /\ CD < VDNUM /\ turn # VDNUM
      /\ VDNUM \in Nat /\ ack_delay \in Nat /\ age \in 0 .. TOC_DELAY + 1
      /\ TOC_DELAY \in Nat /\ TOC_DELAY >= 1
  BY Basics, Places
<1>1. /\ stage = "mount" /\ stage' = "pickup" /\ turn' = turn
      /\ UNCHANGED <<current_disk, reading, writing, bytecnt, sd_req, known, age>>
  BY DEF Mount, At, coreVars
<1>2. (Idle' <=> Idle) /\ Passed = turn /\ Passed' = turn + 1 /\ Turns' = Turns + 1 /\ Turns \in Int
  BY <1>0, <1>1 DEF Idle, Passed, Turns
<1>3. CASE Issue
  <2>1. Mounting /\ Mounting' /\ CD \notin img_mounted /\ img_mounted' = {turn} /\ Idle
    BY <1>3 DEF Issue, Mounting
  <2>2. turn = CD => age = 0
    BY <1>3 DEF Issue, Starting, Mounts
  <2>3. current_disk = None /\ sd_req[CD] = "none"
    <3>1. age = 0 => age # TOC_DELAY + 1
      BY <1>0
    <3> QED BY <2>1, <2>2, <3>1 DEF Starting, OtherPulse, Ended
  <2>4. Mounts'
    BY <1>0, <1>1, <1>3, <2>1 DEF Issue, Starting, Mounts, Unasked
  <2>5. DiscPulse'
    <3> SUFFICES ASSUME turn = CD PROVE Waiting'
      BY <2>1 DEF DiscPulse
    <3>1. CD \in Images
      BY <1>3 DEF Issue, Starting, Mounts
    <3>2. MOUNT_DELAY = Lead + ToRequest(0) /\ Lead \in Nat /\ ToRequest(0) \in Nat
      BY <1>0, <3>1, LeadIs, ToRequestIs
    <3>3. ack_delay' = Lead + ToRequest(0) + (CD + 1) - Passed'
      BY <1>0, <1>2, <1>3, <3>2 DEF Issue
    <3>4. age' = 0 /\ 0 # TOC_DELAY + 1 /\ Passed' > CD
      BY <1>0, <1>1, <1>2, <2>2
    <3> QED BY <1>1, <1>2, <2>1, <2>3, <3>3, <3>4 DEF Waiting, Lead, ToRequest
  <2>6. OtherPulse'
    BY <1>1, <1>2, <2>1, <2>3 DEF Starting, OtherPulse
  <2> QED BY <2>1, <2>4, <2>5, <2>6 DEF Starting, AllMounted
<1>4. CASE ClearPulse
  <2>1. /\ Mounting /\ ack_delay = 1 /\ ack_delay' = 1 /\ turn \in img_mounted
        /\ mountQueue' = mountQueue /\ img_mounted' = img_mounted \ {turn}
    BY <1>4 DEF ClearPulse, Mounting
  <2>2. Mounts'
    BY <1>0, <1>1, <2>1 DEF Starting, Mounts, Unasked
  <2>3. CASE CD \in img_mounted
    <3>1. turn = CD /\ CD \in Images /\ CD \notin img_mounted'
      BY <2>1, <2>3 DEF Starting, DiscPulse, Mounts
    <3>2. ~Waiting
      BY <1>0, <2>1, <2>3, WaitingLong DEF Starting
    <3>3. ~Queued
      <4>1. turn <= CD
        BY <1>0, <3>1
      <4>2. Turns = CD - (CD + 1) + VDNUM
        BY <1>2, <3>1, <4>1 DEF Turns
      <4>3. Turns + ack_delay - VDNUM = 0
        BY <1>0, <2>1, <4>2
      <4> QED BY <2>1, <3>1, <4>3, LeadIs DEF Queued
    <3>4. Begun
      BY <2>3, <3>2, <3>3 DEF Starting, DiscPulse
    <3>5. ~Idle' /\ current_disk' = CD /\ age' = TOC_DELAY + 1 /\ 0 # TOC_DELAY + 1
      BY <1>0, <1>1, <1>2, <3>4 DEF Begun
    <3>6. DiscPulse' /\ OtherPulse' /\ AllMounted'
      BY <3>1, <3>5 DEF DiscPulse, OtherPulse, AllMounted
    <3> QED BY <2>2, <3>6 DEF Starting
  <2>4. CASE CD \notin img_mounted
    <3>1. ~Ended /\ CD \notin img_mounted'
      BY <2>1, <2>4 DEF Ended
    <3>2. CASE Idle
      <4>1. current_disk = None /\ sd_req[CD] = "none"
        BY <2>1, <2>4, <3>1, <3>2 DEF Starting, OtherPulse
      <4>2. Unasked(Disks)'
        BY <1>1, <2>1, <4>1 DEF Starting, Mounts, Unasked
      <4> QED BY <1>1, <1>2, <2>1, <2>2, <2>4, <3>1, <3>2, <4>1, <4>2
              DEF Starting, DiscPulse, OtherPulse, AllMounted
    <3>3. CASE ~Idle
      BY <1>1, <1>2, <2>1, <2>2, <2>4, <3>1, <3>3
         DEF Starting, DiscPulse, OtherPulse, AllMounted
    <3> QED BY <3>2, <3>3
  <2> QED BY <2>3, <2>4
<1>5. CASE CountDown
  <2>1. UNCHANGED <<mountQueue, img_mounted>>
    BY <1>5 DEF CountDown
  <2>2. Mounting' <=> Mounting
    BY <2>1 DEF Mounting
  <2>3. /\ Idle /\ ack_delay # 0 => ack_delay' = ack_delay - 1
        /\ ~Idle \/ ack_delay = 0 => ack_delay' = ack_delay
    <3>1. ack_delay # 0 <=> ack_delay > 0
      BY <1>0
    <3> QED BY <1>5, <3>1 DEF CountDown
  <2>4. Mounts'
    BY <1>0, <1>1, <2>1, <2>2 DEF Starting, Mounts, Unasked
  <2>5. DiscPulse'
    <3> SUFFICES ASSUME CD \in img_mounted
                 PROVE  img_mounted = {CD} /\ (Waiting' \/ Queued' \/ Begun')
      BY <2>1 DEF DiscPulse
    <3>1. CASE Waiting
      <4>1. ack_delay >= Lead /\ Lead \in Nat /\ Lead >= 2
        BY <3>1, WaitingLong DEF Starting
      <4>2. ack_delay' = ack_delay - 1
        BY <1>0, <2>3, <3>1, <4>1 DEF Waiting
      <4>3. PICK r \in Nat : r = ToRequest(age)
        BY <1>0, ToRequestIs
      <4>4. ack_delay' = Lead + r + (CD + 1) - Passed'
        BY <1>0, <1>2, <3>1, <4>1, <4>2, <4>3 DEF Waiting
      <4>5. age' = 0 => Passed' > CD
        BY <1>0, <1>1, <1>2, <3>1 DEF Waiting
      <4>6. ack_delay' = (Lead + ToRequest(age) + (CD + 1) - Passed)'
        BY <1>1, <4>3, <4>4 DEF Lead, ToRequest
      <4> QED BY <1>1, <1>2, <3>1, <4>5, <4>6 DEF Waiting, Starting, DiscPulse
    <3>2. CASE Queued
      <4>1. ack_delay' # 0 => Turns' + ack_delay' - VDNUM = Turns + ack_delay - VDNUM /\ ack_delay # 0
        BY <1>0, <1>2, <2>3, <3>2 DEF Queued
      <4>2. ack_delay' # 0 => Beat(Turns + ack_delay - VDNUM)'
        BY <3>2, <4>1 DEF Queued, Beat, Lead, ToRequest
      <4> QED BY <1>1, <1>2, <3>2, <4>2 DEF Queued, Starting, DiscPulse
    <3>3. CASE Begun
      <4>1. img_mounted = {CD} /\ bytecnt = 0
        BY <1>5, <3>3 DEF Begun, CountDown, Starting, DiscPulse
      <4> QED BY <1>1, <1>2, <3>3, <4>1 DEF Begun
    <3> QED BY <3>1, <3>2, <3>3 DEF Starting, DiscPulse
  <2>6. OtherPulse'
    <3>1. Idle /\ Ended => Ended'
      BY <1>1, <2>3 DEF Ended
    <3> QED BY <1>1, <1>2, <2>1, <2>2, <3>1 DEF Starting, OtherPulse
  <2>7. AllMounted'
    <3>1. Idle /\ ~Mounting => ack_delay' = 0
      BY <2>3 DEF Starting, AllMounted
    <3> QED BY <1>2, <2>2, <3>1 DEF AllMounted
  <2> QED BY <2>4, <2>5, <2>6, <2>7 DEF Starting
<1> QED BY <1>3, <1>4, <1>5 DEF Mount

LEMMA StartPickup ==
  ASSUME Timed, TypeOK, turn < VDNUM, SimInv, Starting, Pickup
  PROVE  Starting'
<1>0. /\ turn \in Disks /\ turn \in Nat /\ turn # None /\ CD \in Disks /\ CD \in Nat
      /\ CD < VDNUM /\ turn # VDNUM /\ VDNUM \in Nat /\ ack_delay \in Nat /\ CD # None
      /\ age \in 0 .. TOC_DELAY + 1 /\ TOC_DELAY \in Nat
  BY Basics, Places
<1>1. /\ stage = "pickup" /\ stage' = "ack" /\ turn' = turn
      /\ UNCHANGED <<mountQueue, img_mounted, sd_req, known, age>>
  BY DEF Pickup, At, coreVars
<1>2. Passed = turn + 1 /\ Passed' = Passed /\ Turns' = Turns /\ (Mounting' <=> Mounting)
  BY <1>1 DEF Passed, Turns, Mounting
<1>3. Mounts'
  BY <1>0, <1>1, <1>2 DEF Starting, Mounts, Unasked
<1>4. sd_req[turn] = "none" =>
        UNCHANGED <<current_disk, ack_delay, reading, writing, bytecnt>>
  BY DEF Pickup, xferVars
<1>5. current_disk # None /\ current_disk # turn =>
        UNCHANGED <<current_disk, ack_delay, reading, writing, bytecnt>>
  BY DEF Pickup, xferVars
<1>6. ack_delay # 0 => UNCHANGED <<ack_delay, reading, writing, bytecnt>>
  BY DEF Pickup, Begin, xferVars
<1>7. ~Idle => UNCHANGED <<current_disk, ack_delay, reading, writing, bytecnt>>
  <2>1. ~Idle => ack_delay # 0 /\ current_disk # None
    BY DEF SimInv, Serving
  <2> QED BY <1>6, <2>1 DEF Pickup
<1>8. DiscPulse'
  <2> SUFFICES ASSUME CD \in img_mounted
               PROVE  img_mounted = {CD} /\ (Waiting' \/ Queued' \/ Begun')
    BY <1>1 DEF DiscPulse
  <2>0. img_mounted = {CD} /\ Mounting /\ CD \in Images
    BY DEF Starting, DiscPulse, Mounts, Mounting
  <2>1. CASE Waiting /\ (turn # CD \/ age <= TOC_DELAY)
    <3>1. sd_req[turn] = "none"
      BY <1>0, <2>0, <2>1 DEF Starting, Mounts, Unasked, Waiting
    <3>2. UNCHANGED <<current_disk, ack_delay, reading, writing>>
      BY <1>4, <3>1
    <3>3. ack_delay' = (Lead + ToRequest(age) + (CD + 1) - Passed)'
      BY <1>1, <1>2, <2>1, <3>2 DEF Waiting, Lead, ToRequest
    <3>4. age' = TOC_DELAY + 1 => turn' < CD
      BY <1>0, <1>1, <2>1 DEF Waiting
    <3> QED BY <1>1, <1>2, <2>0, <2>1, <3>2, <3>3, <3>4 DEF Waiting, Idle
  <2>2. CASE Waiting /\ turn = CD /\ age = TOC_DELAY + 1
    <3>1. Lead \in Nat /\ Lead >= 2 /\ Beat(Lead) /\ ToRequest(age) = 0
      BY <2>0, <2>2, LeadIs, ToRequestIs
    <3>2. ack_delay = Lead
      BY <1>0, <1>2, <2>2, <3>1 DEF Waiting
    <3>3. ack_delay' = Lead /\ UNCHANGED <<reading, writing>> /\ ack_delay' # 0
      BY <1>6, <3>1, <3>2
    <3>4. current_disk' = CD
      BY <2>2 DEF Waiting, Pickup
    <3>5. turn <= CD
      BY <1>0, <2>2
    <3>6. Turns' = (CD + 1) - (CD + 1) + VDNUM
      BY <1>2, <2>2, <3>5 DEF Turns
    <3>7. Turns' + ack_delay' - VDNUM = Lead
      BY <1>0, <3>1, <3>3, <3>6
    <3>8. Beat(Turns + ack_delay - VDNUM)'
      BY <3>1, <3>7 DEF Beat, Lead, ToRequest
    <3> QED BY <1>1, <2>0, <2>2, <3>3, <3>4, <3>8 DEF Waiting, Queued, Idle
  <2>3. CASE Queued /\ turn = CD /\ ack_delay = 0
    <3>1. Begin /\ current_disk' = CD
      BY <2>3 DEF Queued, Pickup
    <3>2. ~Idle' /\ bytecnt' = 0
      BY <2>3, <3>1 DEF Begin, Queued, Idle
    <3> QED BY <1>1, <2>0, <2>3, <3>1, <3>2 DEF Queued, Begun
  <2>4. CASE Queued /\ ~(turn = CD /\ ack_delay = 0)
    <3>1. UNCHANGED <<current_disk, ack_delay, reading, writing>>
      <4>1. CASE turn # CD
        BY <1>0, <1>5, <2>4, <4>1 DEF Queued
      <4>2. CASE turn = CD
        BY <1>6, <2>4, <4>2 DEF Queued, Pickup
      <4> QED BY <4>1, <4>2
    <3>2. ack_delay' # 0 => Beat(Turns + ack_delay - VDNUM)'
      BY <1>2, <2>4, <3>1 DEF Queued, Beat, Lead, ToRequest
    <3> QED BY <1>1, <2>0, <2>4, <3>1, <3>2 DEF Queued, Idle
  <2>5. CASE Begun
    BY <1>1, <1>7, <2>0, <2>5 DEF Begun, Idle
  <2>6. Waiting \/ Queued \/ Begun
    BY DEF Starting, DiscPulse
  <2>7. age <= TOC_DELAY \/ age = TOC_DELAY + 1
    BY <1>0
  <2> QED BY <2>1, <2>2, <2>3, <2>4, <2>5, <2>6, <2>7
<1>9. OtherPulse'
  <2>1. ASSUME CD \notin img_mounted, Mounting
        PROVE  UNCHANGED <<current_disk, ack_delay, reading, writing>>
    <3>1. CASE Idle
      <4>1. sd_req[turn] = "none"
        BY <1>0, <2>1, <3>1 DEF Starting, Mounts, Unasked, OtherPulse, Ended
      <4> QED BY <1>4, <4>1
    <3>2. CASE ~Idle
      BY <1>7, <3>2
    <3> QED BY <3>1, <3>2
  <2>2. ASSUME CD \notin img_mounted, Mounting, Idle, Ended PROVE Ended'
    BY <1>1, <2>1, <2>2 DEF Ended
  <2> QED BY <1>1, <1>2, <2>1, <2>2 DEF Starting, OtherPulse, Idle
<1>10. AllMounted'
  <2> SUFFICES ASSUME ~Mounting, Idle', ack_delay' # 0
               PROVE  ack_delay' = 1 /\ current_disk' = None /\ Unasked(Disks)'
    BY <1>1, <1>2 DEF AllMounted
  <2>1. Idle
    BY <1>7 DEF Idle
  <2>2. ack_delay # 0
    <3> SUFFICES ASSUME ack_delay = 0, sd_req[turn] # "none", Begin PROVE FALSE
      BY <1>4 DEF Pickup, xferVars
    <3>1. sd_req[turn] \in {"rd", "wr"}
      BY <1>0 DEF TypeOK
    <3> QED BY <3>1 DEF Begin, Idle
  <2>3. ack_delay = 1 /\ current_disk = None /\ Unasked(Disks)
    BY <1>1, <2>1, <2>2 DEF Starting, AllMounted
  <2>4. sd_req[turn] = "none"
    BY <1>0, <2>3 DEF Unasked
  <2> QED BY <1>1, <1>4, <2>3, <2>4 DEF Unasked
<1> QED BY <1>3, <1>8, <1>9, <1>10 DEF Starting

LEMMA StartAcknowledge ==
  ASSUME Timed, TypeOK, turn < VDNUM, SimInv, Starting, Acknowledge
  PROVE  Starting'
<1>0. /\ turn \in Disks /\ turn \in Nat /\ turn # None /\ CD \in Disks /\ CD \in Nat
      /\ CD < VDNUM /\ VDNUM \in Nat /\ ack_delay \in Nat /\ CD # None
      /\ age \in 0 .. TOC_DELAY + 1 /\ TOC_DELAY \in Nat
  BY Basics, Places
<1>1. /\ stage = "ack" /\ stage' = "transfer" /\ turn' = turn + 1
      /\ UNCHANGED <<mountQueue, img_mounted, reading, writing, bytecnt, sd_req, known, age>>
  BY DEF Acknowledge, xferVars, coreVars
<1>2. /\ Passed = turn + 1 /\ Passed' = Passed /\ (turn # CD => Turns' = Turns)
      /\ (Mounting' <=> Mounting) /\ (Idle' <=> Idle)
  BY <1>0, <1>1 DEF Passed, Turns, Mounting, Idle
<1>3. Mounts'
  BY <1>1, <1>2 DEF Starting, Mounts, Unasked
<1>4. current_disk # turn => UNCHANGED <<ack_delay, current_disk>>
  BY DEF Acknowledge
<1>5. current_disk = turn /\ ~Idle => current_disk' = turn
  BY DEF Acknowledge
<1>6. DiscPulse'
  <2> SUFFICES ASSUME CD \in img_mounted
               PROVE  img_mounted = {CD} /\ (Waiting' \/ Queued' \/ Begun')
    BY <1>1 DEF DiscPulse
  <2>0. img_mounted = {CD} /\ CD \in Images
    BY DEF Starting, DiscPulse, Mounts
  <2>1. CASE Waiting
    <3>1. UNCHANGED <<ack_delay, current_disk>>
      BY <1>0, <1>4, <2>1 DEF Waiting
    <3>2. ack_delay' = (Lead + ToRequest(age) + (CD + 1) - Passed)'
      BY <1>1, <1>2, <2>1, <3>1 DEF Waiting, Lead, ToRequest
    <3>3. age' = TOC_DELAY + 1 => turn' < CD \/ turn' = CD
      BY <1>0, <1>1, <2>1 DEF Waiting
    <3> QED BY <1>1, <1>2, <2>0, <2>1, <3>1, <3>2, <3>3 DEF Waiting
  <2>2. CASE Queued /\ turn # CD
    <3>1. UNCHANGED <<ack_delay, current_disk>>
      BY <1>4, <2>2 DEF Queued
    <3>2. ack_delay' # 0 => Beat(Turns + ack_delay - VDNUM)'
      BY <1>2, <2>2, <3>1 DEF Queued, Beat, Lead, ToRequest
    <3> QED BY <1>1, <1>2, <2>0, <2>2, <3>1, <3>2 DEF Queued
  <2>3. CASE Queued /\ turn = CD
    <3>1. turn <= CD /\ ~(turn' <= CD)
      BY <1>0, <1>1, <2>3
    <3>2. Turns = (CD + 1) - (CD + 1) + VDNUM /\ Turns' = (CD + 1) - (CD + 1) + 0
      BY <1>2, <2>3, <3>1 DEF Turns
    <3>3. Turns + ack_delay - VDNUM = ack_delay /\ ack_delay # 0
      BY <1>0, <1>1, <2>3, <3>2 DEF Queued
    <3>4. Beat(ack_delay)
      BY <2>3, <3>3 DEF Queued
    <3>5. ack_delay # 1
      BY <2>0, <3>4, LeadIs
    <3>6. ack_delay > 1
      BY <1>0, <3>3, <3>5
    <3>7. ack_delay' = ack_delay - 1 /\ ack_delay' # 0
      BY <1>0, <2>3, <3>6 DEF Queued, Acknowledge
    <3>8. current_disk' = CD
      BY <2>3, <3>7 DEF Queued, Acknowledge
    <3>9. Beat(ack_delay - (VDNUM + 1))
      BY <1>0, <3>4, BeatRound
    <3>10. Turns' + ack_delay' - VDNUM = ack_delay - (VDNUM + 1)
      BY <1>0, <3>2, <3>7
    <3>11. Beat(Turns + ack_delay - VDNUM)'
      BY <3>9, <3>10 DEF Beat, Lead, ToRequest
    <3> QED BY <1>1, <1>2, <2>0, <2>3, <3>8, <3>11 DEF Queued
  <2>4. CASE Begun
    <3>1. current_disk' = CD
      BY <1>4, <1>5, <2>4 DEF Begun
    <3> QED BY <1>1, <1>2, <2>0, <2>4, <3>1 DEF Begun
  <2> QED BY <2>1, <2>2, <2>3, <2>4 DEF Starting, DiscPulse
<1>7. OtherPulse'
  <2> SUFFICES ASSUME CD \notin img_mounted, Mounting
               PROVE  \/ Idle' /\ current_disk' = None /\ sd_req'[CD] = "none"
                      \/ current_disk' = CD /\ age' = TOC_DELAY + 1 /\ ~Idle'
    BY <1>1, <1>2 DEF Starting, OtherPulse
  <2>1. CASE ~Idle
    BY <1>1, <1>2, <1>4, <1>5, <2>1 DEF Starting, OtherPulse
  <2>2. CASE Idle /\ current_disk = None /\ sd_req[CD] = "none"
    BY <1>0, <1>1, <1>2, <1>4, <2>2
  <2>3. CASE Idle /\ current_disk = CD /\ Ended
    <3>1. turn = CD /\ ack_delay = 0 /\ sd_req[CD] = "none"
      BY <1>1, <2>3 DEF Ended
    <3>2. ~(ack_delay > 1 \/ (ack_delay = 1 /\ Idle))
      BY <3>1
    <3>3. current_disk' = None
      BY <2>3, <3>1, <3>2 DEF Acknowledge
    <3> QED BY <1>1, <1>2, <2>3, <3>1, <3>3
  <2> QED BY <2>1, <2>2, <2>3 DEF Starting, OtherPulse
<1>8. AllMounted'
  <2>1. ASSUME ~Mounting, Idle, ack_delay = 0, current_disk = turn PROVE ack_delay' = 0
    <3>1. ~(ack_delay > 1 \/ (ack_delay = 1 /\ Idle))
      BY <2>1
    <3> QED BY <2>1, <3>1 DEF Acknowledge
  <2> QED BY <1>0, <1>1, <1>2, <1>4, <2>1 DEF Starting, AllMounted
<1> QED BY <1>3, <1>6, <1>7, <1>8 DEF Starting

LEMMA StartEdge ==
  ASSUME TypeOK, SimInv, Starting, Quiet \/ ReadToc \/ Request \/ BusReset
  PROVE  Starting'
<1>0. /\ CD \in Disks /\ CD \in Nat /\ CD < VDNUM /\ VDNUM \in Nat /\ ack_delay \in Nat
      /\ age \in 0 .. TOC_DELAY + 1 /\ TOC_DELAY \in Nat /\ TOC_DELAY >= 1 /\ CD # None
  BY Places
<1>1. Edge
  BY EdgeForms
<1>2. /\ turn = VDNUM /\ turn' = 0 /\ stage = "transfer" /\ known' = known \cup img_mounted
      /\ UNCHANGED <<stage, current_disk, ack_delay, mountQueue, img_mounted, reading, writing,
                     bytecnt, sd_ack>>
  BY <1>1 DEF Edge, portVars, xferVars, Starting, Mounts
<1>3. (Mounting' <=> Mounting) /\ (Idle' <=> Idle)
  BY <1>2 DEF Mounting, Idle
<1>4. Passed = VDNUM /\ Passed' = 0 /\ Turns' = Turns /\ turn # CD /\ VDNUM # 0
  BY <1>0, <1>2 DEF Passed, Turns
<1>5. sd_ack # {} => ~Idle
  BY <1>2 DEF SimInv, Acks, Visited
<1>6. age = TOC_DELAY + 1 => age' = age
  BY <1>0, <1>1 DEF Edge
<1>7. Mounting /\ age # TOC_DELAY => Quiet
  BY DEF ReadToc, Request, BusReset
<1>8. Quiet => \A i \in Disks : sd_req'[i] = sd_req[i] \/ sd_req'[i] = "none"
  BY DEF Quiet, Requests
<1>9. Mounting /\ age = TOC_DELAY =>
        \A i \in Disks : sd_req'[i] = IF i \in sd_ack THEN "none"
                                      ELSE IF i = CD THEN "rd" ELSE sd_req[i]
  BY DEF Quiet, ReadToc, Request, BusReset, Requests
<1>10. Mounts'
  <2>1. Mounting => Unasked(Disks \ {CD})'
    BY <1>7, <1>8, <1>9 DEF Starting, Mounts, Unasked
  <2>2. CD \in mountQueue => age' = 0
    <3>1. CD \in mountQueue => age = 0 /\ CD \notin img_mounted
      BY DEF Starting, Mounts
    <3>2. age = 0 /\ CD \notin img_mounted => CD \notin known
      BY DEF Starting, OtherPulse
    <3> QED BY <1>1, <3>1, <3>2 DEF Edge
  <2> QED BY <1>2, <1>3, <2>1, <2>2 DEF Starting, Mounts
<1>11. DiscPulse'
  <2> SUFFICES ASSUME CD \in img_mounted
               PROVE  img_mounted = {CD} /\ (Waiting' \/ Queued' \/ Begun')
    BY <1>2 DEF DiscPulse
  <2>0. img_mounted = {CD} /\ Mounting
    BY DEF Starting, DiscPulse, Mounting
  <2>1. CASE Waiting
    <3>1. age \in 0 .. TOC_DELAY
      BY <1>0, <1>2, <2>1 DEF Waiting
    <3>2. age' = age + 1 /\ age' # 0
      BY <1>0, <1>1, <3>1 DEF Edge
    <3>3. Lead \in Int
      BY Bounds, ToRequestIs, <1>0 DEF Lead
    <3>4. ToRequest(age) = ToRequest(age + 1) + VDNUM /\ ToRequest(age + 1) \in Nat
      <4>1. age + 1 \in 0 .. TOC_DELAY + 1
        BY <1>0, <3>1
      <4> QED BY <3>1, <4>1, ToRequestIs
    <3>5. ack_delay = Lead + ToRequest(age + 1) + (CD + 1) - 0
      <4>1. ack_delay = Lead + (ToRequest(age + 1) + VDNUM) + (CD + 1) - VDNUM
        BY <1>4, <2>1, <3>4 DEF Waiting
      <4> QED BY <1>0, <3>3, <3>4, <4>1
    <3>6. ack_delay' = (Lead + ToRequest(age) + (CD + 1) - Passed)'
      BY <1>2, <1>4, <3>2, <3>5 DEF Lead, ToRequest
    <3>7. age' <= TOC_DELAY => sd_req'[CD] = "none"
      <4>1. age' <= TOC_DELAY => age # TOC_DELAY
        BY <1>0, <3>1, <3>2
      <4>2. sd_req[CD] = "none"
        BY <1>0, <2>1, <3>1 DEF Waiting
      <4> QED BY <1>0, <1>7, <1>8, <2>0, <4>1, <4>2
    <3>8. age' = TOC_DELAY + 1 => sd_req'[CD] = "rd"
      <4>1. age' = TOC_DELAY + 1 => age = TOC_DELAY
        BY <1>0, <3>1, <3>2
      <4>2. CD \notin sd_ack
        BY <1>5, <2>1 DEF Waiting
      <4> QED BY <1>0, <1>9, <2>0, <4>1, <4>2
    <3>9. turn' < CD \/ (turn' = CD /\ stage' # "ack")
      BY <1>0, <1>2
    <3> QED BY <1>2, <1>3, <2>0, <2>1, <3>2, <3>6, <3>7, <3>8, <3>9 DEF Waiting
  <2>2. CASE Queued
    <3>1. age # TOC_DELAY /\ age' = age
      BY <1>0, <1>6, <2>2 DEF Queued
    <3>2. sd_req'[CD] = "rd"
      BY <1>0, <1>5, <1>7, <2>0, <2>2, <3>1 DEF Queued, Quiet, Requests
    <3>3. ack_delay' # 0 => Beat(Turns + ack_delay - VDNUM)'
      BY <1>2, <1>4, <2>2 DEF Queued, Beat, Lead, ToRequest
    <3> QED BY <1>2, <1>3, <2>0, <2>2, <3>1, <3>2, <3>3 DEF Queued
  <2>3. CASE Begun
    BY <1>2, <1>3, <1>6, <2>0, <2>3 DEF Begun
  <2> QED BY <2>1, <2>2, <2>3 DEF Starting, DiscPulse
<1>12. OtherPulse'
  <2> SUFFICES ASSUME CD \notin img_mounted
               PROVE  /\ age' \in {0, TOC_DELAY + 1} /\ (age' = 0 => CD \notin known')
                      /\ Mounting => \/ Idle /\ current_disk = None /\ sd_req'[CD] = "none"
                                     \/ current_disk = CD /\ age' = TOC_DELAY + 1 /\ ~Idle
    BY <1>2, <1>3 DEF OtherPulse
  <2>1. age \in {0, TOC_DELAY + 1} /\ (age = 0 => CD \notin known') /\ age # TOC_DELAY
    BY <1>0, <1>2 DEF Starting, OtherPulse
  <2>2. age' = age
    BY <1>1, <1>6, <2>1 DEF Edge
  <2>3. ~Ended
    BY <1>4 DEF Ended
  <2> QED BY <1>0, <1>7, <1>8, <2>1, <2>2, <2>3 DEF Starting, OtherPulse
<1>13. AllMounted'
  BY <1>2, <1>3 DEF Starting, AllMounted
<1> QED BY <1>10, <1>11, <1>12, <1>13 DEF Starting

LEMMA StartStep ==
  ASSUME Sectored, Timed, TypeOK, SimInv, Starting, [Next]_vars
  PROVE  Starting'
<1>1. CASE Visit
  BY <1>1, StartTransfer, StartMount, StartPickup, StartAcknowledge DEF Visit
<1>2. CASE Quiet \/ ReadToc \/ Request \/ BusReset
  BY <1>2, StartEdge
<1>3. CASE UNCHANGED vars
  <2>1. /\ UNCHANGED <<turn, stage, current_disk, ack_delay, mountQueue, img_mounted, reading,
                       writing, bytecnt, sd_req, known, age>>
    BY <1>3 DEF vars, portVars, xferVars, coreVars
  <2>2. /\ (Mounts' <=> Mounts) /\ (AllMounted' <=> AllMounted)
    BY <2>1 DEF Mounts, AllMounted, Unasked, Mounting, Idle
  <2>3. (Waiting' <=> Waiting) /\ (Begun' <=> Begun)
    BY <2>1 DEF Waiting, Begun, Passed, Lead, ToRequest, Idle
  <2>4. Queued' <=> Queued
    BY <2>1 DEF Queued, Beat, Turns, Passed, Lead, ToRequest, Idle
  <2>5. (DiscPulse' <=> DiscPulse) /\ (OtherPulse' <=> OtherPulse)
    BY <2>1, <2>3, <2>4 DEF DiscPulse, OtherPulse, Ended, Mounting, Idle
  <2> QED BY <2>2, <2>5 DEF Starting
<1> QED BY <1>1, <1>2, <1>3 DEF Next

LEMMA NoFalseEnd ==
  ASSUME Timed, TypeOK, Starting
  PROVE  ~FalseEnd
<1> SUFFICES ASSUME FalseEnd PROVE FALSE
  OBVIOUS
<1>0. turn \in Nat /\ turn # None /\ VDNUM \in Nat /\ CD \in Nat /\ CD # None
  BY Places DEF None
<1>1. stage = "ack" /\ turn = current_disk /\ ack_delay = 1 /\ Idle
  BY DEF FalseEnd
<1>2. CASE CD \in img_mounted
  <2>1. CD \in Images /\ Queued
    BY <1>0, <1>1, <1>2 DEF Starting, Mounts, DiscPulse, Waiting, Begun
  <2>2. turn = CD /\ turn <= CD
    BY <1>0, <1>1, <2>1 DEF Queued
  <2>3. Turns = (CD + 1) - (CD + 1) + VDNUM
    BY <1>1, <2>2 DEF Turns, Passed
  <2>4. Turns + ack_delay - VDNUM = 1
    BY <1>0, <1>1, <2>3
  <2> QED BY <1>1, <2>1, <2>4, LeadIs DEF Queued
<1>3. CASE CD \notin img_mounted /\ Mounting
  BY <1>0, <1>1, <1>3 DEF Starting, OtherPulse, Ended
<1>4. CASE ~Mounting
  BY <1>0, <1>1, <1>4 DEF Starting, AllMounted
<1> QED BY <1>2, <1>3, <1>4

\* With no disc in the CD drive, or with a mount delay whose last ticks do not
\* fall on the waiting CD's own visit, the counter that mount pulses and
\* transfers share never ends a transfer that has not begun, and the simulated
\* HPS keeps the channel contract from the first clock edge on.
THEOREM SimImplementsChannel ==
  ASSUME Sectored, Timed PROVE Spec => ImplementsChannel
<1>1. Init => TypeOK /\ SimInv /\ Starting
  BY TypeInit, SimInit, StartInit
<1>2. TypeOK /\ SimInv /\ Starting /\ [Next]_vars => TypeOK' /\ SimInv' /\ Starting'
  BY TypeStep, SimStep, StartStep, NoFalseEnd
<1>3. TypeOK /\ Starting => ~FalseEnd
  BY NoFalseEnd
<1>4. Spec => []~FalseEnd
  BY <1>1, <1>2, <1>3, PTL DEF Spec
<1>5. Spec /\ []~FalseEnd => ImplementsChannel
  BY ChannelKept
<1> QED BY <1>4, <1>5, PTL
=============================================================================

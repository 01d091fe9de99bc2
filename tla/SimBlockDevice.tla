--------------------------- MODULE SimBlockDevice ---------------------------
(***************************************************************************)
(* The simulated HPS of the Verilator build (verilator/sim/                *)
(* sim_blkdevice.cpp).  BeforeEval runs once per rising clock edge, before *)
(* the core is evaluated, and visits the disks in order; a visit has four  *)
(* stages, and each is an action here.  After the last visit comes the     *)
(* core's clock edge.  One counter, ack_delay, times both the mount pulses *)
(* and the latency of a transfer, and every visit may count it down.       *)
(*                                                                         *)
(* A word is represented by where it is: the buffer address it is moved to *)
(* or from and its position in the image file, both counted in words.      *)
(***************************************************************************)
EXTENDS Integers, Sequences

CONSTANTS
  VDNUM,        \* disks (kVDNUM, 10)
  BLKSZ,        \* words in a sector (kBLKSZ / 2 = 256)
  MOUNT_DELAY,  \* what a mount pulse sets ack_delay to (1200)
  LATENCY,      \* what a transfer sets it to (16000, +blkdev_latency=<n>)
  Images,       \* disks with an image file
  LBAs,         \* addresses the core may present
  INT_SPACE,    \* values of the int that holds a file position
  CD,           \* the disk of the CD target (2)
  TOC_DELAY     \* clock edges from its mount pulse to its first request (2)

ASSUME DeviceAssumption ==
  /\ VDNUM \in Nat /\ VDNUM >= 1
  /\ BLKSZ \in Nat /\ BLKSZ >= 1
  /\ MOUNT_DELAY \in Nat /\ MOUNT_DELAY >= 1
  /\ LATENCY \in Nat /\ LATENCY >= 1
  /\ Images \subseteq 0 .. VDNUM - 1
  /\ LBAs \subseteq Nat /\ 0 \in LBAs /\ INT_SPACE \in Nat
  /\ \A l \in LBAs : (l + 1) * BLKSZ <= INT_SPACE \div 2
  /\ CD \in 0 .. VDNUM - 1 /\ TOC_DELAY \in Nat /\ TOC_DELAY >= 1

Disks == 0 .. VDNUM - 1
None  == -1

VARIABLES
  turn, stage,    \* where BeforeEval is: the disk visited, and what is next
  current_disk, ack_delay, reading, writing, bytecnt, mountQueue,
  pos,            \* position of each image file, for get and put alike
  sd_ack, sd_buff_wr, sd_buff_addr, img_mounted,   \* ports it drives
  sd_req,         \* [Disks -> {"none", "rd", "wr"}]: sd_rd and sd_wr
  sd_lba,
  busy,           \* disks whose target waits for an answer
  q,              \* the buffer address whose word sd_buff_din shows
  known,          \* disks whose mount pulse the core has seen
  age,            \* clock edges since the CD target saw its mount pulse
  taken,          \* the address with which each disk's last transfer began
  log             \* the words it has moved: <<buffer address, position>>

portVars == <<sd_ack, sd_buff_wr, sd_buff_addr, img_mounted>>
xferVars == <<reading, writing, bytecnt, pos, taken, log>>
coreVars == <<sd_req, sd_lba, busy, q, known, age>>
vars     == <<turn, stage, current_disk, ack_delay, mountQueue,
              portVars, xferVars, coreVars>>

Idle     == ~reading /\ ~writing
Mounting == mountQueue \cup img_mounted # {}

-----------------------------------------------------------------------------
(* BeforeEval: the four stages of the visit of disk turn *)

At(s, next) == stage = s /\ stage' = next /\ UNCHANGED turn

\* One word per strobe from the file to the target.
Send == /\ reading /\ ~sd_buff_wr /\ bytecnt < BLKSZ
        /\ log' = [log EXCEPT ![turn] = Append(@, <<bytecnt, pos[turn]>>)]
        /\ pos' = [pos EXCEPT ![turn] = @ + 1]
        /\ sd_buff_addr' = bytecnt
        /\ bytecnt' = bytecnt + 1
        /\ sd_buff_wr' = TRUE
        /\ UNCHANGED <<reading, writing, taken>>

\* Fault: the address is not wrapped after the last word.
FaultStore == /\ ~(reading /\ ~sd_buff_wr /\ bytecnt < BLKSZ)
              /\ writing /\ bytecnt < BLKSZ
              /\ log' = [log EXCEPT ![turn] = Append(@, <<q, pos[turn]>>)]
              /\ pos' = [pos EXCEPT ![turn] = @ + 1]
              /\ bytecnt' = bytecnt + 1
              /\ sd_buff_addr' = bytecnt + 1
              /\ UNCHANGED <<reading, writing, taken, sd_buff_wr>>

\* One word per tick to the file: the one whose address the core has seen.
Store == /\ ~(reading /\ ~sd_buff_wr /\ bytecnt < BLKSZ)
         /\ writing /\ bytecnt < BLKSZ
         /\ log' = [log EXCEPT ![turn] = Append(@, <<q, pos[turn]>>)]
         /\ pos' = [pos EXCEPT ![turn] = @ + 1]
         /\ bytecnt' = bytecnt + 1
         /\ sd_buff_addr' = IF bytecnt + 1 < BLKSZ THEN bytecnt + 1 ELSE 0
         /\ UNCHANGED <<reading, writing, taken, sd_buff_wr>>

Flush == /\ ~(reading /\ ~sd_buff_wr /\ bytecnt < BLKSZ)
         /\ writing /\ bytecnt >= BLKSZ
         /\ sd_buff_addr' = 0
         /\ writing' = FALSE
         /\ UNCHANGED <<reading, bytecnt, pos, taken, log, sd_buff_wr>>

Strobe == /\ ~(reading /\ ~sd_buff_wr /\ bytecnt < BLKSZ) /\ ~writing
          /\ sd_buff_wr' = FALSE
          /\ reading' = (reading /\ bytecnt < BLKSZ)
          /\ UNCHANGED <<writing, bytecnt, pos, taken, log, sd_buff_addr>>

Transfer ==
  /\ At("transfer", "mount")
  /\ \/ /\ current_disk = turn /\ ack_delay = 1
        /\ Send \/ Store \/ Flush \/ Strobe
     \/ /\ current_disk = turn /\ ack_delay # 1
        /\ sd_buff_wr' = FALSE
        /\ UNCHANGED <<xferVars, sd_buff_addr>>
     \/ /\ current_disk # turn
        /\ UNCHANGED <<xferVars, sd_buff_wr, sd_buff_addr>>
  /\ UNCHANGED <<current_disk, ack_delay, mountQueue, sd_ack, img_mounted,
                 coreVars>>

\* Fault: the pulse is not timed.
FaultIssue == /\ Idle /\ turn \in mountQueue /\ img_mounted = {}
              /\ mountQueue' = mountQueue \ {turn}
              /\ img_mounted' = {turn}
              /\ pos' = [pos EXCEPT ![turn] = 0]
              /\ UNCHANGED ack_delay

Issue == /\ Idle /\ turn \in mountQueue /\ img_mounted = {}
         /\ mountQueue' = mountQueue \ {turn}
         /\ img_mounted' = {turn}
         /\ pos' = [pos EXCEPT ![turn] = 0]
         /\ ack_delay' = MOUNT_DELAY

ClearPulse == /\ ~(Idle /\ turn \in mountQueue /\ img_mounted = {})
              /\ ack_delay = 1 /\ turn \in img_mounted
              /\ img_mounted' = img_mounted \ {turn}
              /\ UNCHANGED <<mountQueue, pos, ack_delay>>

CountDown == /\ ~(Idle /\ turn \in mountQueue /\ img_mounted = {})
             /\ ~(ack_delay = 1 /\ turn \in img_mounted)
             /\ ack_delay' = IF Idle /\ ack_delay > 0 THEN ack_delay - 1
                             ELSE ack_delay
             /\ UNCHANGED <<mountQueue, pos, img_mounted>>

Mount ==
  /\ At("mount", "pickup")
  /\ Issue \/ ClearPulse \/ CountDown
  /\ UNCHANGED <<current_disk, reading, writing, bytecnt, taken, log, sd_ack,
                 sd_buff_wr, sd_buff_addr, coreVars>>

\* The byte position is an int product.
SeekTo(l) == (l * BLKSZ) % INT_SPACE

\* Fault: the buffer address of the previous transfer is left standing, so a
\* write stores that word first.
FaultBegin == /\ ack_delay = 0
              /\ reading' = (reading \/ sd_req[turn] = "rd")
              /\ writing' = (writing \/ sd_req[turn] = "wr")
              /\ pos' = [pos EXCEPT ![turn] = SeekTo(sd_lba[turn])]
              /\ bytecnt' = 0
              /\ ack_delay' = LATENCY
              /\ taken' = [taken EXCEPT ![turn] = sd_lba[turn]]
              /\ log' = [log EXCEPT ![turn] = <<>>]
              /\ UNCHANGED sd_buff_addr

Begin == /\ ack_delay = 0
         /\ reading' = (reading \/ sd_req[turn] = "rd")
         /\ writing' = (writing \/ sd_req[turn] = "wr")
         /\ pos' = [pos EXCEPT ![turn] = SeekTo(sd_lba[turn])]
         /\ bytecnt' = 0
         /\ sd_buff_addr' = 0
         /\ ack_delay' = LATENCY
         /\ taken' = [taken EXCEPT ![turn] = sd_lba[turn]]
         /\ log' = [log EXCEPT ![turn] = <<>>]

\* The disk becomes current even when the counter is not free yet.
Pickup ==
  /\ At("pickup", "ack")
  /\ \/ /\ current_disk \in {None, turn} /\ sd_req[turn] # "none"
        /\ current_disk' = turn
        /\ Begin \/ (ack_delay # 0
                     /\ UNCHANGED <<ack_delay, xferVars, sd_buff_addr>>)
     \/ /\ ~(current_disk \in {None, turn} /\ sd_req[turn] # "none")
        /\ UNCHANGED <<current_disk, ack_delay, xferVars, sd_buff_addr>>
  /\ UNCHANGED <<mountQueue, sd_ack, sd_buff_wr, img_mounted, coreVars>>

\* Fault: the disk stays current after its transfer.
FaultAcknowledge ==
  /\ stage = "ack" /\ stage' = "transfer" /\ turn' = turn + 1
  /\ \/ /\ current_disk = turn
        /\ sd_ack' = IF ack_delay = 1 THEN sd_ack \cup {turn}
                     ELSE sd_ack \ {turn}
        /\ ack_delay' = IF ack_delay > 1 \/ (ack_delay = 1 /\ Idle)
                        THEN ack_delay - 1 ELSE ack_delay
        /\ UNCHANGED current_disk
     \/ /\ current_disk # turn
        /\ UNCHANGED <<sd_ack, ack_delay, current_disk>>
  /\ UNCHANGED <<mountQueue, sd_buff_wr, sd_buff_addr, img_mounted, xferVars,
                 coreVars>>

Acknowledge ==
  /\ stage = "ack" /\ stage' = "transfer" /\ turn' = turn + 1
  /\ \/ /\ current_disk = turn
        /\ sd_ack' = IF ack_delay = 1 THEN sd_ack \cup {turn}
                     ELSE sd_ack \ {turn}
        /\ ack_delay' = IF ack_delay > 1 \/ (ack_delay = 1 /\ Idle)
                        THEN ack_delay - 1 ELSE ack_delay
        /\ current_disk' = IF ack_delay' = 0 /\ Idle THEN None ELSE turn
     \/ /\ current_disk # turn
        /\ UNCHANGED <<sd_ack, ack_delay, current_disk>>
  /\ UNCHANGED <<mountQueue, sd_buff_wr, sd_buff_addr, img_mounted, xferVars,
                 coreVars>>

Visit == turn < VDNUM /\ (Transfer \/ Mount \/ Pickup \/ Acknowledge)

-----------------------------------------------------------------------------
(* The core's clock edge *)

\* Disks whose target may make a request.  After a bus reset the server may
\* still be busy with the one it withdrew.
Free == known \ busy

\* The targets in r raise a request; io_rd and io_wr drop on io_ack; a
\* target whose request was acknowledged waits for the ack to fall.
Requests(r, kind, l) ==
  /\ sd_req' = [i \in Disks |-> IF i \in sd_ack THEN "none"
                                ELSE IF i \in r THEN kind ELSE sd_req[i]]
  /\ sd_lba' = [i \in Disks |-> IF i \in r THEN l ELSE sd_lba[i]]
  /\ busy' = {i \in busy : i \in sd_ack \/ sd_req[i] # "none"} \cup r

Edge == /\ turn = VDNUM /\ turn' = 0
        /\ q' = sd_buff_addr
        /\ known' = known \cup img_mounted
        /\ age' = IF CD \in known' /\ age <= TOC_DELAY THEN age + 1 ELSE age
        /\ UNCHANGED <<stage, current_disk, ack_delay, mountQueue, portVars,
                       xferVars>>

\* The CD target reads its table of contents as soon as a disc is mounted,
\* while the mount pulse is still up.  (One held in reset until the pulses are
\* over reads it by Request.)  The computer is still starting, and asks nothing
\* of a disk before the mounts are done.
ReadToc == \E l \in LBAs :
  /\ age = TOC_DELAY
  /\ Edge
  /\ Requests({CD}, "rd", l)

Quiet == age # TOC_DELAY /\ Edge /\ Requests({}, "rd", 0)

\* Targets make requests, all of the same kind and address.
Request == \E r \in SUBSET Free \ {{}}, kind \in {"rd", "wr"}, l \in LBAs :
  /\ ~Mounting /\ age # TOC_DELAY
  /\ Edge
  /\ Requests(r, kind, l)

\* A bus reset: the targets withdraw their requests.
BusReset == /\ busy # {} /\ ~Mounting /\ age # TOC_DELAY
            /\ Edge
            /\ sd_req' = [i \in Disks |-> "none"]
            /\ busy' = {}
            /\ UNCHANGED sd_lba

Init ==
  /\ turn = 0 /\ stage = "transfer"
  /\ current_disk = None /\ ack_delay = 0 /\ mountQueue = Images
  /\ reading = FALSE /\ writing = FALSE /\ bytecnt = 0
  /\ pos = [i \in Disks |-> 0]
  /\ sd_ack = {} /\ sd_buff_wr = FALSE /\ sd_buff_addr = 0
  /\ img_mounted = {}
  /\ sd_req = [i \in Disks |-> "none"] /\ sd_lba = [i \in Disks |-> 0]
  /\ busy = {} /\ q = 0 /\ known = {} /\ age = 0
  /\ taken = [i \in Disks |-> 0] /\ log = [i \in Disks |-> <<>>]

Next == Visit \/ Quiet \/ ReadToc \/ Request \/ BusReset

Spec == Init /\ [][Next]_vars

\* Every simulated clock runs BeforeEval to its end and evaluates the core.
FairSpec == Spec /\ WF_vars(Visit) /\ WF_vars(Quiet \/ ReadToc)

-----------------------------------------------------------------------------
TypeOK ==
  /\ turn \in 0 .. VDNUM
  /\ stage \in {"transfer", "mount", "pickup", "ack"}
  /\ current_disk \in Disks \cup {None}
  /\ ack_delay \in Nat /\ bytecnt \in 0 .. BLKSZ
  /\ reading \in BOOLEAN /\ writing \in BOOLEAN
  /\ mountQueue \subseteq Disks /\ img_mounted \subseteq Disks
  /\ sd_ack \subseteq Disks /\ sd_buff_wr \in BOOLEAN
  /\ sd_buff_addr \in 0 .. BLKSZ - 1 /\ q \in 0 .. BLKSZ - 1
  /\ sd_req \in [Disks -> {"none", "rd", "wr"}] /\ sd_lba \in [Disks -> LBAs]
  /\ busy \subseteq Disks /\ known \subseteq Disks /\ age \in 0 .. TOC_DELAY + 1
  /\ taken \in [Disks -> LBAs] /\ pos \in [Disks -> Nat]

\* Every request a target makes is answered, unless a reset withdraws it.
Answered == \A i \in Disks : (i \in busy) ~> (i \notin busy)

\* Every queued image is reported by a pulse, and every pulse ends.
MountsReported == <>[](known = Images /\ ~Mounting)

\* The channels as the core sees them, and what the last answer moved.
Channel == INSTANCE HpsChannel WITH
  Channels <- Disks,
  st    <- [i \in Disks |->
              IF i \in sd_ack THEN "ack"
              ELSE IF current_disk = i /\ ~Idle THEN "busy" ELSE "idle"],
  addr  <- taken,
  moved <- [i \in Disks |->
              IF log[i] = [k \in 1 .. BLKSZ |->
                             <<k - 1, taken[i] * BLKSZ + k - 1>>]
              THEN taken[i] ELSE None]

\* The simulated HPS keeps the contract of a block-device server.
ImplementsChannel == Channel!Spec
=============================================================================

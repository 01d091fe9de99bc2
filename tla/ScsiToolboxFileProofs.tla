----------------------- MODULE ScsiToolboxFileProofs -----------------------
(***************************************************************************)
(* Proof that an upload through the Toolbox round trip (ScsiToolbox) is    *)
(* faithful: of every chunk the Mac was told is good, each unit the target *)
(* took from the Mac is in the file on the HPS, where it belongs.  That is *)
(* the whole chunk, unless the payload watchdog closed it early.           *)
(*                                                                         *)
(* It holds for an HPS that polls the status read before its budget runs   *)
(* out (Prompt), and for uploads whose chunks are all of one block or all  *)
(* of several (Uniform); run toolbox_offset shows what a mixed one does.   *)
(***************************************************************************)
EXTENDS ScsiToolboxProofs, FiniteSetTheorems, WellFoundedInduction

Uniform == MixedChunks = FALSE

\* The blocks of the file a chunk takes.
Span(blocks) == IF blocks = 0 THEN 1 ELSE blocks

-----------------------------------------------------------------------------
(* The client and its command *)

\* The chunks the client counts follow each other in the file.
ClientInv ==
  /\ ~client.open => client.chunks = 0
  /\ client.chunks = 0 => client.kept = {} /\ client.pos = 0
  /\ client.chunks # 0 => client.kept # {}
  /\ \/ \A c \in client.kept : c.blocks > 1
     \/ client.pos = client.chunks /\ \A c \in client.kept : c.blocks <= 1
  /\ \A c \in client.kept : /\ c.pos + Span(c.blocks) <= client.pos
                            /\ Valid(c) <= Span(c.blocks) * BLOCK

\* There is room in the file for a chunk of every command.
RoomInv ==
  /\ cmd.id <= MaxCmds
  /\ phase = "IDLE" => client.pos <= cmd.id * TailMax
  /\ phase # "IDLE" => client.pos + TailMax <= cmd.id * TailMax

\* The command in hand continues the client's upload.
CommandInv ==
  phase # "IDLE" =>
    /\ cmd.op = "prep" => ~client.open
    /\ cmd.op = "data" =>
         /\ client.open /\ cmd.pos = client.pos
         /\ cmd.blocks \in Chunks /\ (cmd.blocks = 0 => cmd.n \in 1 .. BLOCK)
         /\ IF cmd.blocks > 1
            THEN \A c \in client.kept : c.blocks > 1
            ELSE /\ cmd.index = client.pos /\ client.pos = client.chunks
                 /\ \A c \in client.kept : c.blocks <= 1

\* The CDB of the command has been put in front of the request block.
CdbLoaded ==
  \/ phase \in {"DATA_OUT", "STATUS_OUT"}
  \/ phase = "TB" /\ tb_state \in {"REQ", "STAT", "LATCH2", "DATA", "STREAM", "RDY"}

\* The core's running position is the client's.
PosInv ==
  /\ client.open => tb_send_pos = client.pos + IF CdbLoaded /\ cmd.op = "data"
                                               THEN Span(cmd.blocks) ELSE 0
  /\ CdbLoaded /\ cmd.op = "prep" => tb_send_pos = 0

UploadInv == ClientInv /\ RoomInv /\ CommandInv /\ PosInv

-----------------------------------------------------------------------------
(* The payload on its way *)

\* The units the handler will write: once the payload is over, those of them
\* that the target has taken.
Payload == {k \in 0 .. Valid(cmd) - 1 : phase # "DATA_IN" => k < client.sent}
SecAt(k) == SecOf(k + HEAD)
PosAt(k) == (k + HEAD) % BLOCK

InRing(k) == tb_buf[RingSlot(SecAt(k))][PosAt(k)] = <<"pay", cmd.id, k>>
InTail(k) == tail[SecAt(k)][PosAt(k)] = <<"pay", cmd.id, k>>

\* A round trip without a payload is not a SEND's.
Direct == phase = "TB" /\ tb_state = "IDLE" => cmd.op \in {"get", "end"}

\* The sector being shipped is the oldest, from its own slot.
ShipAt ==
  tb_state \in {"COLL", "COLLW"} =>
    /\ tb_ship_slot = RingSlot(tb_ship_done + 1)
    /\ tb_col_lba # 0 => tb_col_slot = RingSlot(tb_col_lba) /\ tb_ship_done < tb_col_lba
    /\ phase = "DATA_IN" /\ tb_col_lba = 0 => tb_ship_done = 0 /\ tb_state = "COLL"
    /\ tb_state = "COLLW" =>
         /\ tb_lba_r = tb_ship_done + 1 /\ tb_fetch_sec = RingSlot(tb_ship_done + 1)
         /\ tb_col_lba # 0 => tb_ship_done + 1 < tb_col_lba

\* Every unit collected and not shipped is in the ring.
RingHolds ==
  cmd.op = "data" /\ phase \in {"DATA_IN", "TB"}
    /\ tb_state \in {"COLL", "COLLW", "LOAD", "REQ"} =>
    \A k \in Payload :
      /\ phase = "DATA_IN" => k < data_cnt
      /\ SecAt(k) = 0 \/ (SecAt(k) > tb_ship_done /\ tb_state # "REQ")
      => InRing(k)

\* Every unit shipped is in its tail block on the HPS, unless a sector was
\* given up.
TailHolds ==
  cmd.op = "data" /\ ~tb_send_fault /\ tb_state \in {"COLL", "COLLW", "LOAD", "REQ"} =>
    \A k \in Payload : SecAt(k) # 0 /\ SecAt(k) <= tb_ship_done => InTail(k)

\* So is every unit of a sector whose transfer is being acknowledged.
AckedHolds ==
  cmd.op = "data" /\ tb_state = "COLLW" /\ hps.st = "moved" =>
    \A k \in Payload : SecAt(k) = tb_lba_r => InTail(k)

\* After the payload the ring is drained to the last unit.
Draining ==
  /\ cmd.op = "data" /\ phase = "TB" /\ tb_state \in {"COLL", "COLLW"} =>
       \A k \in Payload :
         /\ tb_col_lba # 0 => SecAt(k) <= tb_col_lba
         /\ tb_col_lba # 0 /\ tb_col_lin % BLOCK = 0 => SecAt(k) < tb_col_lba
         /\ tb_col_lba = 0 =>
              SecAt(k) <= IF tb_state = "COLLW" THEN tb_ship_done + 1 ELSE tb_ship_done
  /\ cmd.op = "data" /\ tb_state \in {"LOAD", "REQ"} =>
       \A k \in Payload : SecAt(k) <= tb_ship_done

PayloadInv == Direct /\ ShipAt /\ RingHolds /\ TailHolds /\ AckedHolds /\ Draining

-----------------------------------------------------------------------------
(* The file *)

\* Of the first m units of a chunk, those the handler writes are in the file.
Landed(c, m) ==
  \A u \in 0 .. Least(Valid(c), m) - 1 :
    upload[c.pos + SecOf(u)][u % BLOCK] = <<"pay", c.id, u>>

FileDomains == DOMAIN upload = 0 .. FileMax /\ DOMAIN tail = 1 .. TailMax

\* The request block asks for the chunk where the client wants it.
OffsetLoaded == tb_state = "REQ" /\ cmd.op = "data" => tb_buf[0][0][3] = cmd.pos

\* A good answer to a chunk without a fault means that what was taken of it is in the file,
RunGood ==
  cmd.op = "data" /\ answer.st = GOOD /\ ~tb_send_fault
    /\ (tb_state = "STAT" \/ (tb_state = "REQ" /\ hps.st = "moved"))
  => Landed(cmd, client.sent)

\* and so does a good status that the core has latched
LatchGood ==
  cmd.op = "data" /\ tb_status = GOOD
    /\ tb_state \in {"LATCH2", "DATA", "STREAM", "RDY"} /\ phase = "TB"
  => Landed(cmd, client.sent)

\* or gives the Mac.
ToldGood ==
  cmd.op = "data" /\ status = GOOD /\ phase \in {"DATA_OUT", "STATUS_OUT"} => Landed(cmd, client.sent)

StoredInv == FileDomains /\ OffsetLoaded /\ RunGood /\ LatchGood /\ ToldGood

FileInv == UploadInv /\ PayloadInv /\ StoredInv /\ FileMatches

-----------------------------------------------------------------------------
(* Sizes *)

\* A finite set of numbers that is not empty has a largest member: the sets of
\* the members above a member shrink as it grows, and the smallest is empty.
LEMMA MostIs ==
  ASSUME NEW S, S \subseteq Nat, IsFiniteSet(S), S # {}
  PROVE  Most(S) \in S /\ \A y \in S : y <= Most(S)
<1> DEFINE Above(x) == {y \in S : y > x}
           Sets     == {Above(x) : x \in S}
<1>1. Sets \subseteq FiniteSubsetsOf(S) /\ Sets # {}
  <2>1. ASSUME NEW x \in S PROVE Above(x) \in FiniteSubsetsOf(S)
    <3>1. Above(x) \in SUBSET S
      OBVIOUS
    <3>2. IsFiniteSet(Above(x))
      BY <3>1, FS_Subset
    <3> QED BY <3>1, <3>2 DEF FiniteSubsetsOf
  <2> QED BY <2>1
<1>2. PICK T \in Sets : \A U \in Sets : <<U, T>> \notin StrictSubsetOrdering(S)
  BY <1>1, FS_StrictSubsetOrderingWellFounded, WFMin
<1>3. PICK x \in S : T = Above(x)
  BY <1>2
<1>4. ASSUME NEW y \in S, y > x PROVE FALSE
  <2>1. Above(y) \subseteq Above(x)
    <3> SUFFICES ASSUME NEW z \in S, z > y PROVE z > x
      OBVIOUS
    <3>1. x \in Nat /\ y \in Nat /\ z \in Nat
      OBVIOUS
    <3> QED BY <1>4, <3>1
  <2>2. y \in Above(x) /\ y \notin Above(y)
    BY <1>4
  <2>3. <<Above(y), Above(x)>> \in StrictSubsetOrdering(S)
    BY <2>1, <2>2 DEF StrictSubsetOrdering
  <2> QED BY <1>2, <1>3, <2>3
<1>5. \A y \in S : y <= x
  BY <1>4
<1> QED BY <1>5 DEF Most

\* The longest chunk bounds every chunk.
LEMMA TailSizes ==
  /\ TailMax \in Nat /\ TailMax >= 1
  /\ Chunks \subseteq Nat /\ \A b \in Chunks : b <= TailMax /\ b <= TB_SEC_MAX
<1> DEFINE S == Chunks \cup {1}
<1>1. Chunks \subseteq 0 .. TB_SEC_MAX /\ TB_SEC_MAX \in Nat /\ TB_SEC_MAX >= 1
  BY ToolboxAssumption
<1>2. S \subseteq Nat /\ (\A s \in S : s <= TB_SEC_MAX) /\ S # {}
  BY <1>1
<1>3. IsFiniteSet(S)
  BY <1>1, <1>2, FS_BoundedSetOfNaturals
<1>4. Most(S) \in S /\ \A y \in S : y <= Most(S)
  BY <1>2, <1>3, MostIs
<1>5. TailMax = Most(S)
  BY DEF TailMax
<1> QED BY <1>1, <1>2, <1>4, <1>5

\* A chunk's payload fills the blocks it takes.
LEMMA ChunkLen ==
  ASSUME Types, cmd.op = "data", cmd.blocks \in Chunks
  PROVE  /\ Span(cmd.blocks) \in Nat /\ Span(cmd.blocks) >= 1 /\ Span(cmd.blocks) <= TailMax
         /\ data_len = Span(cmd.blocks) * BLOCK /\ data_len \div BLOCK = Span(cmd.blocks)
<1>1. /\ cmd.blocks \in Nat /\ cmd.blocks <= TailMax /\ cmd.blocks <= TB_SEC_MAX
      /\ TailMax \in Nat /\ TailMax >= 1
  BY TailSizes
<1>2. BLOCK \in Nat /\ BLOCK > 0 /\ TB_SEC_MAX \in Nat
  BY Sizes
<1>3. Span(cmd.blocks) \in Nat /\ Span(cmd.blocks) >= 1 /\ Span(cmd.blocks) <= TailMax
  BY <1>1 DEF Span
<1>4. data_len = Span(cmd.blocks) * BLOCK
  <2>1. Least(cmd.blocks, TB_SEC_MAX) = cmd.blocks
    BY <1>1, <1>2 DEF Least
  <2>2. 1 * BLOCK = BLOCK
    BY <1>2
  <2> QED BY <2>1, <2>2 DEF data_len, Span
<1>5. \A m \in Nat : (m * BLOCK) \div BLOCK = m
  BY <1>2
<1> QED BY <1>3, <1>4, <1>5

-----------------------------------------------------------------------------
(* UploadInv is inductive *)

LEMMA UploadInit == ASSUME Init PROVE UploadInv
<1>1. MaxCmds \in Nat /\ TailMax \in Nat /\ 0 * TailMax = 0
  BY ToolboxAssumption, TailSizes
<1> QED BY <1>1 DEF Init, UploadInv, ClientInv, RoomInv, CommandInv, PosInv, NoClient

\* Steps inside a command that do not load the CDB.
LEMMA UploadKept ==
  ASSUME UploadInv, UNCHANGED <<cmd, tb_send_pos>>,
         UNCHANGED <<client.open, client.chunks, client.pos, client.kept>>,
         phase' = "IDLE" <=> phase = "IDLE", CdbLoaded' <=> CdbLoaded
  PROVE  UploadInv'
<1>1. ClientInv' /\ RoomInv'
  BY DEF UploadInv, ClientInv, RoomInv, Valid
<1>2. CommandInv'
  BY DEF UploadInv, CommandInv
<1>3. PosInv'
  BY DEF UploadInv, PosInv
<1> QED BY <1>1, <1>2, <1>3 DEF UploadInv

\* A new command.
LEMMA UploadSelect == ASSUME Uniform, Types, UploadInv, Mac PROVE UploadInv'
<1>1. PICK op \in Ops, n \in Nat, blocks \in Nat : Idle /\ Select(op, n, blocks)
  BY MacSelects
<1>2. /\ phase = "IDLE" /\ tb_state = "IDLE" /\ cmd.id < MaxCmds /\ phase' \in {"TB", "DATA_IN"}
      /\ UNCHANGED <<client, tb_state, tb_send_pos>> /\ cmd'.id = cmd.id + 1
      /\ cmd'.index = client.chunks /\ cmd'.pos = client.pos
  BY <1>1 DEF Idle, Select
<1>3. ClientInv'
  BY <1>2 DEF UploadInv, ClientInv, Valid
<1>4. RoomInv'
  <2>1. cmd.id \in Nat /\ client.pos \in Nat /\ MaxCmds \in Nat /\ TailMax \in Nat
    BY ToolboxAssumption, TailSizes DEF Types, HostTypes, Command, Client
  <2>2. (cmd.id + 1) * TailMax = cmd.id * TailMax + TailMax /\ cmd.id * TailMax \in Nat
    BY <2>1
  <2>3. client.pos <= cmd.id * TailMax
    BY <1>2 DEF UploadInv, RoomInv
  <2> QED BY <1>2, <2>1, <2>2, <2>3 DEF RoomInv
<1>5. PosInv'
  BY <1>2 DEF UploadInv, PosInv, CdbLoaded
<1>6. CASE GetFile \/ SendEnd
  <2>1. cmd'.op \in {"get", "end"}
    BY <1>6 DEF GetFile, SendEnd, Select
  <2> QED BY <1>3, <1>4, <1>5, <2>1 DEF UploadInv, CommandInv
<1>7. CASE SendPrep
  <2>1. cmd'.op = "prep" /\ ~client.open
    BY <1>7 DEF SendPrep, Select
  <2> QED BY <1>2, <1>3, <1>4, <1>5, <2>1 DEF UploadInv, CommandInv
<1>8. CASE SendData
  <2>1. PICK b \in Chunks : /\ MixedChunks \/ SameClass(b)
                            /\ \E m \in (IF b = 0 THEN 1 .. BLOCK ELSE {0}) : Select("data", m, b)
    BY <1>8 DEF SendData
  <2>2. PICK m \in (IF b = 0 THEN 1 .. BLOCK ELSE {0}) : Select("data", m, b)
    BY <2>1
  <2>3. cmd'.op = "data" /\ cmd'.blocks = b /\ cmd'.n = m /\ client.open
    BY <1>8, <2>2 DEF Select, SendData
  <2>4. b = 0 => m \in 1 .. BLOCK
    BY <2>2
  <2> DEFINE Several == \A c \in client.kept : c.blocks > 1
  <2>5. client.chunks > 0 => (b > 1) = Several
    BY <2>1 DEF SameClass, Uniform
  <2>6. client.chunks \in Nat
    BY DEF Types, HostTypes, Client
  <2>10. ASSUME client.chunks # 0 PROVE (b > 1) = Several
    <3>1. client.chunks > 0
      BY <2>6, <2>10
    <3> QED BY <2>5, <3>1, Zenon
  <2>7. CASE client.chunks = 0
    BY <1>2, <1>3, <1>4, <1>5, <2>3, <2>4, <2>7 DEF UploadInv, ClientInv, CommandInv
  <2>8. CASE client.chunks # 0 /\ b > 1
    <3>1. Several
      BY <2>8, <2>10, Zenon
    <3> QED BY <1>2, <1>3, <1>4, <1>5, <2>3, <2>4, <2>8, <3>1 DEF UploadInv, CommandInv
  <2>9. CASE client.chunks # 0 /\ ~(b > 1)
    <3>1. ~Several
      BY <2>9, <2>10, Zenon
    <3>2. client.pos = client.chunks /\ \A c \in client.kept : c.blocks <= 1
      BY <3>1 DEF UploadInv, ClientInv
    <3> QED BY <1>2, <1>3, <1>4, <1>5, <2>3, <2>4, <2>9, <3>2 DEF UploadInv, CommandInv
  <2> QED BY <2>7, <2>8, <2>9
<1> QED BY <1>6, <1>7, <1>8 DEF Mac

\* The client gives its upload up.
LEMMA UploadDropped ==
  ASSUME Types, UploadInv, client' = NoClient, cmd' = cmd, phase' = "IDLE"
  PROVE  UploadInv'
<1>1. client'.open = FALSE /\ client'.chunks = 0 /\ client'.pos = 0 /\ client'.kept = {}
  BY DEF NoClient
<1>2. cmd.id * TailMax \in Nat
  BY TailSizes DEF Types, HostTypes, Command
<1>3. RoomInv'
  BY <1>1, <1>2 DEF UploadInv, RoomInv
<1> QED BY <1>1, <1>3 DEF UploadInv, ClientInv, CommandInv, PosInv, CdbLoaded

\* A command ends.
LEMMA UploadEnd == ASSUME Types, UploadInv, EndCommand PROVE UploadInv'
<1>1. /\ phase = "STATUS_OUT" /\ phase' = "IDLE" /\ client' = Concluded
      /\ UNCHANGED <<cmd, tb_state, tb_send_pos>> /\ CdbLoaded /\ ~CdbLoaded'
  BY DEF EndCommand, CdbLoaded
<1>2. CASE status # GOOD \/ cmd.op = "end"
  BY <1>1, <1>2, UploadDropped DEF Concluded
<1>3. CASE status = GOOD /\ cmd.op = "prep"
  <2>1. /\ client'.open /\ client'.chunks = 0 /\ client'.pos = 0 /\ client'.kept = {}
    BY <1>1, <1>3 DEF Concluded, NoClient
  <2>2. cmd.id * TailMax \in Nat /\ tb_send_pos = 0
    BY <1>1, <1>3, TailSizes DEF Types, HostTypes, Command, UploadInv, PosInv
  <2>3. RoomInv'
    BY <1>1, <2>1, <2>2 DEF UploadInv, RoomInv
  <2>4. PosInv'
    BY <1>1, <2>1, <2>2 DEF PosInv
  <2> QED BY <1>1, <2>1, <2>3, <2>4 DEF UploadInv, ClientInv, CommandInv
<1>4. CASE status = GOOD /\ cmd.op = "data"
  <2> DEFINE s == Span(cmd.blocks)
             new == [id |-> cmd.id, pos |-> cmd.pos, blocks |-> cmd.blocks, n |-> cmd.n,
                     sent |-> client.sent]
  <2>1. /\ client.open /\ cmd.pos = client.pos /\ cmd.blocks \in Chunks
        /\ cmd.blocks = 0 => cmd.n \in 1 .. BLOCK
        /\ IF cmd.blocks > 1
           THEN \A c \in client.kept : c.blocks > 1
           ELSE client.pos = client.chunks /\ \A c \in client.kept : c.blocks <= 1
    BY <1>1, <1>4 DEF UploadInv, CommandInv
  <2>2. s \in Nat /\ s >= 1 /\ s <= TailMax /\ data_len \div BLOCK = s
    BY <1>4, <2>1, ChunkLen
  <2>3. /\ client'.chunks = client.chunks + 1 /\ client'.pos = client.pos + s
        /\ client'.kept = client.kept \cup {new} /\ client'.open = client.open
    BY <1>1, <1>4, <2>2 DEF Concluded, Types, HostTypes, Client
  <2>4. /\ client.chunks \in Nat /\ client.pos \in Nat /\ cmd.id * TailMax \in Nat
        /\ TailMax \in Nat /\ BLOCK \in Nat /\ cmd.blocks \in Nat
        /\ \A c \in client.kept : c.blocks \in Nat /\ c.pos \in Nat /\ Span(c.blocks) \in Nat
    BY TailSizes, Sizes DEF Types, HostTypes, Command, Client, Kept, Span
  <2>5. RoomInv'
    <3>1. client.pos + TailMax <= cmd.id * TailMax
      BY <1>1 DEF UploadInv, RoomInv
    <3>2. client.pos + s <= cmd.id * TailMax
      BY <2>2, <2>4, <3>1
    <3> QED BY <1>1, <2>3, <3>2 DEF UploadInv, RoomInv
  <2>6. PosInv'
    <3>1. tb_send_pos = client.pos + s
      BY <1>1, <1>4, <2>1 DEF UploadInv, PosInv
    <3> QED BY <1>1, <2>2, <2>3, <2>4, <3>1 DEF PosInv
  <2>7. new.pos + Span(new.blocks) <= client'.pos /\ Valid(new) <= Span(new.blocks) * BLOCK
    <3>1. Valid(new) <= Span(new.blocks) * BLOCK
      <4>1. CASE cmd.blocks = 0
        BY <2>1, <2>4, <4>1 DEF Valid, Span
      <4>2. CASE cmd.blocks # 0
        <5>1. cmd.blocks * BLOCK \in Nat
          BY <2>4
        <5> QED BY <4>2, <5>1 DEF Valid, Span
      <4> QED BY <4>1, <4>2
    <3> QED BY <2>1, <2>2, <2>3, <2>4, <3>1
  <2>8. \A c \in client.kept : /\ c.pos + Span(c.blocks) <= client'.pos
                               /\ Valid(c) <= Span(c.blocks) * BLOCK
    <3> SUFFICES ASSUME NEW c \in client.kept
                 PROVE  /\ c.pos + Span(c.blocks) <= client'.pos
                        /\ Valid(c) <= Span(c.blocks) * BLOCK
      OBVIOUS
    <3>1. /\ c.pos + Span(c.blocks) <= client.pos /\ Valid(c) <= Span(c.blocks) * BLOCK
      BY DEF UploadInv, ClientInv
    <3> QED BY <2>2, <2>3, <2>4, <3>1
  <2>9. \/ \A c \in client'.kept : c.blocks > 1
        \/ client'.pos = client'.chunks /\ \A c \in client'.kept : c.blocks <= 1
    <3>1. CASE cmd.blocks > 1
      BY <2>1, <2>3, <3>1
    <3>2. CASE ~(cmd.blocks > 1)
      <4>1. s = 1 /\ cmd.blocks <= 1
        BY <2>4, <3>2 DEF Span
      <4> QED BY <2>1, <2>3, <3>2, <4>1
    <3> QED BY <3>1, <3>2
  <2>10. \A c \in client'.kept : /\ c.pos + Span(c.blocks) <= client'.pos
                                 /\ Valid(c) <= Span(c.blocks) * BLOCK
    BY <2>3, <2>7, <2>8
  <2>11. client'.chunks # 0 /\ client'.kept # {} /\ client'.open
    <3>1. client'.chunks # 0
      BY <2>3, <2>4
    <3>2. client'.kept # {}
      <4> HIDE DEF new
      <4> QED BY <2>3
    <3>3. client'.open
      BY <2>1, <2>3, Zenon
    <3> QED BY <3>1, <3>2, <3>3
  <2>12. ClientInv'
    BY <2>9, <2>10, <2>11 DEF ClientInv, Valid
  <2> QED BY <1>1, <2>5, <2>6, <2>12 DEF UploadInv, CommandInv
<1>5. CASE status = GOOD /\ cmd.op = "get"
  <2>1. client' = client
    BY <1>1, <1>5 DEF Concluded
  <2>2. client.pos \in Nat /\ TailMax \in Nat /\ cmd.id * TailMax \in Nat
    BY TailSizes DEF Types, HostTypes, Command, Client
  <2>3. RoomInv'
    BY <1>1, <2>1, <2>2 DEF UploadInv, RoomInv
  <2>4. PosInv'
    BY <1>1, <1>5, <2>1 DEF UploadInv, PosInv
  <2>5. ClientInv'
    BY <2>1 DEF UploadInv, ClientInv, Valid
  <2> QED BY <1>1, <2>3, <2>4, <2>5 DEF UploadInv, CommandInv
<1> QED BY <1>2, <1>3, <1>4, <1>5 DEF Types, HostTypes, Command, Ops

\* The CDB is loaded and the running position moves on.
LEMMA UploadLoad == ASSUME Types, Phases, UploadInv, Load PROVE UploadInv'
<1>1. /\ tb_state = "LOAD" /\ tb_state' = "REQ" /\ phase = "TB"
      /\ UNCHANGED <<phase, cmd, client>> /\ ~CdbLoaded /\ CdbLoaded'
  BY DEF Load, host, Phases, Types, HostTypes, CdbLoaded
<1>2. ClientInv' /\ RoomInv' /\ CommandInv'
  BY <1>1 DEF UploadInv, ClientInv, RoomInv, CommandInv, Valid
<1>3. PosInv'
  <2>1. CASE cmd.op = "prep"
    BY <1>1, <2>1 DEF UploadInv, CommandInv, PosInv, Load
  <2>2. CASE cmd.op = "data"
    <3>1. cmd.blocks \in Chunks /\ client.open
      BY <1>1, <2>2 DEF UploadInv, CommandInv
    <3>2. tb_send_pos' = tb_send_pos + Span(cmd.blocks)
      BY <2>2, <3>1, ChunkLen DEF Load
    <3>3. tb_send_pos = client.pos
      BY <1>1, <3>1 DEF UploadInv, PosInv, Types, HostTypes, Client
    <3> QED BY <1>1, <2>2, <3>1, <3>2, <3>3 DEF PosInv
  <2>3. CASE cmd.op \in {"get", "end"}
    <3>1. tb_send_pos' = tb_send_pos
      BY <2>3 DEF Load
    <3> QED BY <1>1, <2>3, <3>1 DEF UploadInv, PosInv
  <2> QED BY <2>1, <2>2, <2>3 DEF Types, HostTypes, Command, Ops
<1> QED BY <1>2, <1>3 DEF UploadInv

LEMMA UploadNext ==
  ASSUME Uniform, Types, Phases, UploadInv, [Next]_vars
  PROVE  UploadInv'
<1> USE DEF CdbLoaded
<1>1. CASE UNCHANGED vars
  BY <1>1, UploadKept DEF vars, host
<1>2. CASE Mac
  BY <1>2, UploadSelect
<1>3. CASE PutUnit \/ Handoff \/ AbortServe
  BY <1>3, UploadKept DEF PutUnit, Handoff, AbortServe, tb_collect
<1>14. CASE EndPayload
  <2>1. /\ phase = "DATA_IN" /\ phase' = "TB" /\ UNCHANGED <<cmd, tb_state, tb_send_pos>>
        /\ tb_state \in {"COLL", "COLLW"} /\ client' = [client EXCEPT !.sent = data_cnt]
    BY <1>14 DEF EndPayload, tb_collect
  <2>2. UNCHANGED <<client.open, client.chunks, client.pos, client.kept>>
    BY <2>1 DEF Types, HostTypes, Client
  <2> QED BY <2>1, <2>2, UploadKept
<1>4. CASE TakeUnit
  BY <1>4, UploadKept DEF TakeUnit
<1>5. CASE EndCommand
  BY <1>5, UploadEnd
<1>6. CASE Arm \/ ShipNext \/ Latch2 \/ FetchNext \/ Retire \/ ClearLine
  BY <1>6, UploadKept DEF Arm, ShipNext, Latch2, FetchNext, Retire, ClearLine, host, send
<1>7. CASE ShipLast
  <2>1. /\ UNCHANGED <<phase, cmd, client, tb_send_pos>> /\ tb_state = "COLL"
        /\ tb_state' \in {"COLLW", "LOAD"} /\ phase = "TB"
    BY <1>7 DEF ShipLast
  <2> QED BY <2>1, UploadKept
<1>8. CASE Load
  BY <1>8, UploadLoad
<1>9. CASE Poll \/ Raise \/ TakeBlock \/ GiveBlock \/ Rearm
  BY <1>9, UploadKept DEF Poll, Raise, TakeBlock, GiveBlock, Rearm, host
<1>10. CASE ShipGiveUp \/ FetchGiveUp
  BY <1>10, UploadKept DEF ShipGiveUp, FetchGiveUp, Shipped, host
<1>11. CASE StatTimeout
  BY <1>11, UploadKept DEF StatTimeout, Look, host
<1>12. CASE Drop
  <2>1. UNCHANGED <<host, tb_send_pos>>
    BY <1>12 DEF Drop
  <2>2. \/ tb_state = "COLLW" /\ tb_state' = "COLL"
        \/ tb_state \in {"REQ", "STAT", "DATA", "STREAM"}
           /\ tb_state' \in {"STAT", "LATCH2", "RDY", "STREAM"}
        \/ tb_state' = tb_state
    BY <1>12 DEF Drop, AckFall, Shipped, Look, SectorIn
  <2> QED BY <2>1, <2>2, UploadKept DEF host
<1>13. CASE BusReset
  BY <1>13, UploadDropped DEF BusReset
<1> QED BY <1>1, <1>2, <1>3, <1>4, <1>5, <1>6, <1>7, <1>8, <1>9, <1>10, <1>11, <1>12, <1>13,
           <1>14
        DEF Next, Bus, Fsm, Hps, Watchdog

-----------------------------------------------------------------------------
(* PayloadInv is inductive *)

LEMMA SecOrder ==
  ASSUME NEW a \in Nat, NEW b \in Nat
  PROVE  /\ a <= b => SecOf(a) <= SecOf(b)
         /\ a < b /\ b % BLOCK = 0 => SecOf(a) < SecOf(b)
         /\ SecOf(a) = SecOf(b) /\ a % BLOCK = b % BLOCK => a = b
<1> DEFINE p == SecOf(a)
           q == SecOf(b)
           m == a % BLOCK
           n == b % BLOCK
<1>1. /\ p \in Nat /\ q \in Nat /\ m \in Unit /\ n \in Unit
      /\ a = p * BLOCK + m /\ b = q * BLOCK + n
  BY Place
<1>2. BLOCK \in Nat /\ BLOCK > 0 /\ m \in Nat /\ n \in Nat /\ m < BLOCK /\ n < BLOCK
  BY <1>1, Sizes DEF Unit
<1> HIDE DEF p, q, m, n
<1>3. p * BLOCK \in Nat /\ q * BLOCK \in Nat
  BY <1>1, <1>2
<1>4. ASSUME q < p PROVE p * BLOCK >= q * BLOCK + BLOCK
  <2>1. (p - q) * BLOCK >= BLOCK
    BY <1>1, <1>2, <1>4
  <2>2. (p - q) * BLOCK = p * BLOCK - q * BLOCK
    BY <1>1, <1>2
  <2> QED BY <1>2, <1>3, <2>1, <2>2
<1>5. a <= b => p <= q
  BY <1>1, <1>2, <1>3, <1>4
<1>6. a < b /\ n = 0 => p # q
  BY <1>1, <1>2, <1>3
<1>7. p = q /\ m = n => a = b
  BY <1>1
<1> QED BY <1>1, <1>5, <1>6, <1>7 DEF p, q, m, n

\* A unit of the payload and its place in the ring and in the tail.
LEMMA PayloadAt ==
  ASSUME Types, UploadInv, phase # "IDLE", cmd.op = "data"
  PROVE  /\ Valid(cmd) \in Nat /\ data_len \in Nat /\ Valid(cmd) <= data_len
         /\ Payload \subseteq 0 .. Valid(cmd) - 1
         /\ \A k \in 0 .. Valid(cmd) - 1 :
              /\ k \in Nat /\ k + HEAD \in Nat /\ k < Valid(cmd)
              /\ SecAt(k) \in Nat /\ PosAt(k) \in Unit /\ SecAt(k) <= TailMax
<1> DEFINE s == Span(cmd.blocks)
<1>1. cmd.blocks \in Chunks /\ (cmd.blocks = 0 => cmd.n \in 1 .. BLOCK)
  BY DEF UploadInv, CommandInv
<1>2. s \in Nat /\ s >= 1 /\ s <= TailMax /\ data_len = s * BLOCK
  BY <1>1, ChunkLen
<1>3. BLOCK \in Nat /\ HEAD \in Nat /\ HEAD < BLOCK /\ cmd.blocks \in Nat /\ TailMax \in Nat
  BY <1>1, Sizes, TailSizes
<1>4. s * BLOCK \in Nat /\ (s + 1) * BLOCK = s * BLOCK + BLOCK
  BY <1>2, <1>3
<1>5. Valid(cmd) \in Nat /\ Valid(cmd) <= s * BLOCK
  <2>1. CASE cmd.blocks = 0
    <3>1. s = 1 /\ Valid(cmd) = cmd.n /\ 1 * BLOCK = BLOCK
      BY <1>3, <2>1 DEF Valid, Span
    <3> QED BY <1>1, <1>3, <2>1, <3>1
  <2>2. CASE cmd.blocks # 0
    <3>1. s = cmd.blocks /\ Valid(cmd) = cmd.blocks * BLOCK
      BY <2>2 DEF Valid, Span
    <3> QED BY <1>4, <3>1
  <2> QED BY <2>1, <2>2
<1>6. ASSUME NEW k \in 0 .. Valid(cmd) - 1
      PROVE  /\ k \in Nat /\ k + HEAD \in Nat /\ k < Valid(cmd)
             /\ SecAt(k) \in Nat /\ PosAt(k) \in Unit /\ SecAt(k) <= TailMax
  <2>1. k \in Nat /\ k + HEAD \in Nat /\ k < Valid(cmd)
    BY <1>3, <1>5, <1>6
  <2>2. SecAt(k) \in Nat /\ PosAt(k) \in Unit
    BY <2>1, Place DEF SecAt, PosAt
  <2>3. k + HEAD < (s + 1) * BLOCK
    BY <1>3, <1>4, <1>5, <2>1
  <2>4. ((s + 1) * BLOCK) % BLOCK = 0 /\ SecOf((s + 1) * BLOCK) = s + 1
    <3>1. \A m \in Nat : (m * BLOCK) % BLOCK = 0 /\ (m * BLOCK) \div BLOCK = m
      BY <1>3
    <3>2. s + 1 \in Nat
      BY <1>2
    <3> QED BY <3>1, <3>2 DEF SecOf
  <2>5. (s + 1) * BLOCK \in Nat
    BY <1>3, <1>4
  <2>6. SecAt(k) < s + 1
    BY <2>1, <2>3, <2>4, <2>5, SecOrder DEF SecAt
  <2> QED BY <1>2, <1>3, <2>1, <2>2, <2>6
<1> QED BY <1>2, <1>4, <1>5, <1>6 DEF Payload

\* Steps outside a SEND's transfers to the HPS.
LEMMA NotSending ==
  ASSUME tb_state' \notin {"COLL", "COLLW", "LOAD", "REQ"}, Direct'
  PROVE  PayloadInv'
  BY DEF PayloadInv, ShipAt, RingHolds, TailHolds, AckedHolds, Draining

\* Steps that leave the payload, its ring and its tails alone.
LEMMA PayloadStays ==
  ASSUME PayloadInv, hps.st' = "moved" => hps.st = "moved",
         UNCHANGED <<phase, data_cnt, cmd, client, tb_state, tb_lba_r, tb_fetch_sec, send,
                     tb_buf, tail>>
  PROVE  PayloadInv'
<1> USE DEF PayloadInv, send
<1>1. Direct' /\ ShipAt'
  BY DEF Direct, ShipAt
<1>2. RingHolds'
  BY DEF RingHolds, Payload, Valid, InRing
<1>3. TailHolds' /\ AckedHolds'
  BY DEF TailHolds, AckedHolds, Payload, Valid, InTail
<1>4. Draining'
  BY DEF Draining, Payload, Valid, tb_col_lin
<1> QED BY <1>1, <1>2, <1>3, <1>4

\* A unit of the payload goes into the ring, over no unit still to be shipped.
LEMMA PayloadPut ==
  ASSUME Types, UploadInv, CollectInv, CollectInv', PayloadInv, PutUnit
  PROVE  PayloadInv'
<1> DEFINE lin == data_cnt + HEAD
           u0  == lin % BLOCK
<1>1. /\ Collecting /\ Collecting' /\ ~tb_col_stall /\ data_cnt' = data_cnt + 1
      /\ UNCHANGED <<phase, cmd, client, tb_state, tb_ship_done, tb_ship_slot, tb_send_fault,
                     tb_lba_r, tb_fetch_sec, tail, hps>>
      /\ tb_buf' = [tb_buf EXCEPT ![tb_col_slot][u0] = <<"pay", cmd.id, data_cnt>>]
      /\ tb_col_lba' \in {tb_col_lba, tb_col_lba + 1}
  BY DEF PutUnit, tb_collect, Collecting, tb_col_lin, lines, files
<1>2. /\ data_cnt \in Nat /\ lin \in Nat /\ tb_col_lba \in Nat /\ tb_ship_done \in Nat
      /\ TB_MAXSEC \in Nat /\ tb_col_slot \in Slot
  BY Sizes DEF Types, HostTypes, SendTypes
<1>3. tb_col_lba = SecOf(lin) /\ tb_col_slot = RingSlot(tb_col_lba)
  BY <1>1 DEF CollectInv, CollectAt, tb_col_lin
<1>4. tb_col_slot' = RingSlot(tb_col_lba)' /\ tb_ship_slot' = RingSlot(tb_ship_done + 1)'
  BY <1>1 DEF CollectInv, CollectAt
<1>5. ShipAt'
  <2>1. /\ phase = "DATA_IN" /\ tb_state \in {"COLL", "COLLW"}
        /\ tb_col_lba = 0 => tb_ship_done = 0 /\ tb_state = "COLL"
        /\ tb_col_lba # 0 => tb_ship_done < tb_col_lba
        /\ tb_state = "COLLW" =>
             /\ tb_lba_r = tb_ship_done + 1 /\ tb_fetch_sec = RingSlot(tb_ship_done + 1)
             /\ tb_col_lba # 0 => tb_ship_done + 1 < tb_col_lba
    BY <1>1 DEF PayloadInv, ShipAt, Collecting
  <2>2. tb_ship_done < tb_col_lba \/ (tb_col_lba = 0 /\ tb_ship_done = 0)
    BY <1>2, <2>1
  <2>3. tb_col_lba' # 0 => tb_ship_done < tb_col_lba'
    BY <1>1, <1>2, <2>2
  <2>4. tb_col_lba' = 0 => tb_ship_done = 0 /\ tb_state = "COLL"
    BY <1>1, <1>2, <2>1
  <2>5. tb_state = "COLLW" => tb_ship_done + 1 < tb_col_lba'
    BY <1>1, <1>2, <2>1
  <2> QED BY <1>1, <1>4, <2>1, <2>3, <2>4, <2>5 DEF ShipAt
<1>6. RingHolds'
  <2> SUFFICES ASSUME cmd.op = "data", NEW k \in Payload, k < data_cnt + 1,
                      SecAt(k) = 0 \/ SecAt(k) > tb_ship_done
               PROVE  tb_buf'[RingSlot(SecAt(k))][PosAt(k)] = <<"pay", cmd.id, k>>
    <3>1. /\ UNCHANGED <<phase, cmd, client, tb_state, tb_ship_done>> /\ data_cnt' = data_cnt + 1
          /\ phase = "DATA_IN" /\ tb_state # "REQ"
      BY <1>1 DEF Collecting
    <3> QED BY <3>1 DEF RingHolds, Payload, Valid, InRing
  <2>1. phase # "IDLE" /\ phase = "DATA_IN" /\ tb_state \in {"COLL", "COLLW"}
    BY <1>1 DEF Collecting
  <2>2. k \in Nat /\ k + HEAD \in Nat /\ SecAt(k) \in Nat /\ PosAt(k) \in Unit
    BY <2>1, PayloadAt
  <2>3. u0 \in Unit
    BY <1>2, Place
  <2>4. /\ tb_buf'[tb_col_slot][u0] = <<"pay", cmd.id, data_cnt>>
        /\ \A u \in Unit : u # u0 => tb_buf'[tb_col_slot][u] = tb_buf[tb_col_slot][u]
        /\ \A x \in Slot : x # tb_col_slot => tb_buf'[x] = tb_buf[x]
    <3>1. tb_buf \in [Slot -> Sector]
      BY DEF Types, HpsTypes
    <3> HIDE DEF u0
    <3> QED BY <1>1, <1>2, <2>3, <3>1 DEF Sector
  <2>5. CASE k = data_cnt
    <3>1. SecAt(k) = tb_col_lba /\ PosAt(k) = u0
      BY <1>3, <2>5 DEF SecAt, PosAt
    <3> HIDE DEF u0
    <3> QED BY <1>3, <2>4, <2>5, <3>1
  <2>6. CASE k # data_cnt
    <3>1. k < data_cnt /\ k + HEAD <= lin /\ k + HEAD # lin
      BY <1>2, <2>2, <2>6, Sizes
    <3>2. tb_buf[RingSlot(SecAt(k))][PosAt(k)] = <<"pay", cmd.id, k>>
      BY <2>1, <3>1 DEF PayloadInv, RingHolds, InRing
    <3>3. SecAt(k) <= tb_col_lba
      BY <1>2, <1>3, <2>2, <3>1, SecOrder DEF SecAt
    <3>4. CASE SecAt(k) = tb_col_lba
      <4>1. PosAt(k) # u0
        BY <1>2, <1>3, <2>2, <3>1, <3>4, SecOrder DEF SecAt, PosAt
      <4> HIDE DEF u0
      <4> QED BY <1>3, <2>2, <2>4, <3>2, <3>4, <4>1
    <3>5. CASE SecAt(k) # tb_col_lba
      <4>1. SecAt(k) < tb_col_lba
        BY <1>2, <2>2, <3>3, <3>5
      <4>2. tb_col_lba - tb_ship_done < TB_MAXSEC - 1
        BY <1>1, <1>2 DEF tb_col_stall, tb_collect, Collecting
      <4>3. RingSlot(SecAt(k)) # RingSlot(tb_col_lba)
        <5>1. CASE SecAt(k) = 0
          <6>1. tb_col_lba # 0 /\ tb_col_lba - 1 \in Nat /\ TB_MAXSEC - 1 \in Nat
                /\ TB_MAXSEC - 1 > 0
            BY <1>2, <4>1, <5>1, Sizes
          <6>2. (tb_col_lba - 1) % (TB_MAXSEC - 1) \in Nat
            BY <6>1
          <6> QED BY <5>1, <6>1, <6>2 DEF RingSlot
        <5>2. CASE SecAt(k) > tb_ship_done
          <6>1. tb_col_lba < SecAt(k) + (TB_MAXSEC - 1)
            BY <1>2, <2>2, <4>2, <5>2
          <6> QED BY <1>2, <2>2, <4>1, <6>1, RingSlotDistinct
        <5> QED BY <5>1, <5>2
      <4>4. RingSlot(SecAt(k)) \in Slot
        BY <2>2, RingSlotNext
      <4> QED BY <1>3, <2>4, <3>2, <4>3, <4>4
    <3> QED BY <3>4, <3>5
  <2> QED BY <2>5, <2>6
<1>7. TailHolds' /\ AckedHolds'
  BY <1>1 DEF PayloadInv, TailHolds, AckedHolds, Payload, Valid, InTail
<1>8. Draining' /\ Direct'
  BY <1>1 DEF Draining, Direct, Collecting
<1> QED BY <1>5, <1>6, <1>7, <1>8 DEF PayloadInv

\* The payload is over: every unit taken that the handler will write is in the
\* ring or shipped.
LEMMA PayloadOver ==
  ASSUME Types, UploadInv, CollectInv, PayloadInv, EndPayload
  PROVE  PayloadInv'
<1>1. /\ Collecting /\ phase = "DATA_IN" /\ phase' = "TB" /\ data_cnt' \in {data_cnt, 0}
      /\ client' = [client EXCEPT !.sent = data_cnt]
      /\ UNCHANGED <<cmd, tb_state, send, tb_lba_r, tb_fetch_sec, tb_buf, tail, hps>>
  BY DEF EndPayload, tb_collect, Collecting, lines, files
<1>2. /\ data_cnt \in Nat /\ data_cnt + HEAD \in Nat /\ HEAD \in Nat /\ tb_ship_done \in Nat
      /\ tb_col_lba \in Nat
  BY Sizes DEF Types, HostTypes, SendTypes
<1>3. tb_col_lba = SecOf(data_cnt + HEAD)
  BY <1>1 DEF CollectInv, CollectAt, tb_col_lin
<1>9. Payload' = {k \in 0 .. Valid(cmd) - 1 : k < data_cnt} /\ Payload = 0 .. Valid(cmd) - 1
  <2>1. client'.sent = data_cnt
    BY <1>1 DEF Types, HostTypes, Client
  <2> QED BY <1>1, <2>1 DEF Payload, Valid
<1>4. ASSUME cmd.op = "data", NEW k \in Payload'
      PROVE  /\ k \in Payload /\ k \in Nat /\ k < data_cnt /\ k + HEAD \in Nat
             /\ k + HEAD < data_cnt + HEAD /\ SecAt(k) \in Nat
  <2>1. phase # "IDLE"
    BY <1>1
  <2>2. k \in Payload /\ k < data_cnt
    BY <1>9, <1>4
  <2>3. k \in Nat /\ k + HEAD \in Nat /\ SecAt(k) \in Nat
    BY <1>4, <2>1, <2>2, PayloadAt
  <2> QED BY <1>2, <2>2, <2>3
<1>5. ShipAt' /\ Direct'
  BY <1>1 DEF PayloadInv, ShipAt, Direct, Collecting, send
<1>6. RingHolds'
  BY <1>1, <1>4 DEF PayloadInv, RingHolds, InRing, Collecting, send
<1>7. TailHolds' /\ AckedHolds'
  BY <1>1, <1>4 DEF PayloadInv, TailHolds, AckedHolds, InTail, send
<1>8. Draining'
  <2> SUFFICES ASSUME cmd.op = "data", NEW k \in Payload'
               PROVE  /\ SecAt(k) <= tb_col_lba
                      /\ tb_col_lin' % BLOCK = 0 => SecAt(k) < tb_col_lba
                      /\ tb_col_lba = 0 => SecAt(k) <= tb_ship_done /\ SecAt(k) <= tb_ship_done + 1
    BY <1>1 DEF Draining, Collecting, send
  <2>1. k + HEAD \in Nat /\ k + HEAD < data_cnt + HEAD /\ SecAt(k) \in Nat
    BY <1>4
  <2>2. SecAt(k) <= tb_col_lba
    BY <1>2, <1>3, <2>1, SecOrder DEF SecAt
  <2>3. ASSUME tb_col_lin' % BLOCK = 0 PROVE SecAt(k) < tb_col_lba
    <3>1. CASE data_cnt' = data_cnt
      <4>1. (data_cnt + HEAD) % BLOCK = 0
        BY <2>3, <3>1 DEF tb_col_lin
      <4> QED BY <1>2, <1>3, <2>1, <4>1, SecOrder DEF SecAt
    <3>2. CASE data_cnt' = 0
      <4>1. 0 + HEAD = HEAD /\ HEAD % BLOCK = HEAD /\ HEAD # 0
        BY Sizes
      <4> QED BY <2>3, <3>2, <4>1 DEF tb_col_lin
    <3> QED BY <1>1, <3>1, <3>2
  <2>4. tb_col_lba = 0 => SecAt(k) <= tb_ship_done /\ SecAt(k) <= tb_ship_done + 1
    BY <1>2, <2>1, <2>2
  <2> QED BY <2>2, <2>3, <2>4
<1> QED BY <1>5, <1>6, <1>7, <1>8 DEF PayloadInv

\* The ring is armed for a payload, or a round trip without one starts.
LEMMA PayloadArm == ASSUME Types, UploadInv, Phases, PayloadInv, Arm PROVE PayloadInv'
<1>1. tb_state = "IDLE" /\ UNCHANGED <<phase, data_cnt, cmd, client>>
  BY DEF Arm, host
<1>2. CASE phase = "TB"
  <2>1. cmd.op \in {"get", "end"} /\ tb_state' = "LOAD"
    BY <1>1, <1>2 DEF PayloadInv, Direct, Arm
  <2> QED BY <1>1, <2>1
          DEF PayloadInv, Direct, ShipAt, RingHolds, TailHolds, AckedHolds, Draining
<1>3. CASE phase = "DATA_IN"
  <2>1. /\ tb_state' = "COLL" /\ tb_col_lba' = 0 /\ tb_ship_done' = 0 /\ tb_ship_slot' = 1
        /\ data_cnt = 0
    BY <1>1, <1>3 DEF Arm, Phases
  <2>2. RingSlot(1) = 1
    <3>1. TB_MAXSEC - 1 \in Nat /\ TB_MAXSEC - 1 > 0
      BY Sizes
    <3>2. 0 % (TB_MAXSEC - 1) = 0
      BY <3>1
    <3> QED BY <3>2 DEF RingSlot
  <2>3. ShipAt'
    BY <2>1, <2>2 DEF ShipAt
  <2>4. cmd.op = "data" => \A k \in Payload : k \in Nat /\ SecAt(k) \in Nat
    BY <1>3, PayloadAt
  <2>5. RingHolds'
    BY <1>1, <1>3, <2>1, <2>4 DEF RingHolds, Payload, Valid
  <2>6. TailHolds'
    BY <1>1, <2>1, <2>4 DEF TailHolds, Payload, Valid
  <2>7. AckedHolds' /\ Draining' /\ Direct'
    BY <1>1, <1>3, <2>1 DEF AckedHolds, Draining, Direct
  <2> QED BY <2>3, <2>5, <2>6, <2>7 DEF PayloadInv
<1> QED BY <1>2, <1>3 DEF Arm

\* The oldest finished sector is requested.
LEMMA PayloadShipNext ==
  ASSUME Types, AckOwned, Phases, PayloadInv, ShipNext PROVE PayloadInv'
<1>1. /\ tb_state = "COLL" /\ tb_state' = "COLLW" /\ tb_ship_pending
      /\ UNCHANGED <<phase, data_cnt, cmd, client, send, tb_buf, tail, hps>>
      /\ tb_lba_r' = tb_ship_done + 1 /\ tb_fetch_sec' = tb_ship_slot
  BY DEF ShipNext, Issue, host, files
<1>2. tb_col_lba # 0 /\ tb_ship_done + 1 < tb_col_lba
  BY <1>1 DEF tb_ship_pending, Types, SendTypes
<1>3. ShipAt' /\ Direct'
  BY <1>1, <1>2 DEF PayloadInv, ShipAt, Direct, send
<1>4. RingHolds'
  BY <1>1 DEF PayloadInv, RingHolds, Payload, Valid, InRing, send
<1>5. TailHolds'
  BY <1>1 DEF PayloadInv, TailHolds, Payload, Valid, InTail, send
<1>6. AckedHolds'
  BY <1>1 DEF AckOwned, AckedHolds
<1>7. Draining'
  BY <1>1, <1>2 DEF PayloadInv, Draining, Payload, Valid, tb_col_lin, send
<1> QED BY <1>3, <1>4, <1>5, <1>6, <1>7 DEF PayloadInv

\* After the payload, the short last sector is requested or the CDB is next.
LEMMA PayloadShipLast ==
  ASSUME Types, UploadInv, AckOwned, PayloadInv, ShipLast PROVE PayloadInv'
<1>1. /\ tb_state = "COLL" /\ ~tb_ship_pending /\ phase = "TB" /\ phase' = "TB"
      /\ UNCHANGED <<cmd, client, tb_ship_done, tb_ship_slot, tb_send_fault, tb_buf, tail, hps>>
  BY DEF ShipLast, files
<1>2. tb_col_lba \in Nat /\ tb_ship_done \in Nat
  BY DEF Types, SendTypes
<1>3. /\ tb_ship_slot = RingSlot(tb_ship_done + 1)
      /\ tb_col_lba # 0 => /\ tb_col_slot = RingSlot(tb_col_lba)
                           /\ tb_col_lba = tb_ship_done + 1
  BY <1>1, <1>2 DEF PayloadInv, ShipAt, tb_ship_pending
<1>4. ASSUME cmd.op = "data", NEW k \in Payload
      PROVE  /\ SecAt(k) \in Nat
             /\ tb_col_lba # 0 => SecAt(k) <= tb_col_lba
             /\ tb_col_lba # 0 /\ tb_col_lin % BLOCK = 0 => SecAt(k) < tb_col_lba
             /\ tb_col_lba = 0 => SecAt(k) <= tb_ship_done
  <2>1. SecAt(k) \in Nat
    BY <1>1, <1>4, PayloadAt
  <2> QED BY <1>1, <1>4, <2>1 DEF PayloadInv, Draining
<1>5. tb_state' \in {"COLLW", "LOAD"}
  BY DEF ShipLast
<1>6. RingHolds'
  BY <1>1, <1>5 DEF PayloadInv, RingHolds, Payload, Valid, InRing
<1>7. TailHolds'
  BY <1>1, <1>5 DEF PayloadInv, TailHolds, Payload, Valid, InTail
<1>8. AckedHolds' /\ Direct'
  BY <1>1, <1>5 DEF AckOwned, AckedHolds, Direct
<1>9. CASE tb_col_lba # 0 /\ tb_col_lin % BLOCK # 0
  <2>1. /\ tb_state' = "COLLW" /\ tb_lba_r' = tb_col_lba /\ tb_fetch_sec' = tb_col_slot
        /\ tb_col_lba' = 0
    BY <1>9 DEF ShipLast, Issue
  <2>2. ShipAt'
    BY <1>1, <1>3, <1>9, <2>1 DEF ShipAt
  <2>3. Draining'
    BY <1>1, <1>2, <1>3, <1>4, <1>9, <2>1 DEF Draining, Payload, Valid
  <2> QED BY <1>6, <1>7, <1>8, <2>2, <2>3 DEF PayloadInv
<1>10. CASE ~(tb_col_lba # 0 /\ tb_col_lin % BLOCK # 0)
  <2>1. tb_state' = "LOAD"
    BY <1>10 DEF ShipLast
  <2>2. ShipAt'
    BY <2>1 DEF ShipAt
  <2>3. ASSUME cmd.op = "data", NEW k \in Payload PROVE SecAt(k) <= tb_ship_done
    BY <1>2, <1>3, <1>4, <1>10, <2>3
  <2>4. Draining'
    BY <1>1, <2>1, <2>3 DEF Draining, Payload, Valid
  <2> QED BY <1>6, <1>7, <1>8, <2>2, <2>4 DEF PayloadInv
<1> QED BY <1>9, <1>10

\* The CDB goes in front of the first units of the payload.
LEMMA PayloadLoad ==
  ASSUME Types, UploadInv, Phases, PayloadInv, Load PROVE PayloadInv'
<1>1. /\ tb_state = "LOAD" /\ tb_state' = "REQ" /\ phase = "TB"
      /\ UNCHANGED <<phase, cmd, client, send, tail, hps>>
  BY DEF Load, host, files, Phases, Types, HostTypes
<1>2. \A u \in Unit : u >= HEAD => tb_buf'[0][u] = tb_buf[0][u]
  <2>3. tb_buf'[0] = [u \in Unit |-> IF u < HEAD THEN <<"cdb", cmd.id, Offset>> ELSE tb_buf[0][u]]
    BY Loaded
  <2>4. HEAD \in Nat /\ Unit \subseteq Nat
    BY Sizes DEF Unit
  <2> QED BY <2>3, <2>4
<1>3. RingHolds'
  <2> SUFFICES ASSUME cmd.op = "data", NEW k \in Payload, SecAt(k) = 0
               PROVE  tb_buf'[RingSlot(SecAt(k))][PosAt(k)] = <<"pay", cmd.id, k>>
    BY <1>1 DEF RingHolds, Payload, Valid, InRing
  <2>1. k \in Nat /\ k + HEAD \in Nat /\ PosAt(k) \in Unit
    BY <1>1, PayloadAt
  <2>2. PosAt(k) >= HEAD
    <3>1. k + HEAD = SecAt(k) * BLOCK + PosAt(k)
      BY <2>1, Place DEF SecAt, PosAt
    <3>2. SecAt(k) * BLOCK = 0 /\ PosAt(k) \in Nat /\ HEAD \in Nat
      BY <2>1, Sizes DEF Unit
    <3> HIDE DEF SecAt, PosAt
    <3> QED BY <2>1, <3>1, <3>2
  <2>3. RingSlot(SecAt(k)) = 0
    BY DEF RingSlot
  <2>4. tb_buf[RingSlot(SecAt(k))][PosAt(k)] = <<"pay", cmd.id, k>>
    BY <1>1 DEF PayloadInv, RingHolds, InRing
  <2> HIDE DEF SecAt, PosAt
  <2> QED BY <1>2, <2>1, <2>2, <2>3, <2>4
<1>4. TailHolds'
  BY <1>1 DEF PayloadInv, TailHolds, Payload, Valid, InTail, send
<1>5. Draining'
  BY <1>1 DEF PayloadInv, Draining, Payload, Valid, send
<1>6. Direct' /\ ShipAt' /\ AckedHolds'
  BY <1>1 DEF Direct, ShipAt, AckedHolds
<1> QED BY <1>3, <1>4, <1>5, <1>6 DEF PayloadInv

\* The HPS takes a block: a sector of the payload lands in its tail.
LEMMA PayloadTake ==
  ASSUME Types, AckOwned, StatusRead, Phases, UploadInv, CollectInv, PayloadInv,
         DOMAIN tail = 1 .. TailMax, TakeBlock
  PROVE  PayloadInv'
<1>1. /\ hps.st = "ack" /\ hps.lba = tb_lba_r /\ tb_state \in {"COLLW", "REQ"}
      /\ UNCHANGED <<phase, data_cnt, cmd, client, tb_state, tb_lba_r, tb_fetch_sec, send,
                     tb_buf>>
  BY DEF TakeBlock, AckOwned, host, lines
<1>2. CASE tb_state = "REQ"
  <2>1. UNCHANGED tail
    BY <1>1, <1>2 DEF TakeBlock, StatusRead
  <2>2. RingHolds'
    BY <1>1 DEF PayloadInv, RingHolds, Payload, Valid, InRing, send
  <2>3. TailHolds'
    BY <1>1, <2>1 DEF PayloadInv, TailHolds, Payload, Valid, InTail, send
  <2>4. Draining'
    BY <1>1, <1>2 DEF PayloadInv, Draining, Payload, Valid, send
  <2>5. Direct' /\ ShipAt' /\ AckedHolds'
    BY <1>1, <1>2 DEF Direct, ShipAt, AckedHolds
  <2> QED BY <2>2, <2>3, <2>4, <2>5 DEF PayloadInv
<1>3. CASE tb_state = "COLLW"
  <2>1. /\ tb_lba_r = tb_ship_done + 1 /\ tb_fetch_sec = RingSlot(tb_ship_done + 1)
        /\ phase = "DATA_IN" => tb_col_lba # 0 /\ tb_ship_done + 1 < tb_col_lba
        /\ phase \in {"DATA_IN", "TB"}
    BY <1>3 DEF PayloadInv, ShipAt, Phases, Types, HostTypes
  <2>2. tb_ship_done \in Nat /\ tb_ship_done + 1 \in Nat /\ tb_lba_r # 0
        /\ data_cnt \in Nat /\ data_cnt + HEAD \in Nat /\ tb_col_lba \in Nat /\ HEAD \in Nat
    BY <2>1, Sizes DEF Types, SendTypes, HostTypes
  <2>3. tb_fetch_sec % TB_MAXSEC = tb_fetch_sec
    <3>1. tb_fetch_sec \in Slot
      BY <2>1, <2>2, RingSlotNext
    <3> QED BY <3>1, Sizes DEF Slot
  <2>4. tail' = [tail EXCEPT ![tb_lba_r] = tb_buf[RingSlot(tb_lba_r)]]
    BY <1>1, <2>1, <2>2, <2>3 DEF TakeBlock
  <2>5. AckedHolds'
    <3> SUFFICES ASSUME cmd.op = "data", NEW k \in Payload, SecAt(k) = tb_lba_r
                 PROVE  tail'[SecAt(k)][PosAt(k)] = <<"pay", cmd.id, k>>
      BY <1>1 DEF AckedHolds, Payload, Valid, InTail
    <3>1. k \in Nat /\ k + HEAD \in Nat /\ SecAt(k) \in Nat /\ SecAt(k) <= TailMax
      BY <2>1, PayloadAt
    <3>2. SecAt(k) \in DOMAIN tail
      BY <2>2, <3>1, TailSizes
    <3>3. ASSUME phase = "DATA_IN" PROVE k < data_cnt
      <4>1. SecAt(k) < SecOf(data_cnt + HEAD)
        BY <1>3, <2>1, <3>3 DEF CollectInv, CollectAt, Collecting, tb_col_lin
      <4>2. SecOf(data_cnt + HEAD) \in Nat
        BY <2>2, Place
      <4>3. ~(data_cnt + HEAD <= k + HEAD)
        BY <2>2, <3>1, <4>1, <4>2, SecOrder DEF SecAt
      <4> QED BY <2>2, <3>1, <4>3
    <3>4. SecAt(k) > tb_ship_done
      BY <2>1, <2>2
    <3>5. tb_buf[RingSlot(SecAt(k))][PosAt(k)] = <<"pay", cmd.id, k>>
      BY <1>3, <2>1, <3>3, <3>4 DEF PayloadInv, RingHolds, InRing
    <3> HIDE DEF SecAt, PosAt
    <3> QED BY <2>4, <3>2, <3>5
  <2>6. TailHolds'
    <3> SUFFICES ASSUME cmd.op = "data", ~tb_send_fault, NEW k \in Payload, SecAt(k) # 0,
                        SecAt(k) <= tb_ship_done
                 PROVE  tail'[SecAt(k)][PosAt(k)] = <<"pay", cmd.id, k>>
      BY <1>1 DEF TailHolds, Payload, Valid, InTail, send
    <3>1. SecAt(k) \in Nat /\ SecAt(k) <= TailMax
      BY <2>1, PayloadAt
    <3>2. SecAt(k) \in DOMAIN tail /\ SecAt(k) # tb_lba_r
      BY <2>1, <2>2, <3>1, TailSizes
    <3>3. tail[SecAt(k)][PosAt(k)] = <<"pay", cmd.id, k>>
      BY <1>3 DEF PayloadInv, TailHolds, InTail
    <3> HIDE DEF SecAt, PosAt
    <3> QED BY <2>4, <3>2, <3>3
  <2>7. ShipAt' /\ Direct'
    BY <1>1 DEF PayloadInv, ShipAt, Direct, send
  <2>8. RingHolds'
    BY <1>1 DEF PayloadInv, RingHolds, Payload, Valid, InRing, send
  <2>9. Draining'
    BY <1>1 DEF PayloadInv, Draining, Payload, Valid, tb_col_lin, send
  <2> QED BY <2>5, <2>6, <2>7, <2>8, <2>9 DEF PayloadInv
<1> QED BY <1>1, <1>2, <1>3

\* A sector is shipped, or given up and remembered as a fault.
LEMMA PayloadShipped ==
  ASSUME Types, Phases, UploadInv, PayloadInv, tb_state = "COLLW", NEW f \in BOOLEAN, Shipped(f),
         f \/ hps.st = "moved",
         UNCHANGED <<phase, data_cnt, cmd, client, tb_buf, tail, tb_col_slot, tb_col_lba>>
  PROVE  PayloadInv'
<1>1. /\ tb_state' = "COLL" /\ tb_ship_done' = tb_ship_done + 1
      /\ tb_ship_slot' = NextSlot(tb_ship_slot) /\ tb_send_fault' = (tb_send_fault \/ f)
  BY DEF Shipped
<1>2. tb_ship_done \in Nat /\ tb_ship_done + 1 \in Nat /\ tb_col_lba \in Nat
  BY DEF Types, SendTypes
<1>3. /\ tb_ship_slot = RingSlot(tb_ship_done + 1) /\ tb_lba_r = tb_ship_done + 1
      /\ tb_col_lba # 0 => tb_col_slot = RingSlot(tb_col_lba) /\ tb_ship_done + 1 < tb_col_lba
      /\ phase = "DATA_IN" => tb_col_lba # 0
      /\ phase \in {"DATA_IN", "TB"}
  BY DEF PayloadInv, ShipAt, Phases, Types, HostTypes
<1>4. ShipAt' /\ Direct'
  <2>1. tb_ship_slot' = RingSlot(tb_ship_done' + 1)
    BY <1>1, <1>2, <1>3, RingSlotNext
  <2> QED BY <1>1, <1>3, <2>1 DEF ShipAt, Direct
<1>5. cmd.op = "data" => \A k \in Payload : SecAt(k) \in Nat
  BY <1>3, PayloadAt
<1>6. RingHolds'
  <2> SUFFICES ASSUME cmd.op = "data", NEW k \in Payload, phase = "DATA_IN" => k < data_cnt,
                      SecAt(k) = 0 \/ SecAt(k) > tb_ship_done + 1
               PROVE  InRing(k)
    BY <1>1 DEF RingHolds, Payload, Valid, InRing
  <2>1. SecAt(k) = 0 \/ SecAt(k) > tb_ship_done
    BY <1>2, <1>5
  <2> QED BY <1>3, <2>1 DEF PayloadInv, RingHolds
<1>7. TailHolds'
  <2> SUFFICES ASSUME cmd.op = "data", ~tb_send_fault', NEW k \in Payload, SecAt(k) # 0,
                      SecAt(k) <= tb_ship_done + 1
               PROVE  InTail(k)
    BY <1>1 DEF TailHolds, Payload, Valid, InTail
  <2>1. ~tb_send_fault /\ ~f
    BY <1>1
  <2>2. CASE SecAt(k) = tb_lba_r
    BY <2>1, <2>2 DEF PayloadInv, AckedHolds
  <2>3. CASE SecAt(k) # tb_lba_r
    <3>1. SecAt(k) <= tb_ship_done
      BY <1>2, <1>3, <1>5, <2>3
    <3> QED BY <2>1, <3>1 DEF PayloadInv, TailHolds
  <2> QED BY <2>2, <2>3
<1>8. AckedHolds'
  BY <1>1 DEF AckedHolds
<1>9. Draining'
  BY <1>1, <1>5 DEF PayloadInv, Draining, Payload, Valid, tb_col_lin
<1> QED BY <1>4, <1>6, <1>7, <1>8, <1>9 DEF PayloadInv

LEMMA PayloadInit == ASSUME Init PROVE PayloadInv
  BY DEF Init, PayloadInv, Direct, ShipAt, RingHolds, TailHolds, AckedHolds, Draining

LEMMA PayloadNext ==
  ASSUME Types, LineInv, Phases, UploadInv, CollectInv, CollectInv', PayloadInv,
         DOMAIN tail = 1 .. TailMax, [Next]_vars
  PROVE  PayloadInv'
<1>1. AckOwned /\ StatusRead
  BY DEF LineInv
<1>2. CASE UNCHANGED vars
  BY <1>2, PayloadStays DEF vars, host, lines, files
<1>3. CASE Mac
  <2>1. PICK op \in Ops, n \in Nat, blocks \in Nat : Idle /\ Select(op, n, blocks)
    BY <1>3, MacSelects
  <2>2. tb_state' = "IDLE" /\ (phase' = "TB" => cmd'.op \in {"get", "end"})
    BY <2>1 DEF Idle, Select, Ops
  <2> QED BY <2>2, NotSending DEF Direct
<1>4. CASE PutUnit
  BY <1>4, PayloadPut
<1>5. CASE EndPayload
  BY <1>5, PayloadOver
<1>6. CASE Handoff \/ TakeUnit \/ AbortServe \/ EndCommand
  <2>1. phase' # "TB" /\ tb_state' = tb_state /\ tb_state \in {"STREAM", "RDY", "IDLE"}
    BY <1>6 DEF Handoff, TakeUnit, AbortServe, EndCommand, Phases
  <2> QED BY <2>1, NotSending DEF Direct
<1>7. CASE Arm
  BY <1>7, PayloadArm
<1>8. CASE ShipNext
  BY <1>1, <1>8, PayloadShipNext
<1>9. CASE ShipLast
  BY <1>1, <1>9, PayloadShipLast
<1>10. CASE Load
  BY <1>10, PayloadLoad
<1>11. CASE Latch2 \/ FetchNext \/ Retire \/ FetchGiveUp \/ StatTimeout \/ BusReset
  <2>1. tb_state' \in {"DATA", "RDY", "STREAM", "LATCH2", "STAT"}
        \/ (tb_state' = "IDLE" /\ phase' # "TB")
    BY <1>11 DEF Latch2, FetchNext, Retire, FetchGiveUp, StatTimeout, Look, BusReset, host
  <2> QED BY <2>1, NotSending DEF Direct
<1>12. CASE ClearLine \/ Rearm \/ Poll \/ Raise
  <2>1. hps'.st = "moved" => hps.st = "moved"
    BY <1>12 DEF ClearLine, Rearm, Poll, Raise, Types, HpsTypes
  <2>2. UNCHANGED <<phase, data_cnt, cmd, client, tb_state, tb_lba_r, tb_fetch_sec, send,
                    tb_buf, tail>>
    BY <1>12 DEF ClearLine, Rearm, Poll, Raise, host, lines, files
  <2> QED BY <2>1, <2>2, PayloadStays
<1>13. CASE TakeBlock
  BY <1>1, <1>13, PayloadTake
<1>14. CASE GiveBlock
  <2>1. tb_state \in {"STAT", "LATCH2", "DATA", "STREAM"} /\ tb_state' = tb_state
    BY <1>1, <1>14 DEF GiveBlock, AckOwned
  <2> QED BY <2>1, NotSending DEF Direct
<1>15. CASE Drop
  <2>1. UNCHANGED <<phase, data_cnt, cmd, client, tb_buf, tail>> /\ hps.st = "moved"
    BY <1>15 DEF Drop, host, files
  <2>2. CASE tb_state = "COLLW"
    BY <1>15, <2>1, <2>2, PayloadShipped DEF Drop, AckFall
  <2>3. CASE tb_state # "COLLW"
    <3>1. tb_state \in {"REQ", "STAT", "LATCH2", "DATA", "STREAM"}
          /\ (tb_state = "STREAM" => tb_fetch_busy)
      BY <1>1, <2>1, <2>3 DEF AckOwned
    <3>2. tb_state' \in {"STAT", "LATCH2", "RDY", "STREAM"}
      BY <1>15, <3>1 DEF Drop, AckFall, Look, SectorIn
    <3> QED BY <3>2, NotSending DEF Direct
  <2> QED BY <2>2, <2>3
<1>16. CASE ShipGiveUp
  BY <1>16, PayloadShipped DEF ShipGiveUp, host, files
<1> QED BY <1>2, <1>3, <1>4, <1>5, <1>6, <1>7, <1>8, <1>9, <1>10, <1>11, <1>12, <1>13,
           <1>14, <1>15, <1>16
        DEF Next, Bus, Fsm, Hps, Watchdog

-----------------------------------------------------------------------------
(* StoredInv and FileMatches are inductive *)

\* The chunk of the command in hand has room in the file.
LEMMA FileRoom ==
  ASSUME Types, UploadInv, phase # "IDLE"
  PROVE  /\ client.pos \in Nat /\ TailMax \in Nat /\ FileMax \in Nat
         /\ client.pos + TailMax <= FileMax
<1>1. /\ cmd.id \in Nat /\ client.pos \in Nat /\ TailMax \in Nat /\ MaxCmds \in Nat
      /\ cmd.id <= MaxCmds /\ client.pos + TailMax <= cmd.id * TailMax
  BY ToolboxAssumption, TailSizes DEF Types, HostTypes, Command, Client, UploadInv, RoomInv
<1>2. MaxCmds * TailMax \in Nat /\ cmd.id * TailMax \in Nat
  BY <1>1
<1>3. cmd.id * TailMax <= MaxCmds * TailMax
  <2>1. (MaxCmds - cmd.id) * TailMax >= 0
    BY <1>1
  <2>2. (MaxCmds - cmd.id) * TailMax = MaxCmds * TailMax - cmd.id * TailMax
    BY <1>1
  <2> QED BY <1>2, <2>1, <2>2
<1> QED BY <1>1, <1>2, <1>3 DEF FileMax

\* A unit lies in one of the blocks that hold it.
LEMMA UnitWithin ==
  ASSUME NEW s \in Nat, NEW u \in Nat, u < s * BLOCK
  PROVE  SecOf(u) \in Nat /\ SecOf(u) < s /\ u % BLOCK \in Unit
<1>1. BLOCK \in Nat /\ BLOCK > 0
  BY Sizes
<1>2. \A m \in Nat : (m * BLOCK) % BLOCK = 0 /\ (m * BLOCK) \div BLOCK = m /\ m * BLOCK \in Nat
  BY <1>1
<1>3. s * BLOCK \in Nat /\ (s * BLOCK) % BLOCK = 0 /\ SecOf(s * BLOCK) = s
  BY <1>2 DEF SecOf
<1> QED BY <1>3, SecOrder, Place

\* A chunk the client keeps lies before the command's.
LEMMA KeptBefore ==
  ASSUME Types, UploadInv, phase # "IDLE", NEW c \in client.kept, NEW u \in 0 .. Valid(c) - 1
  PROVE  /\ c.pos + SecOf(u) \in 0 .. FileMax /\ c.pos + SecOf(u) < client.pos
         /\ u % BLOCK \in Unit
<1>1. c.pos \in Nat /\ c.blocks \in Nat /\ c.n \in Nat
  BY DEF Types, HostTypes, Client, Kept
<1>2. c.pos + Span(c.blocks) <= client.pos /\ Valid(c) <= Span(c.blocks) * BLOCK
  BY DEF UploadInv, ClientInv
<1>3. BLOCK \in Nat /\ Span(c.blocks) \in Nat
  BY <1>1, Sizes DEF Span
<1>4. Valid(c) \in Nat /\ Span(c.blocks) * BLOCK \in Nat
  BY <1>1, <1>3 DEF Valid
<1>5. u \in Nat /\ u < Span(c.blocks) * BLOCK
  BY <1>2, <1>4
<1>6. SecOf(u) \in Nat /\ SecOf(u) < Span(c.blocks) /\ u % BLOCK \in Unit
  BY <1>3, <1>5, UnitWithin
<1>7. client.pos \in Nat /\ TailMax \in Nat /\ FileMax \in Nat /\ client.pos + TailMax <= FileMax
  BY FileRoom
<1> QED BY <1>1, <1>2, <1>3, <1>6, <1>7

\* What was taken of a chunk the client keeps is part of what the handler writes.
LEMMA Taken ==
  ASSUME Types, NEW c \in client.kept, NEW u \in 0 .. Least(Valid(c), c.sent) - 1
  PROVE  u \in 0 .. Valid(c) - 1
<1>1. c.blocks \in Nat /\ c.n \in Nat /\ c.sent \in Nat /\ BLOCK \in Nat
  BY Sizes DEF Types, HostTypes, Client, Kept
<1>2. Valid(c) \in Nat
  BY <1>1 DEF Valid
<1> QED BY <1>1, <1>2 DEF Least

\* The file a chunk is written into, at a block before, in and after the chunk.
LEMMA StoredAt ==
  ASSUME Types, UploadInv, phase # "IDLE", cmd.op = "data", FileDomains, NEW blk,
         upload' = Stored(blk, cmd.pos)
  PROVE  /\ DOMAIN upload' = 0 .. FileMax
         /\ \A b \in 0 .. FileMax, u \in Unit : b < cmd.pos => upload'[b][u] = upload[b][u]
         /\ \A x \in 0 .. Valid(cmd) - 1 :
              upload'[cmd.pos + SecOf(x)][x % BLOCK] =
                IF x + HEAD < BLOCK THEN blk[x + HEAD] ELSE tail[SecAt(x)][PosAt(x)]
<1>1. /\ cmd.pos \in Nat /\ BLOCK \in Nat /\ Unit \subseteq Nat /\ cmd.pos = client.pos
      /\ \A u \in Unit : u < BLOCK
  BY Sizes DEF Types, HostTypes, Command, Unit, UploadInv, CommandInv
<1>2. Valid(cmd) \in Nat /\ Valid(cmd) <= data_len /\ data_len \in Nat
  BY PayloadAt
<1>3. \A b \in 0 .. FileMax, u \in Unit :
        upload'[b][u] = LET k == (b - cmd.pos) * BLOCK + u IN
                        IF k \in 0 .. Valid(cmd) - 1 THEN Chunk(blk)[k] ELSE upload[b][u]
  BY DEF Stored, Chunk, FileDomains
<1>4. DOMAIN upload' = 0 .. FileMax
  BY DEF Stored, FileDomains
<1>5. ASSUME NEW b \in 0 .. FileMax, NEW u \in Unit, b < cmd.pos
      PROVE  upload'[b][u] = upload[b][u]
  <2>1. b \in Nat /\ u \in Nat /\ u < BLOCK
    BY <1>1, <1>5
  <2>2. (b - cmd.pos) * BLOCK <= -BLOCK
    <3>1. (b - cmd.pos) + 1 <= 0
      BY <1>1, <1>5, <2>1
    <3>2. ((b - cmd.pos) + 1) * BLOCK <= 0
      BY <1>1, <2>1, <3>1
    <3>3. ((b - cmd.pos) + 1) * BLOCK = (b - cmd.pos) * BLOCK + BLOCK
      BY <1>1, <2>1
    <3>4. (b - cmd.pos) * BLOCK \in Int
      BY <1>1, <2>1
    <3> QED BY <1>1, <3>2, <3>3, <3>4
  <2>3. (b - cmd.pos) * BLOCK \in Int
    BY <1>1, <2>1
  <2>4. (b - cmd.pos) * BLOCK + u < 0
    BY <1>1, <2>1, <2>2, <2>3
  <2>5. (b - cmd.pos) * BLOCK + u \notin 0 .. Valid(cmd) - 1
    BY <1>2, <2>4
  <2> QED BY <1>3, <2>5
<1>6. ASSUME NEW x \in 0 .. Valid(cmd) - 1
      PROVE  upload'[cmd.pos + SecOf(x)][x % BLOCK] =
               IF x + HEAD < BLOCK THEN blk[x + HEAD] ELSE tail[SecAt(x)][PosAt(x)]
  <2> DEFINE s == Span(cmd.blocks)
             b == cmd.pos + SecOf(x)
             v == x % BLOCK
  <2>1. cmd.blocks \in Chunks
    BY DEF UploadInv, CommandInv
  <2>2. s \in Nat /\ s <= TailMax /\ data_len = s * BLOCK
    BY <2>1, ChunkLen
  <2>3. x \in Nat /\ x < s * BLOCK
    BY <1>2, <2>2
  <2>4. SecOf(x) \in Nat /\ SecOf(x) < s /\ v \in Unit
    BY <2>2, <2>3, UnitWithin
  <2>5. client.pos \in Nat /\ TailMax \in Nat /\ FileMax \in Nat /\ client.pos + TailMax <= FileMax
    BY FileRoom
  <2>6. b \in 0 .. FileMax
    BY <1>1, <2>2, <2>4, <2>5
  <2>7. (b - cmd.pos) * BLOCK + v = x
    <3>1. x = SecOf(x) * BLOCK + v
      BY <2>3, Place
    <3>2. b - cmd.pos = SecOf(x)
      BY <1>1, <2>4
    <3> QED BY <3>1, <3>2
  <2> HIDE DEF b, v
  <2>8. upload'[b][v] = Chunk(blk)[x]
    BY <1>3, <2>4, <2>6, <2>7
  <2>9. Chunk(blk)[x] = IF x + HEAD < BLOCK THEN blk[x + HEAD] ELSE tail[SecAt(x)][PosAt(x)]
    BY DEF Chunk, SecAt, PosAt
  <2> QED BY <2>8, <2>9 DEF b, v
<1> QED BY <1>4, <1>5, <1>6

\* Running a chunk's request: its payload is taken from where it was shipped to.
LEMMA RunData ==
  ASSUME Types, LineInv, Phases, UploadInv, PayloadInv, StoredInv, FileMatches,
         tb_state = "REQ", cmd.op = "data", Run(tb_buf[0]),
         UNCHANGED <<cmd, client>>
  PROVE  /\ DOMAIN upload' = 0 .. FileMax /\ FileMatches'
         /\ answer'.st = GOOD /\ ~tb_send_fault => Landed(cmd, client.sent)'
<1>1. /\ phase # "IDLE" /\ phase = "TB" /\ FileDomains /\ tb_buf[0][0][3] = cmd.pos
      /\ cmd.pos = client.pos /\ cmd.pos \in Nat
  BY DEF Phases, Types, HostTypes, Command, StoredInv, OffsetLoaded, UploadInv, CommandInv
<1>2. /\ tb_buf[0][0][1] = "cdb" /\ tb_buf[0][0][2] = cmd.id
  BY DEF LineInv, StatusRead
<1>3. /\ answer'.st = IF upload_open THEN GOOD ELSE CHECK
      /\ upload' = IF upload_open THEN Stored(tb_buf[0], cmd.pos) ELSE upload
  BY <1>1, <1>2 DEF Run, Answer
<1>4. CASE ~upload_open
  BY <1>1, <1>3, <1>4 DEF FileDomains, FileMatches, Valid, GOOD, CHECK
<1>5. CASE upload_open
  <2>1. upload' = Stored(tb_buf[0], cmd.pos)
    BY <1>3, <1>5
  <2>2. /\ DOMAIN upload' = 0 .. FileMax
        /\ \A b \in 0 .. FileMax, u \in Unit : b < cmd.pos => upload'[b][u] = upload[b][u]
        /\ \A x \in 0 .. Valid(cmd) - 1 :
             upload'[cmd.pos + SecOf(x)][x % BLOCK] =
               IF x + HEAD < BLOCK THEN tb_buf[0][x + HEAD] ELSE tail[SecAt(x)][PosAt(x)]
    BY <1>1, <2>1, StoredAt
  <2>3. ASSUME NEW c \in client.kept, NEW u \in 0 .. Least(Valid(c), c.sent) - 1
        PROVE  upload'[c.pos + SecOf(u)][u % BLOCK] = <<"pay", c.id, u>>
    <3>1. /\ c.pos + SecOf(u) \in 0 .. FileMax /\ c.pos + SecOf(u) < cmd.pos
          /\ u % BLOCK \in Unit
      BY <1>1, <2>3, Taken, KeptBefore
    <3>2. upload[c.pos + SecOf(u)][u % BLOCK] = <<"pay", c.id, u>>
      BY <2>3 DEF FileMatches
    <3> QED BY <2>2, <3>1, <3>2
  <2>4. FileMatches'
    BY <2>3 DEF FileMatches, Valid
  <2>5. ASSUME ~tb_send_fault, NEW x \in 0 .. Least(Valid(cmd), client.sent) - 1
        PROVE  upload'[cmd.pos + SecOf(x)][x % BLOCK] = <<"pay", cmd.id, x>>
    <3>0. x \in 0 .. Valid(cmd) - 1 /\ x < client.sent
      <4>1. Valid(cmd) \in Nat /\ client.sent \in Nat
        BY <1>1, PayloadAt DEF Types, HostTypes, Client
      <4> QED BY <2>5, <4>1 DEF Least
    <3>1. x \in Payload /\ x \in Nat /\ x + HEAD \in Nat /\ SecAt(x) \in Nat
      BY <1>1, <3>0, PayloadAt DEF Payload
    <3>2. BLOCK \in Nat /\ BLOCK > 0
      BY Sizes
    <3>3. CASE x + HEAD < BLOCK
      <4>1. SecAt(x) = 0 /\ PosAt(x) = x + HEAD
        BY <3>1, <3>2, <3>3 DEF SecAt, PosAt, SecOf
      <4>2. tb_buf[RingSlot(SecAt(x))][PosAt(x)] = <<"pay", cmd.id, x>>
        BY <1>1, <3>1, <4>1 DEF PayloadInv, RingHolds, InRing
      <4>3. RingSlot(SecAt(x)) = 0
        BY <4>1 DEF RingSlot
      <4> QED BY <2>2, <3>0, <3>3, <4>1, <4>2, <4>3
    <3>4. CASE ~(x + HEAD < BLOCK)
      <4>1. SecAt(x) # 0
        <5>1. BLOCK \div BLOCK = 1 /\ BLOCK <= x + HEAD
          BY <3>1, <3>2, <3>4
        <5>2. SecOf(BLOCK) = 1
          BY <5>1 DEF SecOf
        <5>3. 1 <= SecOf(x + HEAD)
          BY <3>1, <3>2, <5>1, <5>2, SecOrder
        <5> QED BY <3>1, <5>3 DEF SecAt
      <4>2. SecAt(x) <= tb_ship_done
        BY <3>1 DEF PayloadInv, Draining
      <4>3. tail[SecAt(x)][PosAt(x)] = <<"pay", cmd.id, x>>
        BY <2>5, <3>1, <4>1, <4>2 DEF PayloadInv, TailHolds, InTail
      <4> QED BY <2>2, <3>0, <3>4, <4>3
    <3> QED BY <3>3, <3>4
  <2>6. ~tb_send_fault => Landed(cmd, client.sent)'
    BY <2>5 DEF Landed, Valid
  <2> QED BY <2>2, <2>4, <2>6
<1> QED BY <1>4, <1>5

\* The HPS takes a block.
LEMMA StoredTake ==
  ASSUME Types, LineInv, Phases, UploadInv, PayloadInv, StoredInv, FileMatches, TakeBlock
  PROVE  StoredInv' /\ FileMatches'
<1>1. /\ hps.st = "ack" /\ hps.lba = tb_lba_r /\ tb_state \in {"COLLW", "REQ"}
      /\ UNCHANGED <<phase, status, cmd, client, tb_state, tb_status, tb_fetch_sec,
                     tb_send_fault, tb_buf>>
  BY DEF TakeBlock, LineInv, AckOwned, host, lines, get, send
<1>2. phase \in {"DATA_IN", "TB"} /\ phase # "IDLE"
  BY <1>1 DEF Phases, Types, HostTypes
<1>3. OffsetLoaded' /\ LatchGood' /\ ToldGood'
  BY <1>1, <1>2 DEF StoredInv, OffsetLoaded, LatchGood, ToldGood
<1>4. CASE tb_state = "COLLW"
  <2>1. tb_lba_r # 0
    BY <1>4 DEF PayloadInv, ShipAt, Types, SendTypes
  <2>2. UNCHANGED upload /\ DOMAIN tail' = DOMAIN tail
    BY <1>1, <2>1 DEF TakeBlock
  <2>3. FileDomains' /\ RunGood'
    BY <1>1, <1>4, <2>2 DEF StoredInv, FileDomains, RunGood
  <2>4. FileMatches'
    BY <1>1, <2>2 DEF FileMatches, Valid
  <2> QED BY <1>3, <2>3, <2>4 DEF StoredInv
<1>5. CASE tb_state = "REQ"
  <2>1. tb_lba_r = 0 /\ tb_fetch_sec = 0
    BY <1>5 DEF LineInv, StatusRead
  <2>2. 0 % TB_MAXSEC = 0
    BY Sizes
  <2>3. Run(tb_buf[0]) /\ UNCHANGED tail
    BY <1>1, <2>1, <2>2 DEF TakeBlock
  <2>4. CASE cmd.op = "data"
    <3>1. /\ DOMAIN upload' = 0 .. FileMax /\ FileMatches'
          /\ answer'.st = GOOD /\ ~tb_send_fault => Landed(cmd, client.sent)'
      BY <1>1, <1>5, <2>3, <2>4, RunData
    <3>2. FileDomains'
      BY <2>3, <3>1 DEF StoredInv, FileDomains
    <3>3. RunGood'
      BY <1>1, <3>1 DEF RunGood
    <3> QED BY <1>3, <3>1, <3>2, <3>3 DEF StoredInv
  <2>5. CASE cmd.op # "data"
    <3>1. RunGood'
      BY <1>1, <2>5 DEF RunGood
    <3>2. tb_buf[0][0][1] = "cdb" /\ tb_buf[0][0][2] = cmd.id
      BY <1>5 DEF LineInv, StatusRead
    <3>3. CASE cmd.op = "prep"
      <4>1. DOMAIN upload' = DOMAIN upload
        BY <2>3, <3>2, <3>3 DEF Run
      <4>2. client.kept = {}
        BY <1>2, <3>3 DEF UploadInv, CommandInv, ClientInv
      <4>3. FileMatches'
        BY <1>1, <4>2 DEF FileMatches
      <4> QED BY <1>3, <2>3, <3>1, <4>1, <4>3 DEF StoredInv, FileDomains
    <3>4. CASE cmd.op \in {"get", "end"}
      <4>1. UNCHANGED upload
        BY <2>3, <3>2, <3>4 DEF Run
      <4>2. FileMatches'
        BY <1>1, <4>1 DEF FileMatches, Valid
      <4> QED BY <1>3, <2>3, <3>1, <4>1, <4>2 DEF StoredInv, FileDomains
    <3> QED BY <2>5, <3>3, <3>4 DEF Types, HostTypes, Command, Ops
  <2> QED BY <2>4, <2>5
<1> QED BY <1>1, <1>4, <1>5

\* Other steps leave the file alone.
LEMMA FileQuiet ==
  ASSUME [Next]_vars, ~TakeBlock
  PROVE  UNCHANGED <<tail, upload, answer>>
<1>1. CASE UNCHANGED vars
  BY <1>1 DEF vars, files
<1>2. CASE Next
  BY <1>2, HpsQuiet DEF Next, Bus, Fsm, Hps, PutUnit, Load, Poll, Raise, GiveBlock, Drop, files
<1> QED BY <1>1, <1>2

\* Steps that leave the verdict on the command where it is.
LEMMA VerdictStays ==
  ASSUME StoredInv, UNCHANGED <<cmd, client.sent, upload, tail, answer>>,
         tb_state' = "REQ" => tb_state = "REQ" /\ tb_buf' = tb_buf
                              /\ (hps'.st = "moved" => hps.st = "moved"),
         tb_state' = "STAT" => tb_state = "STAT" \/ (tb_state = "REQ" /\ hps.st = "moved"),
         tb_state' \in {"REQ", "STAT"} => tb_send_fault' = tb_send_fault,
         \/ tb_state' \notin {"LATCH2", "DATA", "STREAM", "RDY"}
         \/ tb_status' # GOOD
         \/ phase' # "TB"
         \/ /\ tb_status' = tb_status /\ phase = "TB"
            /\ tb_state \in {"LATCH2", "DATA", "STREAM", "RDY"},
         \/ phase' \notin {"DATA_OUT", "STATUS_OUT"}
         \/ status' # GOOD
         \/ status' = status /\ phase \in {"DATA_OUT", "STATUS_OUT"}
  PROVE  StoredInv'
<1>1. Landed(cmd, client.sent)' <=> Landed(cmd, client.sent)
  BY DEF Landed, Valid
<1>2. FileDomains' /\ OffsetLoaded'
  BY DEF StoredInv, FileDomains, OffsetLoaded
<1> HIDE DEF Landed
<1>3. RunGood'
  BY <1>1 DEF StoredInv, RunGood
<1>4. LatchGood'
  BY <1>1 DEF StoredInv, LatchGood
<1>5. ToldGood'
  BY <1>1 DEF StoredInv, ToldGood
<1> QED BY <1>2, <1>3, <1>4, <1>5 DEF StoredInv

\* Steps after which there is no verdict on a command.
LEMMA NoVerdict ==
  ASSUME StoredInv, UNCHANGED <<upload, tail>>, phase' \notin {"DATA_OUT", "STATUS_OUT"},
         \/ tb_state' \in {"IDLE", "COLL", "COLLW"}
         \/ tb_state' \in {"STREAM", "RDY"} /\ phase' # "TB"
  PROVE  StoredInv'
  BY DEF StoredInv, FileDomains, OffsetLoaded, RunGood, LatchGood, ToldGood

\* A new command.
LEMMA StoredSelect == ASSUME StoredInv, Mac PROVE StoredInv'
<1>1. tb_state' = "IDLE" /\ phase' \in {"TB", "DATA_IN"} /\ UNCHANGED <<upload, tail>>
  BY MacSelects DEF Idle, Select, files
<1> QED BY <1>1, NoVerdict

\* The status latched becomes the Mac's.
LEMMA StoredHandoff == ASSUME StoredInv, Phases, Handoff PROVE StoredInv'
<1>1. /\ phase = "TB" /\ tb_state \in {"RDY", "STREAM"} /\ status' = tb_status
      /\ phase' # "TB" /\ UNCHANGED <<cmd, client, tb_state, tb_status, upload, tail, answer>>
  BY DEF Handoff, get, files
<1>2. Landed(cmd, client.sent)' <=> Landed(cmd, client.sent)
  BY <1>1 DEF Landed, Valid
<1>3. FileDomains' /\ OffsetLoaded' /\ RunGood'
  BY <1>1 DEF StoredInv, FileDomains, OffsetLoaded, RunGood
<1> HIDE DEF Landed
<1>4. LatchGood' /\ ToldGood'
  BY <1>1, <1>2 DEF StoredInv, LatchGood, ToldGood
<1> QED BY <1>3, <1>4 DEF StoredInv

\* The request block asks for the position the client counts.
LEMMA StoredLoad ==
  ASSUME Types, LineInv, Phases, UploadInv, StoredInv, Load PROVE StoredInv'
<1>1. /\ tb_state = "LOAD" /\ tb_state' = "REQ" /\ phase = "TB" /\ hps.st = "idle"
      /\ UNCHANGED <<phase, status, cmd, upload, tail, hps>>
  BY DEF Load, host, files, Phases, Types, HostTypes, LineInv, AckOwned
<1>2. OffsetLoaded'
  <2> SUFFICES ASSUME cmd.op = "data" PROVE tb_buf'[0][0][3] = cmd.pos
    BY <1>1 DEF OffsetLoaded
  <2>1. 0 \in Unit /\ 0 < HEAD
    BY Sizes
  <2>2. tb_buf'[0][0] = <<"cdb", cmd.id, Offset>>
    BY <2>1, Loaded
  <2>3. /\ client.open /\ cmd.pos = client.pos
        /\ ~(cmd.blocks > 1) => cmd.index = client.pos
    BY <1>1 DEF UploadInv, CommandInv
  <2>4. tb_send_pos = client.pos
    BY <1>1, <2>3 DEF UploadInv, PosInv, CdbLoaded, Types, HostTypes, Client
  <2>5. Offset = cmd.pos
    BY <2>3, <2>4 DEF Offset
  <2> QED BY <2>2, <2>5
<1>3. FileDomains' /\ RunGood' /\ LatchGood' /\ ToldGood'
  BY <1>1 DEF StoredInv, FileDomains, RunGood, LatchGood, ToldGood
<1> QED BY <1>2, <1>3 DEF StoredInv

\* The core looks at the status block.
LEMMA StoredLook ==
  ASSUME Types, Phases, Answered, StoredInv, tb_state = "STAT", Look,
         UNCHANGED <<phase, status, cmd, client, upload, tail, answer, tb_send_fault, tb_buf>>
  PROVE  StoredInv'
<1>1. Landed(cmd, client.sent)' <=> Landed(cmd, client.sent)
  BY DEF Landed, Valid
<1>2. phase \notin {"DATA_OUT", "STATUS_OUT"} /\ tb_state' \in {"LATCH2", "STAT", "RDY"}
  BY DEF Phases, Look
<1>3. FileDomains' /\ OffsetLoaded' /\ ToldGood'
  BY <1>2 DEF StoredInv, FileDomains, OffsetLoaded, ToldGood
<1> HIDE DEF Landed
<1>4. RunGood'
  BY <1>1, <1>2 DEF StoredInv, RunGood
<1>5. LatchGood'
  <2>1. CASE Signed(tb_buf[0][0])
    <3>1. tb_status' = IF tb_send_fault THEN CHECK ELSE tb_buf[0][0][1]
      BY <2>1 DEF Look
    <3>2. tb_buf[0][0][1] = answer.st
      BY <2>1 DEF Answered
    <3> QED BY <1>1, <3>1, <3>2 DEF StoredInv, RunGood, LatchGood, GOOD, CHECK
  <2>2. CASE ~Signed(tb_buf[0][0])
    <3>1. tb_state' = "STAT" \/ tb_status' = CHECK
      BY <2>2 DEF Look
    <3> QED BY <3>1 DEF LatchGood, GOOD, CHECK
  <2> QED BY <2>1, <2>2
<1> QED BY <1>3, <1>4, <1>5 DEF StoredInv

LEMMA StoredInit == ASSUME Init PROVE StoredInv /\ FileMatches
<1>1. FileDomains
  BY DEF Init, FileDomains
<1>2. client.kept = {}
  BY DEF Init, NoClient
<1> QED BY <1>1, <1>2
        DEF Init, StoredInv, OffsetLoaded, RunGood, LatchGood, ToldGood, FileMatches

LEMMA StoredNext ==
  ASSUME Types, LineInv, Phases, Answered, UploadInv, PayloadInv, StoredInv, FileMatches,
         [Next]_vars
  PROVE  StoredInv'
<1>1. CASE TakeBlock
  BY <1>1, StoredTake
<1>2. CASE ~TakeBlock
  <2>1. UNCHANGED <<tail, upload, answer>>
    BY <1>2, FileQuiet
  <2>2. CASE UNCHANGED vars
    BY <2>1, <2>2, VerdictStays DEF vars, host, get, send
  <2>3. CASE Mac
    BY <2>3, StoredSelect
  <2>4. CASE PutUnit \/ EndPayload
    <3>1. tb_state' \in {"COLL", "COLLW"} /\ phase' \in {"DATA_IN", "TB"}
      BY <2>4 DEF PutUnit, EndPayload, tb_collect
    <3> QED BY <2>1, <3>1, NoVerdict
  <2>5. CASE Handoff
    BY <2>5, StoredHandoff
  <2>6. CASE TakeUnit \/ AbortServe
    <3>1. /\ UNCHANGED <<cmd, client, tb_state, tb_status, tb_buf, hps, tb_send_fault>>
          /\ phase \in {"DATA_OUT", "STATUS_OUT"} /\ phase' # "TB"
          /\ status' = status \/ status' = CHECK
      BY <2>6 DEF TakeUnit, AbortServe, get, send
    <3>2. tb_state \in {"STREAM", "RDY", "IDLE"}
      BY <3>1 DEF Phases
    <3> QED BY <2>1, <3>1, <3>2, VerdictStays DEF GOOD, CHECK
  <2>7. CASE Arm \/ ShipNext \/ ShipLast
    <3>1. /\ UNCHANGED <<cmd, client, phase>> /\ phase \in {"TB", "DATA_IN"}
          /\ tb_state' \in {"COLL", "COLLW", "LOAD"}
      BY <2>7 DEF Arm, ShipNext, ShipLast, host, Phases, Types, HostTypes
    <3> QED BY <2>1, <3>1, VerdictStays
  <2>8. CASE Load
    BY <2>8, StoredLoad
  <2>9. CASE Latch2 \/ FetchNext
    <3>1. /\ UNCHANGED <<cmd, client, phase, status, tb_status, tb_send_fault>>
          /\ tb_state \in {"LATCH2", "STREAM"} /\ tb_state' \in {"DATA", "RDY", "STREAM"}
      BY <2>9 DEF Latch2, FetchNext, host, send
    <3> QED BY <2>1, <3>1, VerdictStays
  <2>10. CASE Retire
    <3>1. UNCHANGED <<cmd, client, phase, status>> /\ tb_state' = "IDLE"
      BY <2>10 DEF Retire, host
    <3> QED BY <2>1, <3>1, VerdictStays
  <2>17. CASE EndCommand \/ BusReset
    <3>1. tb_state' \in {"STREAM", "RDY", "IDLE"} /\ phase' = "IDLE"
      BY <2>17 DEF EndCommand, BusReset, Phases
    <3> QED BY <2>1, <3>1, NoVerdict
  <2>11. CASE ClearLine \/ Rearm \/ Poll \/ Raise
    <3>1. UNCHANGED <<cmd, client, phase, status, tb_state, tb_status, tb_send_fault, tb_buf>>
      BY <2>11 DEF ClearLine, Rearm, Poll, Raise, host, get, send
    <3>2. hps'.st = "moved" => hps.st = "moved"
      BY <2>11 DEF ClearLine, Rearm, Poll, Raise, Types, HpsTypes
    <3> QED BY <2>1, <3>1, <3>2, VerdictStays
  <2>12. CASE GiveBlock
    <3>1. /\ UNCHANGED <<cmd, client, phase, status, tb_state, tb_status, tb_send_fault>>
          /\ tb_state \in {"STAT", "LATCH2", "DATA", "STREAM"}
      BY <2>12 DEF GiveBlock, LineInv, AckOwned, host, get, send
    <3> QED BY <2>1, <3>1, VerdictStays
  <2>13. CASE ShipGiveUp
    <3>1. UNCHANGED <<cmd, client, phase, status>> /\ tb_state' = "COLL"
      BY <2>13 DEF ShipGiveUp, Shipped, host
    <3> QED BY <2>1, <3>1, VerdictStays
  <2>14. CASE FetchGiveUp
    <3>1. /\ UNCHANGED <<cmd, client, phase, status>> /\ tb_state \in {"DATA", "STREAM"}
          /\ tb_state' = "RDY" /\ (tb_status' = CHECK \/ tb_status' = tb_status)
      BY <2>14 DEF FetchGiveUp, host
    <3> QED BY <2>1, <3>1, VerdictStays DEF GOOD, CHECK
  <2>15. CASE StatTimeout
    BY <2>1, <2>15, StoredLook DEF StatTimeout, host, send
  <2>16. CASE Drop
    <3>1. UNCHANGED <<cmd, client, phase, status, tb_buf>> /\ hps.st = "moved"
      BY <2>16 DEF Drop, host
    <3>2. CASE tb_state = "COLLW"
      <4>1. tb_state' = "COLL"
        BY <2>16, <3>2 DEF Drop, AckFall, Shipped
      <4> QED BY <2>1, <3>1, <4>1, VerdictStays
    <3>3. CASE tb_state = "REQ"
      <4>1. tb_state' = "STAT" /\ UNCHANGED tb_send_fault
        BY <2>16, <3>3 DEF Drop, AckFall, send
      <4> QED BY <2>1, <3>1, <3>3, <4>1, VerdictStays
    <3>4. CASE tb_state = "STAT"
      <4>1. Look /\ UNCHANGED tb_send_fault
        BY <2>16, <3>4 DEF Drop, AckFall, send
      <4> QED BY <2>1, <3>1, <3>4, <4>1, StoredLook
    <3>5. CASE tb_state \in {"LATCH2", "DATA", "STREAM"}
      <4>1. /\ UNCHANGED <<tb_status, tb_send_fault>>
            /\ tb_state' \in {"LATCH2", "DATA", "STREAM", "RDY"}
        BY <2>16, <3>5 DEF Drop, AckFall, SectorIn, get, send
      <4> QED BY <2>1, <3>1, <3>5, <4>1, VerdictStays
    <3> QED BY <3>1, <3>2, <3>3, <3>4, <3>5 DEF LineInv, AckOwned
  <2> QED BY <1>2, <2>2, <2>3, <2>4, <2>5, <2>6, <2>7, <2>8, <2>9, <2>10, <2>11, <2>12,
             <2>13, <2>14, <2>15, <2>16, <2>17
          DEF Next, Bus, Fsm, Hps, Watchdog
<1> QED BY <1>1, <1>2

\* The client counts a chunk only on a good status.
LEMMA MatchesNext ==
  ASSUME Types, LineInv, Phases, UploadInv, PayloadInv, StoredInv, FileMatches, [Next]_vars
  PROVE  FileMatches'
<1>1. CASE TakeBlock
  BY <1>1, StoredTake
<1>2. CASE EndCommand
  <2>1. phase = "STATUS_OUT" /\ client' = Concluded /\ UNCHANGED <<cmd, upload>>
    BY <1>2 DEF EndCommand, files
  <2>2. CASE status = GOOD /\ cmd.op = "data"
    <3> DEFINE new == [id |-> cmd.id, pos |-> cmd.pos, blocks |-> cmd.blocks, n |-> cmd.n,
                   sent |-> client.sent]
    <3>1. client'.kept = client.kept \cup {new}
      BY <2>1, <2>2 DEF Concluded, Types, HostTypes, Client
    <3>2. Landed(cmd, client.sent)
      BY <2>1, <2>2 DEF StoredInv, ToldGood
    <3>3. Landed(new, new.sent)
      BY <3>2 DEF Landed, Valid
    <3>4. \A c \in client'.kept : Landed(c, c.sent)
      BY <3>1, <3>3 DEF FileMatches, Landed
    <3> QED BY <2>1, <3>4 DEF FileMatches, Landed, Valid
  <2>3. CASE ~(status = GOOD /\ cmd.op = "data")
    <3>1. client'.kept \subseteq client.kept
      BY <2>1, <2>3 DEF Concluded, NoClient
    <3> QED BY <2>1, <3>1 DEF FileMatches, Valid
  <2> QED BY <2>2, <2>3
<1>3. CASE ~TakeBlock /\ ~EndCommand
  <2>1. UNCHANGED upload
    BY <1>3, FileQuiet
  <2>2. client' \in {client, NoClient} \/ client' = [client EXCEPT !.sent = data_cnt]
    <3>1. CASE UNCHANGED vars
      BY <3>1 DEF vars, host
    <3>2. CASE Mac
      BY <3>2, MacSelects DEF Select
    <3>3. CASE Bus \/ ShipLast \/ BusReset
      BY <1>3, <3>3 DEF Bus, PutUnit, EndPayload, Handoff, TakeUnit, AbortServe, ShipLast, BusReset
    <3>4. CASE UNCHANGED host
      BY <3>4 DEF host
    <3> QED BY <3>1, <3>2, <3>3, <3>4, HostQuiet DEF Next, Fsm
  <2>3. client'.kept \subseteq client.kept
    BY <2>2 DEF NoClient, Types, HostTypes, Client
  <2> QED BY <2>1, <2>3 DEF FileMatches, Valid
<1> QED BY <1>1, <1>2, <1>3

-----------------------------------------------------------------------------
LEMMA FileInvariant ==
  ASSUME Prompt, Uniform
  PROVE  Spec => [](Types /\ LineInv /\ GetInv /\ CollectInv /\ FileInv)
<1>1. Init => CollectInv /\ FileInv
  BY CollectInit, UploadInit, PayloadInit, StoredInit DEF FileInv
<1>2. Types /\ LineInv /\ GetInv /\ CollectInv /\ [Next]_vars => CollectInv'
  BY CollectNext DEF GetInv
<1>3. Types /\ LineInv /\ GetInv /\ CollectInv /\ FileInv /\ CollectInv' /\ [Next]_vars => FileInv'
  <2> SUFFICES ASSUME Types, LineInv, GetInv, CollectInv, FileInv, CollectInv', [Next]_vars
               PROVE  FileInv'
    OBVIOUS
  <2>1. /\ UploadInv /\ PayloadInv /\ StoredInv /\ FileMatches
        /\ Phases /\ Answered /\ DOMAIN tail = 1 .. TailMax
    BY DEF FileInv, GetInv, StoredInv, FileDomains
  <2>2. UploadInv' /\ PayloadInv' /\ StoredInv' /\ FileMatches'
    BY <2>1, UploadNext, PayloadNext, StoredNext, MatchesNext
  <2> QED BY <2>2 DEF FileInv
<1> QED BY <1>1, <1>2, <1>3, GetInvariant, PTL DEF Spec

\* Of a chunk the Mac was told is good, every unit the target took from the Mac
\* is in the file where it belongs, for every ring depth, sector size, chunk size
\* and number of commands: whatever the HPS's pace, the watchdogs' re-arms, a
\* payload watchdog that closes the chunk at any unit, sectors given up and bus
\* resets.
THEOREM UploadFaithful == ASSUME Prompt, Uniform PROVE Spec => []FileMatches
<1>1. FileInv => FileMatches
  BY DEF FileInv
<1> QED BY <1>1, FileInvariant, PTL

-----------------------------------------------------------------------------
(* The limits of the counters and the cells *)

\* The ring is not larger than the longest response it carries (16 sectors of
\* at most 128 in the code), and a length has a register (17 bits).
Sized == TB_MAXSEC <= TB_SEC_MAX /\ IsFiniteSet(Lens)

DataMax  == Most({MaxLen, TailMax * BLOCK, BLOCK})
CellMax  == Most({MaxLen, FileMax, TailMax * BLOCK})
RetryMax == Most({TB_RETRY_MAX, TB_STALL_RETRY_MAX})

\* The client has counted fewer chunks than commands.
CmdLimits ==
  /\ cmd.blocks \in Chunks \cup {0}
  /\ cmd.op = "get" => cmd.n <= MaxLen
  /\ cmd.index <= cmd.id /\ client.chunks <= cmd.id
  /\ phase # "IDLE" => client.chunks < cmd.id

\* The bounds of the counters; the sector being shipped is one of a chunk.
CountLimits ==
  /\ data_cnt <= DataMax
  /\ tb_lba_r <= TB_SEC_MAX /\ hps.lba <= TB_SEC_MAX
  /\ tb_fetch_sec < TB_SEC_MAX /\ tb_sec_done <= TB_SEC_MAX
  /\ tb_retry <= RetryMax
  /\ tb_col_lba <= TailMax /\ tb_ship_done <= TailMax
  /\ tb_state = "COLLW" => tb_lba_r <= TailMax

\* The bounds of what the cells hold.
CellLimits ==
  /\ answer.id <= MaxCmds /\ answer.len <= MaxLen
  /\ tb_buf \in [Slot -> Block]
  /\ tail \in [1 .. TailMax -> Block] /\ upload \in [0 .. FileMax -> Block]

LimitInv == CmdLimits /\ CountLimits /\ CellLimits

LEMMA MostOfThree ==
  ASSUME NEW a \in Nat, NEW b \in Nat, NEW c \in Nat
  PROVE  LET m == Most({a, b, c}) IN m \in Nat /\ a <= m /\ b <= m /\ c <= m
<1> DEFINE S == {a, b, c}
<1>1. \E x \in S : \A y \in S : y <= x
  OBVIOUS
<1>2. Most(S) \in S /\ \A y \in S : y <= Most(S)
  BY <1>1 DEF Most
<1>3. S \subseteq Nat /\ a \in S /\ b \in S /\ c \in S
  OBVIOUS
<1> HIDE DEF S
<1>4. Most(S) \in Nat /\ a <= Most(S) /\ b <= Most(S) /\ c <= Most(S)
  BY <1>2, <1>3
<1> QED BY <1>4 DEF S

LEMMA Limits ==
  ASSUME Sized
  PROVE  /\ MaxLen \in Nat /\ \A n \in Lens : n <= MaxLen
         /\ TailMax \in Nat /\ TailMax >= 1 /\ TailMax <= TB_SEC_MAX
         /\ MaxCmds \in Nat /\ FileMax \in Nat /\ MaxCmds <= FileMax
         /\ TailMax * BLOCK \in Nat /\ BLOCK <= TailMax * BLOCK
         /\ DataMax \in Nat /\ MaxLen <= DataMax /\ TailMax * BLOCK <= DataMax
         /\ CellMax \in Nat /\ MaxLen <= CellMax /\ FileMax <= CellMax
         /\ TailMax * BLOCK <= CellMax
         /\ RetryMax \in Nat /\ TB_RETRY_MAX <= RetryMax /\ TB_STALL_RETRY_MAX <= RetryMax
<1>1. MaxLen \in Nat /\ \A n \in Lens : n <= MaxLen
  <2> DEFINE S == Lens \cup {1}
  <2>1. S \subseteq Nat /\ S # {}
    BY ToolboxAssumption
  <2>2. IsFiniteSet(S)
    BY FS_AddElement DEF Sized
  <2>3. Most(S) \in S /\ \A y \in S : y <= Most(S)
    BY <2>1, <2>2, MostIs
  <2>4. MaxLen = Most(S)
    BY DEF MaxLen
  <2> QED BY <2>1, <2>3, <2>4
<1>2. TailMax \in Nat /\ TailMax >= 1 /\ TailMax <= TB_SEC_MAX
  <2> DEFINE S == Chunks \cup {1}
  <2>1. Chunks \subseteq 0 .. TB_SEC_MAX /\ TB_SEC_MAX \in Nat /\ TB_SEC_MAX >= 1
    BY ToolboxAssumption
  <2>2. S \subseteq Nat /\ (\A s \in S : s <= TB_SEC_MAX) /\ S # {}
    BY <2>1
  <2>3. IsFiniteSet(S)
    BY <2>1, <2>2, FS_BoundedSetOfNaturals
  <2>4. Most(S) \in S
    BY <2>2, <2>3, MostIs
  <2>5. TailMax <= TB_SEC_MAX
    BY <2>2, <2>4 DEF TailMax
  <2> QED BY <2>5, TailSizes
<1>3. MaxCmds \in Nat /\ BLOCK \in Nat /\ TB_RETRY_MAX \in Nat /\ TB_STALL_RETRY_MAX \in Nat
  BY ToolboxAssumption
<1>4. FileMax \in Nat /\ MaxCmds <= FileMax
  <2>1. MaxCmds * TailMax \in Nat /\ MaxCmds * TailMax >= MaxCmds
    BY <1>2, <1>3
  <2> QED BY <2>1 DEF FileMax
<1>5. TailMax * BLOCK \in Nat /\ BLOCK <= TailMax * BLOCK
  BY <1>2, <1>3
<1>6. DataMax \in Nat /\ MaxLen <= DataMax /\ TailMax * BLOCK <= DataMax
  BY <1>1, <1>3, <1>5, MostOfThree DEF DataMax
<1>7. /\ CellMax \in Nat /\ MaxLen <= CellMax /\ FileMax <= CellMax
      /\ TailMax * BLOCK <= CellMax
  BY <1>1, <1>4, <1>5, MostOfThree DEF CellMax
<1>8. RetryMax \in Nat /\ TB_RETRY_MAX <= RetryMax /\ TB_STALL_RETRY_MAX <= RetryMax
  <2>1. {TB_RETRY_MAX, TB_RETRY_MAX, TB_STALL_RETRY_MAX} = {TB_RETRY_MAX, TB_STALL_RETRY_MAX}
    OBVIOUS
  <2> QED BY <1>3, <2>1, MostOfThree DEF RetryMax
<1> QED BY <1>1, <1>2, <1>3, <1>4, <1>5, <1>6, <1>7, <1>8

\* A cell is a word within the limits.
LEMMA CellIs ==
  ASSUME NEW w \in Word, w[2] <= MaxCmds, w[3] <= CellMax, Sized
  PROVE  w \in Cell
<1>1. MaxCmds \in Nat /\ CellMax \in Nat
  BY Limits
<1>2. PICK k \in Kinds, x \in Nat, y \in Nat : w = <<k, x, y>>
  BY DEF Word
<1>3. x \in 0 .. MaxCmds /\ y \in 0 .. CellMax
  BY <1>1, <1>2
<1> QED BY <1>2, <1>3 DEF Cell, CellMax

LEMMA EmptyBlock == ASSUME Sized PROVE Nothing \in Cell /\ Empty \in Block
<1>1. Nothing \in Word /\ Nothing[2] = 0 /\ Nothing[3] = 0
  BY DEF Nothing, Word, Kinds
<1>2. Nothing \in Cell
  BY <1>1, Limits, CellIs
<1> QED BY <1>2 DEF Empty, Block

-----------------------------------------------------------------------------
(* LimitInv is inductive *)

LEMMA LimitInit == ASSUME Sized, Init PROVE LimitInv
<1>1. CmdLimits
  BY Limits DEF Init, CmdLimits, NoClient
<1>2. CountLimits
  <2>1. TB_SEC_MAX \in Nat /\ TB_SEC_MAX >= 1
    BY Sizes
  <2> QED BY <2>1, Limits DEF Init, CountLimits, HpsIdle
<1>3. CellLimits
  <2>1. answer.id = 0 /\ answer.len = 0
    BY DEF Init
  <2>2. tb_buf = [s \in Slot |-> Empty] /\ tail = [k \in 1 .. TailMax |-> Empty]
        /\ upload = [b \in 0 .. FileMax |-> Empty]
    BY DEF Init
  <2> QED BY <2>1, <2>2, Limits, EmptyBlock DEF CellLimits
<1> QED BY <1>1, <1>2, <1>3 DEF LimitInv

\* The steps that change the command or the client's count.
LEMMA CmdSteps ==
  ASSUME Types, [Next]_vars
  PROVE  \/ Mac \/ EndCommand \/ BusReset
         \/ UNCHANGED <<cmd, client.chunks>> /\ (phase' # "IDLE" => phase # "IDLE")
<1>1. CASE UNCHANGED host
  BY <1>1 DEF host
<1>2. CASE UNCHANGED vars
  BY <1>1, <1>2 DEF vars
<1>3. CASE PutUnit \/ EndPayload \/ Handoff \/ TakeUnit \/ AbortServe \/ ShipLast
  BY <1>3 DEF PutUnit, EndPayload, Handoff, TakeUnit, AbortServe, ShipLast, tb_collect,
              Types, HostTypes, Client
<1> QED BY <1>1, <1>2, <1>3, HostQuiet DEF Next, Bus, Fsm

LEMMA CmdLimitsNext ==
  ASSUME Sized, Types, CmdLimits, [Next]_vars PROVE CmdLimits'
<1>0. /\ cmd \in Command /\ cmd.id \in Nat /\ client.chunks \in Nat
      /\ client.chunks <= cmd.id
  BY DEF Types, HostTypes, Command, Client, CmdLimits
<1>1. CASE Mac
  <2>1. ASSUME NEW op, NEW n, NEW b \in Chunks \cup {0}, op = "get" => n \in Lens,
               phase = "IDLE", Select(op, n, b)
        PROVE  CmdLimits'
    <3>1. /\ cmd'.blocks = b /\ cmd'.op = op /\ cmd'.n = n /\ cmd'.id = cmd.id + 1
          /\ cmd'.index = client.chunks /\ client' = client
      BY <2>1 DEF Select
    <3> QED BY <1>0, <2>1, <3>1, Limits DEF CmdLimits
  <2>2. CASE GetFile
    BY <2>1, <2>2 DEF GetFile, Idle
  <2>3. CASE SendPrep \/ SendEnd
    BY <2>1, <2>3 DEF SendPrep, SendEnd, Idle
  <2>4. CASE SendData
    <3>1. PICK b \in Chunks : \E n \in (IF b = 0 THEN 1 .. BLOCK ELSE {0}) : Select("data", n, b)
      BY <2>4 DEF SendData
    <3>2. PICK n \in (IF b = 0 THEN 1 .. BLOCK ELSE {0}) : Select("data", n, b)
      BY <3>1
    <3> QED BY <2>1, <2>4, <3>2 DEF SendData, Idle
  <2> QED BY <1>1, <2>2, <2>3, <2>4 DEF Mac
<1>2. CASE EndCommand
  <2>1. /\ phase = "STATUS_OUT" /\ phase' = "IDLE" /\ client' = Concluded /\ cmd' = cmd
    BY <1>2 DEF EndCommand
  <2>2. client'.chunks \in {0, client.chunks, client.chunks + 1}
    BY <2>1 DEF Concluded, NoClient, Types, HostTypes, Client
  <2>3. client.chunks < cmd.id
    BY <2>1 DEF CmdLimits
  <2>4. client'.chunks <= cmd.id
    BY <1>0, <2>2, <2>3
  <2> QED BY <2>1, <2>4 DEF CmdLimits
<1>3. CASE BusReset
  <2>1. phase' = "IDLE" /\ client'.chunks = 0 /\ cmd' = cmd
    BY <1>3 DEF BusReset, NoClient
  <2> QED BY <1>0, <2>1 DEF CmdLimits
<1>4. CASE UNCHANGED <<cmd, client.chunks>> /\ (phase' # "IDLE" => phase # "IDLE")
  BY <1>4 DEF CmdLimits
<1> QED BY <1>1, <1>2, <1>3, <1>4, CmdSteps

\* The payload of a command fits the blocks of the longest chunk.
LEMMA PayloadFits ==
  ASSUME Sized, Types, CmdLimits
  PROVE  data_len \in Nat /\ data_len <= TailMax * BLOCK
<1>1. /\ BLOCK \in Nat /\ BLOCK >= 1 /\ TB_SEC_MAX \in Nat /\ TailMax \in Nat
      /\ TailMax * BLOCK \in Nat /\ BLOCK <= TailMax * BLOCK
  BY Sizes, Limits
<1>2. cmd.blocks \in Nat /\ (cmd.blocks # 0 => cmd.blocks <= TailMax /\ cmd.blocks <= TB_SEC_MAX)
  BY TailSizes DEF Types, HostTypes, Command, CmdLimits
<1>3. CASE cmd.op = "prep"
  BY <1>1, <1>3 DEF data_len
<1>4. CASE cmd.op # "prep" /\ cmd.blocks = 0
  BY <1>1, <1>4 DEF data_len
<1>5. CASE cmd.op # "prep" /\ cmd.blocks # 0
  <2>1. data_len = cmd.blocks * BLOCK
    BY <1>1, <1>2, <1>5 DEF data_len, Least
  <2>2. (TailMax - cmd.blocks) * BLOCK >= 0 /\ cmd.blocks * BLOCK \in Nat
    BY <1>1, <1>2, <1>5
  <2>3. (TailMax - cmd.blocks) * BLOCK = TailMax * BLOCK - cmd.blocks * BLOCK
    BY <1>1, <1>2
  <2> QED BY <1>1, <2>1, <2>2, <2>3
<1> QED BY <1>3, <1>4, <1>5

LEMMA DataLimitNext ==
  ASSUME Sized, Types, GetInv, LimitInv, [Next]_vars
  PROVE  data_cnt' <= DataMax
<1>1. data_cnt \in Nat /\ data_cnt <= DataMax /\ DataMax \in Nat
  BY Limits DEF Types, HostTypes, LimitInv, CountLimits
<1>2. CASE data_cnt' \in {data_cnt, 0}
  BY <1>1, <1>2
<1>3. CASE PutUnit
  <2>1. data_cnt' = data_cnt + 1 /\ data_cnt < data_len
    BY <1>3 DEF PutUnit
  <2>2. data_len \in Nat /\ data_len <= DataMax
    BY PayloadFits, Limits DEF LimitInv
  <2> HIDE DEF data_len
  <2> QED BY <1>1, <2>1, <2>2
<1>4. CASE TakeUnit
  <2>1. data_cnt' = data_cnt + 1 /\ data_cnt < tb_srv_len /\ phase = "DATA_OUT"
    BY <1>4 DEF TakeUnit
  <2>2. tb_len = AnswerLen
    BY <2>1 DEF GetInv, Answered
  <2>3. AnswerLen \in Nat /\ AnswerLen <= MaxLen
    BY Limits DEF AnswerLen, LimitInv, CmdLimits, Types, HostTypes, Command
  <2>4. tb_srv_len \in Nat /\ tb_srv_len <= tb_len
    BY <2>2, <2>3, Products DEF tb_srv_len, Least
  <2>5. tb_srv_len <= DataMax
    BY <2>2, <2>3, <2>4, Limits
  <2> HIDE DEF tb_srv_len
  <2> QED BY <1>1, <2>1, <2>4, <2>5
<1>5. CASE Mac
  BY <1>2, <1>5, MacSelects DEF Select
<1>6. CASE EndPayload \/ Handoff \/ AbortServe \/ EndCommand \/ ShipLast \/ BusReset
  BY <1>2, <1>6 DEF EndPayload, Handoff, AbortServe, EndCommand, ShipLast, BusReset
<1>7. CASE UNCHANGED host
  BY <1>2, <1>7 DEF host
<1>8. CASE UNCHANGED vars
  BY <1>7, <1>8 DEF vars
<1> QED BY <1>3, <1>4, <1>5, <1>6, <1>7, <1>8, HostQuiet DEF Next, Bus, Fsm

LEMMA SendLimitsNext ==
  ASSUME Sized, Types, CollectInv', PayloadInv, LimitInv, [Next]_vars
  PROVE  tb_col_lba' <= TailMax /\ tb_ship_done' <= TailMax
<1>1. /\ tb_col_lba \in Nat /\ tb_col_lba <= TailMax
      /\ tb_ship_done \in Nat /\ tb_ship_done <= TailMax /\ TailMax \in Nat
  BY Limits DEF Types, SendTypes, LimitInv, CountLimits
<1>2. CASE tb_col_lba' \in {0, tb_col_lba} /\ tb_ship_done' \in {0, tb_ship_done}
  BY <1>1, <1>2
<1>3. CASE UNCHANGED <<send, tb_send_pos>>
  BY <1>2, <1>3 DEF send
<1>4. CASE UNCHANGED vars
  BY <1>3, <1>4 DEF vars
<1>5. CASE PutUnit
  <2>1. /\ data_cnt' = data_cnt + 1 /\ data_cnt < data_len /\ Collecting'
        /\ tb_ship_done' = tb_ship_done
    BY <1>5 DEF PutUnit, Collecting, tb_collect
  <2>2. tb_col_lba' = SecOf(data_cnt' + HEAD)
    BY <2>1 DEF CollectInv, CollectAt, tb_col_lin
  <2>3. data_len \in Nat /\ data_len <= TailMax * BLOCK
    BY PayloadFits DEF LimitInv
  <2>4. /\ data_cnt \in Nat /\ HEAD \in Nat /\ HEAD < BLOCK /\ BLOCK \in Nat
        /\ TailMax * BLOCK \in Nat /\ (TailMax + 1) * BLOCK = TailMax * BLOCK + BLOCK
    BY <1>1, Sizes, Limits DEF Types, HostTypes
  <2> HIDE DEF data_len
  <2>5. data_cnt' + HEAD \in Nat /\ data_cnt' + HEAD < (TailMax + 1) * BLOCK
    BY <2>1, <2>3, <2>4
  <2>6. SecOf(data_cnt' + HEAD) \in Nat /\ SecOf(data_cnt' + HEAD) < TailMax + 1
    <3>1. TailMax + 1 \in Nat
      BY <1>1
    <3> QED BY <2>5, <3>1, UnitWithin
  <2> QED BY <1>1, <2>1, <2>2, <2>6
<1>6. CASE Arm \/ ShipLast \/ Load \/ BusReset
  BY <1>2, <1>6 DEF Arm, ShipLast, Load, BusReset, send
<1>7. ASSUME tb_state = "COLLW", NEW f, Shipped(f), tb_col_lba' = tb_col_lba
      PROVE  tb_col_lba' <= TailMax /\ tb_ship_done' <= TailMax
  <2>1. tb_ship_done' = tb_ship_done + 1 /\ tb_lba_r = tb_ship_done + 1 /\ tb_lba_r <= TailMax
    BY <1>7 DEF Shipped, PayloadInv, ShipAt, LimitInv, CountLimits
  <2> QED BY <1>1, <1>7, <2>1
<1>8. CASE ShipGiveUp
  BY <1>7, <1>8 DEF ShipGiveUp
<1>9. CASE Drop
  <2>1. CASE tb_state = "COLLW"
    BY <1>7, <1>9, <2>1 DEF Drop, AckFall
  <2>2. CASE tb_state # "COLLW"
    BY <1>2, <1>9, <2>2 DEF Drop, AckFall, send
  <2> QED BY <2>1, <2>2
<1> QED BY <1>3, <1>4, <1>5, <1>6, <1>8, <1>9, SendQuiet DEF Next, Bus, Fsm, Hps, Watchdog

\* The bounds of the FSM's own counters.
FsmLimits ==
  /\ tb_lba_r <= TB_SEC_MAX /\ tb_fetch_sec < TB_SEC_MAX /\ tb_sec_done <= TB_SEC_MAX
  /\ tb_retry <= RetryMax
  /\ tb_state = "COLLW" => tb_lba_r <= TailMax

\* A look at the status block asks for LBA 0 again, within its budget.
LEMMA LookLimits ==
  ASSUME Sized, Types, FsmLimits, tb_state = "STAT", Look, tb_sec_done' = tb_sec_done
  PROVE  FsmLimits'
<1>1. /\ tb_retry \in Nat /\ RetryMax \in Nat /\ TB_RETRY_MAX \in Nat
      /\ TB_RETRY_MAX <= RetryMax /\ TB_SEC_MAX \in Nat
  BY Limits, ToolboxAssumption DEF Types, FsmTypes
<1>2. CASE UNCHANGED lines /\ tb_state' \in {"LATCH2", "RDY"}
  BY <1>2 DEF FsmLimits, lines
<1>3. CASE /\ tb_state' = "STAT" /\ tb_retry < TB_RETRY_MAX /\ tb_retry' = tb_retry + 1
           /\ tb_lba_r' = 0 /\ tb_fetch_sec' = tb_fetch_sec
  BY <1>1, <1>3 DEF FsmLimits
<1> QED BY <1>2, <1>3 DEF Look, Issue

\* A sector that is not the last leaves an address for another.
LEMMA AnotherSector ==
  ASSUME Types, ~LastSector
  PROVE  tb_fetch_sec + 1 < TB_SEC_MAX
<1>1. /\ tb_fetch_sec \in Nat /\ tb_len \in Nat /\ BLOCK \in Nat /\ BLOCK > 0
      /\ TB_SEC_MAX \in Nat /\ TB_SEC_MAX >= 1
  BY Sizes DEF Types, FsmTypes, GetTypes
<1>2. (tb_len + BLOCK - 1) \div BLOCK \in Nat
  <2>1. tb_len + BLOCK - 1 \in Nat
    BY <1>1
  <2> QED BY <1>1, <2>1, DivMod
<1>3. tb_nsec \in Nat /\ tb_nsec <= TB_SEC_MAX
  BY <1>1, <1>2 DEF tb_nsec, Least
<1>4. tb_fetch_sec + 1 < tb_nsec
  <2> HIDE DEF tb_nsec
  <2> QED BY <1>1, <1>3 DEF LastSector
<1> HIDE DEF tb_nsec
<1> QED BY <1>1, <1>3, <1>4

LEMMA FsmLimitsNext ==
  ASSUME Sized, Types, GetInv, PayloadInv, LimitInv, [Next]_vars
  PROVE  FsmLimits'
<1>0. FsmLimits
  BY DEF LimitInv, CountLimits, FsmLimits
<1>1. /\ tb_lba_r \in Nat /\ tb_fetch_sec \in Nat /\ tb_retry \in Nat /\ tb_sec_done \in Nat
      /\ TB_SEC_MAX \in Nat /\ TB_SEC_MAX >= 1 /\ TailMax \in Nat /\ TailMax <= TB_SEC_MAX
      /\ RetryMax \in Nat /\ TB_STALL_RETRY_MAX \in Nat /\ TB_STALL_RETRY_MAX <= RetryMax
      /\ TB_MAXSEC \in Nat /\ TB_MAXSEC <= TB_SEC_MAX
  BY Limits, Sizes, ToolboxAssumption DEF Types, FsmTypes, GetTypes, Sized
<1>2. /\ tb_col_lba \in Nat /\ tb_col_lba <= TailMax /\ tb_ship_done \in Nat
      /\ tb_col_slot \in 0 .. TB_MAXSEC - 1 /\ tb_ship_slot \in 1 .. TB_MAXSEC - 1
  BY DEF Types, SendTypes, Slot, LimitInv, CountLimits
<1>3. CASE UNCHANGED <<tb_state, lines, get>>
  BY <1>0, <1>3 DEF FsmLimits, lines, get
<1>4. CASE UNCHANGED vars
  BY <1>3, <1>4 DEF vars
<1>5. CASE Arm \/ Load \/ Retire \/ BusReset
  <2>1. CASE Arm
    BY <1>0, <1>1, <2>1 DEF Arm, FsmLimits
  <2>2. CASE Load
    BY <1>0, <1>1, <2>2 DEF Load, Issue, get, FsmLimits
  <2>3. CASE Retire
    BY <1>0, <2>3 DEF Retire, lines, get, FsmLimits
  <2>4. CASE BusReset
    BY <1>1, <2>4 DEF BusReset, Issue, FsmLimits
  <2> QED BY <1>5, <2>1, <2>2, <2>3, <2>4
<1>6. CASE ShipNext
  <2>1. /\ tb_lba_r' = tb_ship_done + 1 /\ tb_fetch_sec' = tb_ship_slot /\ tb_retry' = 0
        /\ tb_sec_done' = tb_sec_done /\ tb_ship_done < tb_col_lba - 1
    BY <1>6 DEF ShipNext, Issue, get, tb_ship_pending
  <2> QED BY <1>0, <1>1, <1>2, <2>1 DEF FsmLimits
<1>7. CASE ShipLast
  <2>1. CASE tb_col_lba # 0 /\ tb_col_lin % BLOCK # 0
    <3>1. /\ tb_lba_r' = tb_col_lba /\ tb_fetch_sec' = tb_col_slot /\ tb_retry' = 0
          /\ tb_sec_done' = tb_sec_done
      BY <1>7, <2>1 DEF ShipLast, Issue, get
    <3> QED BY <1>0, <1>1, <1>2, <3>1 DEF FsmLimits
  <2>2. CASE ~(tb_col_lba # 0 /\ tb_col_lin % BLOCK # 0)
    <3>1. /\ tb_lba_r' = tb_lba_r /\ tb_fetch_sec' = 0 /\ tb_retry' = tb_retry
          /\ tb_sec_done' = tb_sec_done /\ tb_state' = "LOAD"
      BY <1>7, <2>2 DEF ShipLast, get
    <3> QED BY <1>0, <1>1, <3>1 DEF FsmLimits
  <2> QED BY <2>1, <2>2
<1>8. CASE Latch2
  <2>1. tb_state' # "COLLW"
    BY <1>8 DEF Latch2
  <2>2. \/ UNCHANGED <<lines, tb_sec_done>>
        \/ tb_lba_r' = 1 /\ tb_fetch_sec' = 0 /\ tb_sec_done' = 0 /\ tb_retry' = 0
    BY <1>8 DEF Latch2, Issue
  <2> QED BY <1>0, <1>1, <2>1, <2>2 DEF FsmLimits, lines
<1>9. CASE FetchNext
  <2>1. /\ tb_lba_r' = tb_lba_r + 1 /\ tb_fetch_sec' = tb_fetch_sec + 1 /\ ~LastSector
        /\ UNCHANGED <<tb_state, tb_retry, tb_sec_done>> /\ tb_state = "STREAM"
    BY <1>9 DEF FetchNext, Issue
  <2>2. tb_lba_r = tb_fetch_sec + 1 /\ tb_fetch_sec + 1 < TB_SEC_MAX
    BY <2>1, AnotherSector DEF GetInv, Fetching
  <2> QED BY <1>0, <1>1, <2>1, <2>2 DEF FsmLimits
<1>10. CASE ClearLine \/ FetchGiveUp
  <2>1. /\ UNCHANGED <<tb_lba_r, tb_fetch_sec, tb_retry, tb_sec_done>>
        /\ tb_state' = "COLLW" => tb_state = "COLLW"
    BY <1>10 DEF ClearLine, FetchGiveUp, get
  <2> QED BY <1>0, <2>1 DEF FsmLimits
<1>11. CASE Rearm
  <2>1. /\ UNCHANGED <<tb_state, tb_lba_r, tb_fetch_sec, tb_sec_done>>
        /\ tb_retry < TB_STALL_RETRY_MAX /\ tb_retry' = tb_retry + 1
    BY <1>11 DEF Rearm, get
  <2> QED BY <1>0, <1>1, <2>1 DEF FsmLimits
<1>12. CASE ShipGiveUp
  BY <1>0, <1>12 DEF ShipGiveUp, Shipped, get, FsmLimits
<1>13. CASE StatTimeout
  <2>1. tb_state = "STAT" /\ Look /\ tb_sec_done' = tb_sec_done
    BY <1>13 DEF StatTimeout
  <2> QED BY <1>0, <2>1, LookLimits
<1>14. CASE Drop
  <2>1. CASE tb_state = "COLLW"
    <3>1. Shipped(FALSE) /\ tb_retry' = 0 /\ UNCHANGED <<tb_lba_r, tb_fetch_sec, get>>
      BY <1>14, <2>1 DEF Drop, AckFall
    <3> QED BY <1>0, <1>1, <3>1 DEF Shipped, get, FsmLimits
  <2>2. CASE tb_state = "REQ"
    <3>1. /\ tb_lba_r' = 0 /\ tb_fetch_sec' = tb_fetch_sec /\ tb_state' = "STAT"
          /\ UNCHANGED <<tb_retry, get>>
      BY <1>14, <2>2 DEF Drop, AckFall, Issue
    <3> QED BY <1>0, <1>1, <3>1 DEF get, FsmLimits
  <2>3. CASE tb_state = "STAT"
    <3>1. Look /\ tb_sec_done' = tb_sec_done
      BY <1>14, <2>3 DEF Drop, AckFall
    <3> QED BY <1>0, <2>3, <3>1, LookLimits
  <2>4. CASE tb_state = "DATA" \/ (tb_state = "STREAM" /\ tb_fetch_busy)
    <3>1. SectorIn
      BY <1>14, <2>4 DEF Drop, AckFall
    <3>2. tb_lba_r = tb_fetch_sec + 1 /\ tb_sec_done = tb_fetch_sec
      BY <2>4 DEF GetInv, Fetching
    <3>3. tb_sec_done' <= TB_SEC_MAX /\ tb_retry' = 0 /\ tb_state' \in {"RDY", "STREAM"}
      BY <1>0, <1>1, <3>1, <3>2 DEF SectorIn, FsmLimits
    <3>4. tb_lba_r' <= TB_SEC_MAX /\ tb_fetch_sec' < TB_SEC_MAX
      <4>1. CASE tb_state = "DATA" /\ ~LastSector
        <5>1. tb_lba_r' = tb_lba_r + 1 /\ tb_fetch_sec' = tb_fetch_sec + 1
          BY <3>1, <4>1 DEF SectorIn, Issue
        <5>2. tb_fetch_sec + 1 < TB_SEC_MAX
          BY <4>1, AnotherSector
        <5> QED BY <1>1, <3>2, <5>1, <5>2
      <4>2. CASE ~(tb_state = "DATA" /\ ~LastSector)
        BY <1>0, <3>1, <4>2 DEF SectorIn, FsmLimits
      <4> QED BY <4>1, <4>2
    <3> QED BY <1>1, <3>3, <3>4 DEF FsmLimits
  <2>5. CASE /\ tb_state \notin {"COLLW", "REQ", "STAT", "DATA"}
             /\ ~(tb_state = "STREAM" /\ tb_fetch_busy)
    BY <1>3, <1>14, <2>5 DEF Drop, AckFall
  <2> QED BY <2>1, <2>2, <2>3, <2>4, <2>5
<1> QED BY <1>3, <1>4, <1>5, <1>6, <1>7, <1>8, <1>9, <1>10, <1>11, <1>12, <1>13, <1>14, FsmQuiet
        DEF Next, Fsm, Hps, Watchdog

LEMMA CountLimitsNext ==
  ASSUME Sized, Types, GetInv, PayloadInv, CollectInv', LimitInv, [Next]_vars
  PROVE  CountLimits'
<1>1. hps'.lba <= TB_SEC_MAX
  <2>1. /\ tb_lba_r <= TB_SEC_MAX /\ hps.lba <= TB_SEC_MAX /\ TB_SEC_MAX \in Nat
        /\ hps \in [st : {"idle", "taken", "ack", "moved"}, wr : BOOLEAN, lba : Nat]
    BY Sizes DEF LimitInv, CountLimits, Types, HpsTypes
  <2>2. hps'.lba \in {hps.lba, tb_lba_r, 0}
    <3>1. CASE UNCHANGED hps
      BY <3>1
    <3>2. CASE UNCHANGED vars
      BY <3>1, <3>2 DEF vars
    <3>3. CASE PutUnit \/ Load
      BY <3>1, <3>3 DEF PutUnit, Load
    <3>4. CASE Hps
      BY <2>1, <3>4 DEF Hps, Poll, Raise, TakeBlock, GiveBlock, Drop, HpsIdle
    <3> QED BY <3>1, <3>2, <3>3, <3>4, HpsQuiet DEF Next, Bus, Fsm
  <2> QED BY <2>1, <2>2
<1> QED BY <1>1, DataLimitNext, SendLimitsNext, FsmLimitsNext DEF CountLimits, FsmLimits

\* A chunk is put together from cells of the request block and of the tails.
LEMMA StoredCells ==
  ASSUME Types, UploadInv, phase # "IDLE", cmd.op = "data", CellLimits,
         NEW blk \in Block, NEW off
  PROVE  Stored(blk, off) \in [0 .. FileMax -> Block]
<1>1. ASSUME NEW k \in 0 .. Valid(cmd) - 1
      PROVE  Chunk(blk)[k] \in Cell
  <2>1. /\ k \in Nat /\ k + HEAD \in Nat /\ SecAt(k) \in Nat /\ PosAt(k) \in Unit
        /\ SecAt(k) <= TailMax
    BY PayloadAt
  <2>2. BLOCK \in Nat /\ BLOCK > 0 /\ TailMax \in Nat
    BY Sizes, TailSizes
  <2>3. Chunk(blk)[k] = IF k + HEAD < BLOCK THEN blk[k + HEAD] ELSE tail[SecAt(k)][PosAt(k)]
    BY DEF Chunk, SecAt, PosAt
  <2>4. CASE k + HEAD < BLOCK
    <3>1. k + HEAD \in Unit
      BY <2>1, <2>2, <2>4 DEF Unit
    <3> QED BY <2>3, <2>4, <3>1 DEF Block
  <2>5. CASE ~(k + HEAD < BLOCK)
    <3>1. SecAt(k) # 0
      <4>1. k + HEAD = SecAt(k) * BLOCK + PosAt(k) /\ PosAt(k) < BLOCK /\ PosAt(k) \in Nat
        BY <2>1, <2>2, Place DEF SecAt, PosAt, Unit
      <4> QED BY <2>2, <2>5, <4>1
    <3>2. tail[SecAt(k)] \in Block
      BY <2>1, <2>2, <3>1 DEF CellLimits
    <3> QED BY <2>1, <2>3, <2>5, <3>2 DEF Block
  <2> QED BY <2>4, <2>5
<1>2. DOMAIN Chunk(blk) = 0 .. Valid(cmd) - 1
  BY DEF Chunk
<1>3. DOMAIN upload = 0 .. FileMax /\ \A b \in 0 .. FileMax, u \in Unit : upload[b][u] \in Cell
  BY DEF CellLimits, Block
<1> DEFINE Is(b, u) == LET k == (b - off) * BLOCK + u IN
                       IF k \in DOMAIN Chunk(blk) THEN Chunk(blk)[k] ELSE upload[b][u]
<1>4. \A b \in 0 .. FileMax, u \in Unit : Is(b, u) \in Cell
  BY <1>1, <1>2, <1>3
<1>5. Stored(blk, off) = [b \in 0 .. FileMax |-> [u \in Unit |-> Is(b, u)]]
  BY <1>3 DEF Stored
<1> HIDE DEF Is
<1> QED BY <1>4, <1>5 DEF Block

\* The cells of the request block that Load writes.
LEMMA LoadCell ==
  ASSUME Sized, Types, Phases, UploadInv, CmdLimits, tb_state = "LOAD"
  PROVE  <<"cdb", cmd.id, Offset>> \in Cell
<1>1. /\ cmd.id \in Nat /\ cmd.id <= MaxCmds /\ cmd.index \in Nat /\ cmd.index <= cmd.id
      /\ tb_send_pos \in Nat /\ MaxCmds \in Nat /\ CellMax \in Nat /\ FileMax \in Nat
      /\ MaxCmds <= FileMax /\ FileMax <= CellMax
  BY Limits DEF Types, HostTypes, SendTypes, Command, UploadInv, RoomInv, CmdLimits
<1>2. phase = "TB"
  BY DEF Phases, Types, HostTypes
<1>3. Offset \in Nat /\ Offset <= CellMax
  <2>1. CASE cmd.op = "data" /\ cmd.blocks > 1
    <3>1. client.open /\ tb_send_pos = client.pos + 0
      BY <1>2, <2>1 DEF UploadInv, CommandInv, PosInv, CdbLoaded
    <3>2. client.pos \in Nat /\ TailMax \in Nat /\ client.pos + TailMax <= FileMax
      BY <1>2, FileRoom
    <3>3. Offset = tb_send_pos
      BY <2>1 DEF Offset
    <3> QED BY <1>1, <3>1, <3>2, <3>3
  <2>2. CASE ~(cmd.op = "data" /\ cmd.blocks > 1)
    <3>1. Offset = cmd.index
      BY <2>2 DEF Offset
    <3> QED BY <1>1, <3>1
  <2> QED BY <2>1, <2>2
<1> HIDE DEF Offset
<1>4. <<"cdb", cmd.id, Offset>> \in Word
  BY <1>1, <1>3 DEF Word, Kinds
<1> QED BY <1>1, <1>3, <1>4, CellIs

\* The HPS fills a block with its status or with the response.
LEMMA FillCells ==
  ASSUME Sized, Types, CellLimits, NEW lba \in Nat
  PROVE  Fill(lba) \in Block
<1>1. /\ answer \in [st : {GOOD, CHECK}, id : Nat, len : Nat]
      /\ answer.id <= MaxCmds /\ answer.len <= CellMax
  BY Limits DEF Types, HpsTypes, CellLimits
<1>2. Fill(lba) \in Sector
  BY FillType DEF Types
<1>3. ASSUME NEW u \in Unit
      PROVE  Fill(lba)[u] \in Cell
  <2> DEFINE w == Fill(lba)[u]
  <2>1. w \in Word
    BY <1>2 DEF Sector
  <2>2. \/ w = Nothing
        \/ w = <<answer.st, answer.id, answer.len>>
        \/ \E k \in Int : k < answer.len /\ w = <<"resp", answer.id, k>>
    <3>1. (lba - 1) * BLOCK + u \in Int
      BY Sizes DEF Unit
    <3> QED BY <3>1 DEF Fill
  <2> HIDE DEF w
  <2>3. w = Nothing \/ (w[2] = answer.id /\ w[3] <= answer.len)
    BY <1>1, <2>2
  <2>4. w # Nothing => w \in Cell
    <3>1. w[3] \in Nat
      BY <2>1 DEF Word
    <3>2. CellMax \in Nat /\ answer.len \in Nat
      BY <1>1, Limits
    <3> QED BY <1>1, <2>1, <2>3, <3>1, <3>2, CellIs
  <2> QED BY <2>4, EmptyBlock DEF w
<1> QED BY <1>2, <1>3 DEF Sector, Block

\* The HPS runs a request block.
LEMMA RunCells ==
  ASSUME Sized, Types, UploadInv, phase # "IDLE", CmdLimits, CellLimits, NEW blk \in Block, Run(blk)
  PROVE  /\ answer'.id <= MaxCmds /\ answer'.len <= MaxLen
         /\ upload' \in [0 .. FileMax -> Block]
<1>1. answer'.id = cmd.id /\ answer'.len \in {0, AnswerLen}
  <2>1. cmd.op \in Ops
    BY DEF Types, HostTypes, Command
  <2>2. \E st, len : (len = 0 \/ len = AnswerLen) /\ answer' = [st |-> st, id |-> cmd.id, len |-> len]
    BY <2>1 DEF Run, Answer, AnswerLen, Ops
  <2> QED BY <2>2
<1>2. cmd.id <= MaxCmds /\ AnswerLen <= MaxLen /\ MaxLen >= 0
  BY Limits DEF UploadInv, RoomInv, CmdLimits, AnswerLen
<1>3. \/ UNCHANGED upload
      \/ upload' = [b \in DOMAIN upload |-> Empty]
      \/ cmd.op = "data" /\ upload' = Stored(blk, blk[0][3])
  BY DEF Run, Types, HostTypes, Command, Ops
<1>4. upload' \in [0 .. FileMax -> Block]
  <2>1. CASE UNCHANGED upload
    BY <2>1 DEF CellLimits
  <2>2. CASE upload' = [b \in DOMAIN upload |-> Empty]
    BY <2>2, EmptyBlock DEF CellLimits
  <2>3. CASE cmd.op = "data" /\ upload' = Stored(blk, blk[0][3])
    BY <2>3, StoredCells
  <2> QED BY <1>3, <2>1, <2>2, <2>3
<1> QED BY <1>1, <1>2, <1>4

LEMMA CellLimitsNext ==
  ASSUME Sized, Types, LineInv, Phases, UploadInv, LimitInv, [Next]_vars
  PROVE  CellLimits'
<1>0. CmdLimits /\ CellLimits
  BY DEF LimitInv
<1>1. tb_fetch_sec % TB_MAXSEC \in Slot /\ tb_buf[tb_fetch_sec % TB_MAXSEC] \in Block
  BY <1>0, SlotOf DEF Types, FsmTypes, CellLimits
<1>2. CASE TakeBlock
  <2>1. tb_buf' = tb_buf /\ tail' \in [1 .. TailMax -> Block]
    BY <1>0, <1>1, <1>2 DEF TakeBlock, CellLimits
  <2>2. CASE hps.lba # 0
    <3>1. UNCHANGED <<upload, answer>>
      BY <1>2, <2>2 DEF TakeBlock
    <3> QED BY <1>0, <2>1, <3>1 DEF CellLimits
  <2>3. CASE hps.lba = 0
    <3>1. Run(tb_buf[tb_fetch_sec % TB_MAXSEC])
      BY <1>2, <2>3 DEF TakeBlock
    <3>2. phase # "IDLE"
      BY <1>2 DEF TakeBlock, LineInv, AckOwned, Phases
    <3>3. /\ answer'.id <= MaxCmds /\ answer'.len <= MaxLen
          /\ upload' \in [0 .. FileMax -> Block]
      BY <1>0, <1>1, <3>1, <3>2, RunCells
    <3> QED BY <1>0, <2>1, <3>3 DEF CellLimits
  <2> QED BY <2>2, <2>3
<1>3. CASE ~TakeBlock
  <2>1. UNCHANGED <<tail, upload, answer>>
    BY <1>3, FileQuiet
  <2>2. tb_buf' \in [Slot -> Block]
    <3>1. CASE UNCHANGED tb_buf
      BY <1>0, <3>1 DEF CellLimits
    <3>2. CASE UNCHANGED vars
      BY <3>1, <3>2 DEF vars
    <3>3. CASE PutUnit
      <4>1. tb_col_lin % BLOCK \in Unit
        <5>1. data_cnt + HEAD \in Nat
          BY Sizes DEF Types, HostTypes
        <5> QED BY <5>1, Place DEF tb_col_lin
      <4>2. <<"pay", cmd.id, data_cnt>> \in Cell
        <5>1. data_cnt < data_len
          BY <3>3 DEF PutUnit
        <5>2. data_len \in Nat /\ data_len <= CellMax
          BY <1>0, PayloadFits, Limits
        <5>3. cmd.id \in Nat /\ data_cnt \in Nat /\ cmd.id <= MaxCmds /\ CellMax \in Nat
          BY Limits DEF Types, HostTypes, Command, UploadInv, RoomInv
        <5> HIDE DEF data_len
        <5>4. <<"pay", cmd.id, data_cnt>> \in Word /\ data_cnt <= CellMax
          BY <5>1, <5>2, <5>3 DEF Word, Kinds
        <5> QED BY <5>3, <5>4, CellIs
      <4> HIDE DEF tb_col_lin
      <4> QED BY <1>0, <3>3, <4>1, <4>2 DEF PutUnit, CellLimits, Block
    <3>4. CASE Load
      <4>1. tb_state = "LOAD"
        BY <3>4 DEF Load
      <4>2. <<"cdb", cmd.id, Offset>> \in Cell
        BY <1>0, <4>1, LoadCell
      <4> QED BY <1>0, <3>4, <4>2, Sizes DEF Load, CellLimits, Block
    <3>5. CASE GiveBlock
      <4>1. Fill(hps.lba) \in Block
        BY <1>0, FillCells DEF Types, HpsTypes
      <4> QED BY <1>0, <3>5, <4>1 DEF GiveBlock, CellLimits
    <3>6. CASE Poll \/ Raise \/ Drop
      BY <3>1, <3>6 DEF Poll, Raise, Drop
    <3> QED BY <1>3, <3>1, <3>2, <3>3, <3>4, <3>5, <3>6, HpsQuiet DEF Next, Bus, Fsm, Hps
  <2> QED BY <1>0, <2>1, <2>2 DEF CellLimits
<1> QED BY <1>2, <1>3

\* Every register and every cell of the model has a value of its type: the
\* counters stay within the ring, the longest response and the longest chunk,
\* and the cells within the commands and the units that can be stored there.
THEOREM ToolboxTypes == ASSUME Prompt, Uniform, Sized PROVE Spec => []TypeOK
<1>1. Init => LimitInv
  BY LimitInit
<1>2. /\ Types /\ LineInv /\ GetInv /\ CollectInv /\ FileInv /\ LimitInv
      /\ CollectInv' /\ [Next]_vars
      => LimitInv'
  BY CmdLimitsNext, CountLimitsNext, CellLimitsNext DEF LimitInv, GetInv, FileInv
<1>3. Types /\ FileInv /\ LimitInv => TypeOK
  <2> SUFFICES ASSUME Types, FileInv, LimitInv PROVE TypeOK
    OBVIOUS
  <2>1. /\ DataMax \in Nat /\ TailMax \in Nat /\ RetryMax \in Nat /\ MaxCmds \in Nat
        /\ TB_SEC_MAX \in Nat
    BY Limits, Sizes
  <2>2. data_cnt \in 0 .. DataMax /\ tb_retry \in 0 .. RetryMax
    BY <2>1 DEF Types, HostTypes, FsmTypes, LimitInv, CountLimits
  <2>3. cmd.id \in 0 .. MaxCmds /\ cmd.op \in Ops
    BY <2>1 DEF Types, HostTypes, Command, FileInv, UploadInv, RoomInv
  <2>4. /\ tb_lba_r \in 0 .. TB_SEC_MAX /\ tb_fetch_sec \in 0 .. TB_SEC_MAX - 1
        /\ tb_sec_done \in 0 .. TB_SEC_MAX /\ hps.lba \in 0 .. TB_SEC_MAX
        /\ tb_col_lba \in 0 .. TailMax /\ tb_ship_done \in 0 .. TailMax
    BY <2>1 DEF Types, FsmTypes, GetTypes, SendTypes, HpsTypes, LimitInv, CountLimits
  <2>5. /\ phase \in {"IDLE", "DATA_IN", "TB", "DATA_OUT", "STATUS_OUT"}
        /\ {status, tb_status, answer.st} \subseteq {GOOD, CHECK}
        /\ tb_state \in TbStates /\ tb_len \in Nat /\ tb_send_pos \in Nat
        /\ tb_col_slot \in Slot /\ tb_ship_slot \in 1 .. TB_MAXSEC - 1
        /\ hps.st \in {"idle", "taken", "ack", "moved"} /\ hps.wr \in BOOLEAN
    BY DEF Types, HostTypes, FsmTypes, GetTypes, SendTypes, HpsTypes
  <2>6. {tb_rd_r, tb_wr_r, tb_fetch_busy, tb_get_fault, tb_send_fault, handler,
         upload_open, client.open} \subseteq BOOLEAN
    BY Zenon DEF Types, HostTypes, Client, FsmTypes, GetTypes, SendTypes, HpsTypes
  <2>7. /\ tb_buf \in [Slot -> Block] /\ tail \in [1 .. TailMax -> Block]
        /\ upload \in [0 .. FileMax -> Block]
    BY DEF LimitInv, CellLimits
  <2> QED BY <2>2, <2>3, <2>4, <2>5, <2>6, <2>7 DEF TypeOK, TbStates, DataMax, RetryMax
<1> QED BY <1>1, <1>2, <1>3, FileInvariant, PTL DEF Spec
=============================================================================

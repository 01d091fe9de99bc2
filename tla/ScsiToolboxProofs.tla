------------------------- MODULE ScsiToolboxProofs -------------------------
(***************************************************************************)
(* Proofs about the Toolbox round trip (ScsiToolbox), for every ring depth,*)
(* sector size, response length, chunk size and number of commands.        *)
(*                                                                         *)
(* They hold for an HPS that polls the status read before its budget runs  *)
(* out (LateStatus = FALSE); without that, run toolbox_late shows what     *)
(* goes wrong.                                                             *)
(***************************************************************************)
EXTENDS ScsiToolbox, TLAPS

Prompt == LateStatus = FALSE

Word   == Kinds \X Nat \X Nat
Sector == [Unit -> Word]

Command == [id : Nat, op : Ops, n : Nat, blocks : Nat, index : Nat, pos : Nat]
Kept    == [id : Nat, pos : Nat, blocks : Nat, n : Nat, sent : Nat]
Client  == [open : BOOLEAN, chunks : Nat, pos : Nat, sent : Nat, kept : SUBSET Kept]

TbStates == {"IDLE", "COLL", "COLLW", "LOAD", "REQ", "STAT", "LATCH2", "DATA",
             "STREAM", "RDY"}

HostTypes ==
  /\ phase \in {"IDLE", "DATA_IN", "TB", "DATA_OUT", "STATUS_OUT"}
  /\ status \in {GOOD, CHECK}
  /\ data_cnt \in Nat
  /\ cmd \in Command
  /\ client \in Client

FsmTypes ==
  /\ tb_state \in TbStates
  /\ tb_rd_r \in BOOLEAN /\ tb_wr_r \in BOOLEAN
  /\ tb_lba_r \in Nat /\ tb_fetch_sec \in Nat /\ tb_retry \in Nat

GetTypes ==
  /\ tb_status \in {GOOD, CHECK}
  /\ tb_len \in Nat /\ tb_sec_done \in Nat
  /\ tb_fetch_busy \in BOOLEAN /\ tb_get_fault \in BOOLEAN

SendTypes ==
  /\ tb_col_slot \in Slot /\ tb_ship_slot \in 1 .. TB_MAXSEC - 1
  /\ tb_col_lba \in Nat /\ tb_ship_done \in Nat
  /\ tb_send_fault \in BOOLEAN /\ tb_send_pos \in Nat

HpsTypes ==
  /\ hps \in [st : {"idle", "taken", "ack", "moved"}, wr : BOOLEAN, lba : Nat]
  /\ handler \in BOOLEAN /\ upload_open \in BOOLEAN
  /\ answer \in [st : {GOOD, CHECK}, id : Nat, len : Nat]
  /\ tb_buf \in [Slot -> Sector]

Types == HostTypes /\ FsmTypes /\ GetTypes /\ SendTypes /\ HpsTypes

-----------------------------------------------------------------------------
(* The request lines belong to one transfer at a time *)

\* A line is up only in the states that wait for its ack.
LinesOwned ==
  /\ tb_wr_r => tb_state \in {"COLLW", "REQ"}
  /\ tb_rd_r => tb_state \in {"STAT", "DATA"} \/ (tb_state = "STREAM" /\ tb_fetch_busy)

\* The request block and the status block are both LBA 0 in slot 0.  The CDB
\* stands there until the status block is transferred, and the FSM leaves it
\* only when that transfer is over or being acknowledged.
StatusRead ==
  /\ tb_state \in {"REQ", "STAT"} => tb_lba_r = 0 /\ tb_fetch_sec = 0
  /\ tb_state = "REQ" => tb_buf[0][0][1] = "cdb" /\ tb_buf[0][0][2] = cmd.id
  /\ tb_state = "STAT" /\ Signed(tb_buf[0][0]) => hps.st = "moved" /\ ~tb_rd_r
  /\ tb_state = "LATCH2" => hps.st \in {"idle", "moved"}

LineInv == AckOwned /\ LinesOwned /\ StatusRead

-----------------------------------------------------------------------------
(* The response *)

\* How far each phase of the bus lets the round trip go.
Phases ==
  /\ phase = "DATA_IN" => tb_state \in {"IDLE", "COLL", "COLLW"}
  /\ phase \in {"DATA_OUT", "STATUS_OUT", "IDLE"} => tb_state \in {"STREAM", "RDY", "IDLE"}
  /\ phase = "IDLE" => data_cnt = 0
  /\ phase = "DATA_IN" /\ tb_state = "IDLE" => data_cnt = 0
  /\ phase = "TB" /\ ~(tb_state = "COLL" /\ ~tb_ship_pending) => data_cnt = 0

AnswerLen == IF cmd.op = "get" THEN cmd.n ELSE 0

\* From the moment the HPS has run the command its answer is this command's,
\* and so is what the core latches of it.
Answered ==
  /\ \/ tb_state \in {"STAT", "LATCH2", "DATA", "STREAM"}
     \/ tb_state = "REQ" /\ hps.st = "moved"
     => answer.id = cmd.id /\ answer.len = AnswerLen
  /\ tb_state = "STAT" /\ Signed(tb_buf[0][0]) =>
       tb_buf[0][0] = <<answer.st, answer.id, answer.len>>
  /\ tb_state \in {"LATCH2", "DATA", "STREAM"} => tb_len = AnswerLen
  /\ phase = "TB" /\ tb_state = "RDY" /\ (tb_len # 0 \/ tb_status = GOOD) =>
       tb_len = AnswerLen
  /\ phase = "DATA_OUT" => tb_len = AnswerLen

\* Sector s of the response, as it lies in the ring.
Response(s) ==
  [u \in Unit |-> IF s * BLOCK + u < AnswerLen
                  THEN <<"resp", cmd.id, s * BLOCK + u>> ELSE Nothing]

Serving ==
  \/ phase = "TB" /\ (tb_state \in {"DATA", "STREAM"} \/ (tb_state = "RDY" /\ tb_len # 0))
  \/ phase = "DATA_OUT"

\* The fetch in hand: its address, its slot and its count agree, and it stays
\* within a ring of what the Mac is still to be served.
Fetching ==
  tb_state \in {"DATA", "STREAM"} =>
    /\ tb_lba_r = tb_fetch_sec + 1
    /\ tb_sec_done = IF tb_fetch_busy THEN tb_fetch_sec ELSE tb_fetch_sec + 1
    /\ tb_state = "DATA" => tb_fetch_busy /\ tb_fetch_sec = 0
    /\ tb_fetch_busy /\ Serving => tb_fetch_sec < SecOf(data_cnt) + TB_MAXSEC
    /\ hps.st = "moved" => tb_buf[tb_fetch_sec % TB_MAXSEC] = Response(tb_fetch_sec)

\* Every sector fetched and not yet served is in its slot.
Resident ==
  Serving => \A s \in SecOf(data_cnt) .. tb_sec_done - 1 :
               tb_buf[s % TB_MAXSEC] = Response(s)

\* What the Mac was given before a status of GOOD.
Delivered ==
  /\ phase = "DATA_OUT" => data_cnt < tb_srv_len
  /\ GetWhole

GetInv == Phases /\ Answered /\ Fetching /\ Resident /\ Delivered

-----------------------------------------------------------------------------
(* The payload *)

RingSlot(k) == IF k = 0 THEN 0 ELSE 1 + ((k - 1) % (TB_MAXSEC - 1))

Collecting == tb_state \in {"COLL", "COLLW"} /\ phase = "DATA_IN"

\* The collect's counters agree with the count of payload units.
CollectAt ==
  Collecting =>
    /\ tb_col_lba = SecOf(tb_col_lin)
    /\ tb_col_slot = RingSlot(tb_col_lba)
    /\ tb_ship_slot = RingSlot(tb_ship_done + 1)

\* The sector being collected holds the payload so far.
Partial ==
  Collecting => \A u \in Unit :
    u < tb_col_lin % BLOCK /\ (tb_col_lba = 0 => u >= HEAD) =>
      tb_buf[tb_col_slot][u] = <<"pay", cmd.id, tb_col_lba * BLOCK + u - HEAD>>

CollectInv == CollectAt /\ Partial /\ UnshippedKept

-----------------------------------------------------------------------------
(* Sizes and slots *)

LEMMA Sizes ==
  /\ TB_MAXSEC \in Nat /\ TB_MAXSEC >= 3
  /\ BLOCK \in Nat /\ BLOCK >= 3 /\ HEAD \in Nat /\ HEAD >= 1 /\ HEAD < BLOCK
  /\ AHEAD \in Nat /\ AHEAD < BLOCK /\ TB_SEC_MAX \in Nat /\ TB_SEC_MAX >= 1
  /\ 0 \in Unit /\ 0 \in Slot /\ 1 \in 1 .. TB_MAXSEC - 1
  /\ 1 .. TB_MAXSEC - 1 \subseteq Slot
<1>1. /\ {TB_MAXSEC, BLOCK, HEAD, AHEAD, TB_SEC_MAX, MaxCmds} \subseteq Nat
      /\ TB_MAXSEC >= 3 /\ HEAD >= 1 /\ HEAD + 1 < BLOCK /\ AHEAD < BLOCK
      /\ TB_SEC_MAX >= 1
  BY ToolboxAssumption
<1> QED BY <1>1 DEF Unit, Slot

\* The ring's next slot is a slot of the payload.
LEMMA NextSlotType == ASSUME NEW s \in Slot PROVE NextSlot(s) \in 1 .. TB_MAXSEC - 1
  BY Sizes DEF Slot, NextSlot

\* Division with remainder.
LEMMA DivMod ==
  ASSUME NEW a \in Nat, NEW r \in Nat, r > 0
  PROVE  /\ a = r * (a \div r) + (a % r)
         /\ a \div r \in Nat /\ a % r \in 0 .. r - 1
  OBVIOUS

\* The place of a unit: its sector and its position there.
LEMMA Place ==
  ASSUME NEW a \in Nat
  PROVE  /\ SecOf(a) \in Nat /\ a % BLOCK \in Unit
         /\ a = SecOf(a) * BLOCK + (a % BLOCK)
<1>1. BLOCK \in Nat /\ BLOCK > 0
  BY Sizes
<1> QED BY <1>1, DivMod DEF SecOf, Unit

\* A sector of the response ring selects a slot.
LEMMA SlotOf == ASSUME NEW s \in Nat PROVE s % TB_MAXSEC \in Slot
  BY Sizes DEF Slot

-----------------------------------------------------------------------------
(* Types *)

LEMMA HostInit == ASSUME Init PROVE HostTypes
  BY DEF Init, HostTypes, Command, Client, Ops, NoClient, GOOD, CHECK

LEMMA SelectTypes ==
  ASSUME HostTypes, NEW op \in Ops, NEW n \in Nat, NEW blocks \in Nat, Select(op, n, blocks)
  PROVE  HostTypes'
  BY DEF HostTypes, Select, Command, Client, Ops

\* The Mac's command always comes through Select.
LEMMA MacSelects ==
  ASSUME Mac
  PROVE  \E op \in Ops, n \in Nat, blocks \in Nat : Idle /\ Select(op, n, blocks)
<1>1. Lens \subseteq Nat /\ Chunks \subseteq Nat /\ BLOCK \in Nat
  BY ToolboxAssumption
<1>2. 0 \in Nat /\ {0} \subseteq Nat /\ 1 .. BLOCK \subseteq Nat
  BY <1>1
<1>3. CASE GetFile
  BY <1>1, <1>2, <1>3 DEF GetFile, Ops
<1>4. CASE SendPrep
  BY <1>2, <1>4 DEF SendPrep, Ops
<1>5. CASE SendEnd
  BY <1>2, <1>5 DEF SendEnd, Ops
<1>6. CASE SendData
  <2>1. PICK blocks \in Chunks :
          \E n \in (IF blocks = 0 THEN 1 .. BLOCK ELSE {0}) : Select("data", n, blocks)
    BY <1>6 DEF SendData
  <2>2. PICK n \in (IF blocks = 0 THEN 1 .. BLOCK ELSE {0}) : Select("data", n, blocks)
    BY <2>1
  <2>3. n \in Nat
    BY <1>2, <2>2
  <2> QED BY <1>1, <1>6, <2>2, <2>3 DEF SendData, Ops
<1> QED BY <1>3, <1>4, <1>5, <1>6 DEF Mac

\* Steps that leave the bus side alone.
LEMMA HostQuiet ==
  ASSUME Arm \/ ShipNext \/ Load \/ Latch2 \/ FetchNext \/ Retire \/ ClearLine
         \/ Hps \/ Watchdog
  PROVE  UNCHANGED host
  BY DEF Arm, ShipNext, Load, Latch2, FetchNext, Retire, ClearLine, Hps, Poll,
         Raise, TakeBlock, GiveBlock, Drop, Watchdog, Rearm, ShipGiveUp,
         FetchGiveUp, StatTimeout

LEMMA ConcludedType ==
  ASSUME HostTypes
  PROVE  Concluded \in Client
<1>1. data_len \div BLOCK \in Nat
  <2>1. data_len \in Nat
    BY Sizes DEF data_len, Least, HostTypes, Command
  <2> QED BY <2>1, Sizes
<1>2. [id |-> cmd.id, pos |-> cmd.pos, blocks |-> cmd.blocks, n |-> cmd.n,
       sent |-> client.sent] \in Kept
  BY DEF HostTypes, Command, Client, Kept
<1>3. client.chunks + 1 \in Nat /\ client.pos + (data_len \div BLOCK) \in Nat
  BY <1>1 DEF HostTypes, Client
<1>4. client.kept \cup {[id |-> cmd.id, pos |-> cmd.pos, blocks |-> cmd.blocks,
                         n |-> cmd.n, sent |-> client.sent]} \in SUBSET Kept
  BY <1>2 DEF HostTypes, Client
<1> HIDE DEF data_len
<1> QED BY <1>3, <1>4 DEF HostTypes, Client, Concluded, NoClient

LEMMA HostNext == ASSUME Types, [Next]_vars PROVE HostTypes'
<1>1. HostTypes /\ GetTypes
  BY DEF Types
<1>2. CASE UNCHANGED vars
  BY <1>1, <1>2 DEF vars, host, HostTypes
<1>3. CASE Mac
  BY <1>1, <1>3, MacSelects, SelectTypes
<1>4. CASE PutUnit \/ TakeUnit
  BY <1>1, <1>4 DEF PutUnit, TakeUnit, HostTypes
<1>10. CASE EndPayload
  BY <1>1, <1>10 DEF EndPayload, HostTypes, Client
<1>5. CASE Handoff \/ AbortServe
  BY <1>1, <1>5 DEF Handoff, AbortServe, HostTypes, GetTypes
<1>6. CASE EndCommand
  BY <1>1, <1>6, ConcludedType DEF EndCommand, HostTypes
<1>7. CASE ShipLast
  BY <1>1, <1>7 DEF ShipLast, HostTypes
<1>8. CASE BusReset
  BY <1>1, <1>8 DEF BusReset, HostTypes, Client, NoClient
<1>9. CASE UNCHANGED host
  BY <1>1, <1>9 DEF host, HostTypes
<1> QED BY <1>2, <1>3, <1>4, <1>5, <1>6, <1>7, <1>8, <1>9, <1>10, HostQuiet
        DEF Next, Bus, Fsm

\* Steps that leave the FSM's state, request lines and counters alone.
LEMMA FsmQuiet ==
  ASSUME Mac \/ Bus \/ Poll \/ Raise \/ TakeBlock \/ GiveBlock
  PROVE  UNCHANGED <<tb_state, lines, get>>
<1>1. CASE Mac
  BY <1>1, MacSelects DEF Select
<1>2. CASE Bus
  BY <1>2 DEF Bus, PutUnit, EndPayload, Handoff, TakeUnit, AbortServe, EndCommand
<1>3. CASE Poll \/ Raise \/ TakeBlock \/ GiveBlock
  BY <1>3 DEF Poll, Raise, TakeBlock, GiveBlock
<1> QED BY <1>1, <1>2, <1>3

\* A word of the status block in the buffer.
LEMMA WordType ==
  ASSUME HpsTypes, NEW s \in Slot, NEW u \in Unit
  PROVE  tb_buf[s][u] \in Word /\ tb_buf[s][u][2] \in Nat /\ tb_buf[s][u][3] \in Nat
<1>1. tb_buf[s][u] \in Word
  BY DEF HpsTypes, Sector
<1> QED BY <1>1 DEF Word

\* What a look at the status block latches.
LEMMA LookTypes ==
  ASSUME Types, Look
  PROVE  /\ tb_state' \in TbStates
         /\ tb_rd_r' \in BOOLEAN /\ tb_wr_r' \in BOOLEAN
         /\ tb_lba_r' \in Nat /\ tb_fetch_sec' \in Nat /\ tb_retry' \in Nat
         /\ tb_status' \in {GOOD, CHECK} /\ tb_len' \in Nat
<1>1. FsmTypes /\ GetTypes /\ HpsTypes
  BY DEF Types
<1>2. tb_buf[0][0][3] \in Nat
  BY <1>1, WordType, Sizes
<1>3. CASE Signed(tb_buf[0][0]) /\ tb_state' = "LATCH2" /\ UNCHANGED lines
           /\ tb_status' = (IF tb_send_fault THEN CHECK ELSE tb_buf[0][0][1])
           /\ tb_len' = tb_buf[0][0][3]
  BY <1>1, <1>2, <1>3 DEF FsmTypes, TbStates, lines, Signed, GOOD, CHECK
<1>4. CASE /\ tb_state' = "STAT" /\ tb_retry' = tb_retry + 1
           /\ Issue(TRUE, tb_wr_r, 0, tb_fetch_sec) /\ UNCHANGED <<tb_status, tb_len>>
  BY <1>1, <1>4 DEF FsmTypes, GetTypes, TbStates, Issue
<1>5. CASE tb_state' = "RDY" /\ tb_status' = CHECK /\ tb_len' = 0 /\ UNCHANGED lines
  BY <1>1, <1>5 DEF FsmTypes, TbStates, lines
<1> QED BY <1>3, <1>4, <1>5 DEF Look

LEMMA FsmNext == ASSUME Types, [Next]_vars PROVE FsmTypes' /\ GetTypes'
<1>1. FsmTypes /\ GetTypes /\ SendTypes
  BY DEF Types
<1>2. CASE UNCHANGED <<tb_state, lines, get>>
  BY <1>1, <1>2 DEF lines, get, FsmTypes, GetTypes
<1>3. CASE UNCHANGED vars
  BY <1>2, <1>3 DEF vars
<1>4. CASE Arm \/ Load \/ Retire
  <2>1. CASE Arm
    BY <1>1, <2>1 DEF Arm, FsmTypes, GetTypes, TbStates
  <2>2. CASE Load
    BY <1>1, <2>2 DEF Load, Issue, get, FsmTypes, GetTypes, TbStates
  <2>3. CASE Retire
    BY <1>1, <2>3 DEF Retire, lines, get, FsmTypes, GetTypes, TbStates
  <2> QED BY <1>4, <2>1, <2>2, <2>3
<1>5. CASE ShipNext \/ ShipLast
  <2>1. tb_ship_slot \in Nat /\ tb_col_slot \in Nat /\ tb_ship_done + 1 \in Nat
        /\ tb_col_lba \in Nat
    BY <1>1, Sizes DEF SendTypes, Slot
  <2>2. CASE ShipNext
    BY <1>1, <2>1, <2>2 DEF ShipNext, Issue, get, FsmTypes, GetTypes, TbStates
  <2>3. CASE ShipLast
    <3> HIDE DEF tb_col_lin
    <3>1. FsmTypes'
      <4>1. \/ Issue(tb_rd_r, TRUE, tb_col_lba, tb_col_slot) /\ tb_retry' = 0
               /\ tb_state' = "COLLW"
            \/ UNCHANGED <<tb_rd_r, tb_wr_r, tb_lba_r, tb_retry>> /\ tb_fetch_sec' = 0
               /\ tb_state' = "LOAD"
        BY <2>3 DEF ShipLast
      <4>2. CASE Issue(tb_rd_r, TRUE, tb_col_lba, tb_col_slot) /\ tb_retry' = 0
                 /\ tb_state' = "COLLW"
        BY <1>1, <2>1, <4>2 DEF Issue, FsmTypes, TbStates
      <4>3. CASE UNCHANGED <<tb_rd_r, tb_wr_r, tb_lba_r, tb_retry>> /\ tb_fetch_sec' = 0
                 /\ tb_state' = "LOAD"
        BY <1>1, <4>3 DEF FsmTypes, TbStates
      <4> QED BY <4>1, <4>2, <4>3
    <3>2. GetTypes'
      BY <1>1, <2>3 DEF ShipLast, get, GetTypes
    <3> QED BY <3>1, <3>2
  <2> QED BY <1>5, <2>2, <2>3
<1>6. CASE Latch2 \/ FetchNext
  <2>1. CASE Latch2
    <3>1. UNCHANGED <<tb_status, tb_len, tb_get_fault>>
      BY <2>1 DEF Latch2
    <3>2. \/ Issue(TRUE, tb_wr_r, 1, 0) /\ tb_sec_done' = 0 /\ tb_fetch_busy' = TRUE
             /\ tb_retry' = 0 /\ tb_state' = "DATA"
          \/ tb_state' = "RDY" /\ UNCHANGED <<lines, tb_sec_done, tb_fetch_busy>>
      BY <2>1 DEF Latch2
    <3>3. CASE Issue(TRUE, tb_wr_r, 1, 0) /\ tb_sec_done' = 0 /\ tb_fetch_busy' = TRUE
               /\ tb_retry' = 0 /\ tb_state' = "DATA"
      BY <1>1, <3>1, <3>3 DEF Issue, FsmTypes, GetTypes, TbStates
    <3>4. CASE tb_state' = "RDY" /\ UNCHANGED <<lines, tb_sec_done, tb_fetch_busy>>
      BY <1>1, <3>1, <3>4 DEF lines, FsmTypes, GetTypes, TbStates
    <3> QED BY <3>2, <3>3, <3>4
  <2>2. CASE FetchNext
    <3>1. tb_lba_r + 1 \in Nat /\ tb_fetch_sec + 1 \in Nat
      BY <1>1 DEF FsmTypes
    <3> QED BY <1>1, <2>2, <3>1 DEF FetchNext, Issue, FsmTypes, GetTypes, TbStates
  <2> QED BY <1>6, <2>1, <2>2
<1>7. CASE ClearLine
  BY <1>1, <1>7 DEF ClearLine, get, FsmTypes, GetTypes
<1>8. CASE Rearm
  BY <1>1, <1>8 DEF Rearm, get, FsmTypes, GetTypes
<1>9. CASE ShipGiveUp \/ FetchGiveUp
  <2>1. CASE ShipGiveUp
    BY <1>1, <2>1 DEF ShipGiveUp, Shipped, get, FsmTypes, GetTypes, TbStates
  <2>2. CASE FetchGiveUp
    <3>1. FsmTypes'
      BY <1>1, <2>2 DEF FetchGiveUp, FsmTypes, TbStates
    <3>2. GetTypes'
      <4>1. \/ tb_status' = CHECK /\ tb_len' = 0 /\ UNCHANGED tb_get_fault
            \/ tb_get_fault' = TRUE /\ UNCHANGED <<tb_status, tb_len>>
        BY <2>2 DEF FetchGiveUp
      <4>2. tb_fetch_busy' = FALSE /\ UNCHANGED tb_sec_done
        BY <2>2 DEF FetchGiveUp
      <4>3. tb_status' \in {GOOD, CHECK} /\ tb_len' \in Nat
        BY <1>1, <4>1 DEF GetTypes
      <4>4. tb_get_fault' \in BOOLEAN
        BY <1>1, <4>1 DEF GetTypes
      <4> QED BY <1>1, <4>2, <4>3, <4>4 DEF GetTypes
    <3> QED BY <3>1, <3>2
  <2> QED BY <1>9, <2>1, <2>2
<1>10. CASE StatTimeout
  BY <1>1, <1>10, LookTypes DEF StatTimeout, FsmTypes, GetTypes
<1>11. CASE BusReset
  BY <1>1, <1>11 DEF BusReset, Issue, FsmTypes, GetTypes, TbStates
<1>12. CASE Drop
  <2>1. CASE tb_state = "COLLW"
    BY <1>1, <1>12, <2>1 DEF Drop, AckFall, Shipped, get, FsmTypes, GetTypes, TbStates
  <2>2. CASE tb_state = "REQ"
    BY <1>1, <1>12, <2>2 DEF Drop, AckFall, Issue, get, FsmTypes, GetTypes, TbStates
  <2>3. CASE tb_state = "STAT"
    <3>1. Look /\ UNCHANGED <<tb_sec_done, tb_fetch_busy, tb_get_fault>>
      BY <1>12, <2>3 DEF Drop, AckFall
    <3> QED BY <1>1, <3>1, LookTypes DEF FsmTypes, GetTypes
  <2>4. CASE tb_state = "DATA" \/ (tb_state = "STREAM" /\ tb_fetch_busy)
    <3>1. SectorIn /\ UNCHANGED <<tb_status, tb_len, tb_get_fault>>
      BY <1>12, <2>4 DEF Drop, AckFall
    <3>2. tb_lba_r + 1 \in Nat /\ tb_fetch_sec + 1 \in Nat /\ tb_sec_done + 1 \in Nat
      BY <1>1 DEF FsmTypes, GetTypes
    <3> HIDE DEF LastSector
    <3>3. FsmTypes'
      BY <1>1, <2>4, <3>1, <3>2 DEF SectorIn, Issue, FsmTypes, TbStates
    <3>4. GetTypes'
      BY <1>1, <2>4, <3>1, <3>2 DEF SectorIn, GetTypes
    <3> QED BY <3>3, <3>4
  <2>5. CASE ~(\/ tb_state \in {"COLLW", "REQ", "STAT", "DATA"}
               \/ tb_state = "STREAM" /\ tb_fetch_busy)
    BY <1>2, <1>12, <2>5 DEF Drop, AckFall
  <2> QED BY <2>1, <2>2, <2>3, <2>4, <2>5
<1> QED BY <1>2, <1>3, <1>4, <1>5, <1>6, <1>7, <1>8, <1>9, <1>10, <1>11, <1>12, FsmQuiet
        DEF Next, Fsm, Hps, Watchdog

\* Steps that leave the send side's counters alone.
LEMMA SendQuiet ==
  ASSUME Mac \/ EndPayload \/ Handoff \/ TakeUnit \/ AbortServe \/ EndCommand
         \/ ShipNext \/ Latch2 \/ FetchNext \/ Retire \/ ClearLine
         \/ Poll \/ Raise \/ TakeBlock \/ GiveBlock \/ Rearm \/ FetchGiveUp \/ StatTimeout
  PROVE  UNCHANGED <<send, tb_send_pos>>
<1>1. CASE Mac
  BY <1>1, MacSelects DEF Select
<1>2. CASE ~Mac
  BY <1>2 DEF EndPayload, Handoff, TakeUnit, AbortServe, EndCommand, ShipNext,
     Latch2, FetchNext, Retire, ClearLine, Poll, Raise, TakeBlock, GiveBlock,
     Rearm, FetchGiveUp, StatTimeout
<1> QED BY <1>1, <1>2

LEMMA ShippedTypes ==
  ASSUME SendTypes, NEW f \in BOOLEAN, Shipped(f), UNCHANGED <<tb_col_slot, tb_col_lba, tb_send_pos>>
  PROVE  SendTypes'
<1>1. tb_ship_slot' \in 1 .. TB_MAXSEC - 1
  BY NextSlotType, Sizes DEF SendTypes, Shipped
<1>2. tb_ship_done' \in Nat
  BY DEF SendTypes, Shipped
<1>3. tb_send_fault' \in BOOLEAN
  BY DEF SendTypes, Shipped
<1> QED BY <1>1, <1>2, <1>3 DEF SendTypes

LEMMA SendNext == ASSUME Types, [Next]_vars PROVE SendTypes'
<1>1. SendTypes /\ HostTypes /\ FsmTypes
  BY DEF Types
<1>2. CASE UNCHANGED <<send, tb_send_pos>>
  BY <1>1, <1>2 DEF send, SendTypes
<1>3. CASE UNCHANGED vars
  BY <1>2, <1>3 DEF vars
<1>4. CASE PutUnit
  <2>1. NextSlot(tb_col_slot) \in Slot /\ tb_col_lba + 1 \in Nat
    BY <1>1, NextSlotType, Sizes DEF SendTypes
  <2>2. tb_col_slot' \in Slot /\ tb_col_lba' \in Nat
    BY <1>1, <1>4, <2>1 DEF PutUnit, SendTypes
  <2> QED BY <1>1, <1>4, <2>2 DEF PutUnit, SendTypes
<1>5. CASE Arm
  <2>1. CASE phase = "DATA_IN"
    <3>1. 0 \in Slot /\ 1 \in 1 .. TB_MAXSEC - 1 /\ 0 \in Nat
      BY Sizes
    <3>2. /\ tb_col_slot' = 0 /\ tb_col_lba' = 0 /\ tb_ship_done' = 0 /\ tb_ship_slot' = 1
          /\ tb_send_fault' = FALSE /\ tb_send_pos' = tb_send_pos
      BY <1>5, <2>1 DEF Arm
    <3> QED BY <1>1, <3>1, <3>2 DEF SendTypes
  <2>2. CASE phase # "DATA_IN"
    BY <1>2, <1>5, <2>2 DEF Arm
  <2> QED BY <2>1, <2>2
<1>6. CASE ShipLast
  <2>1. tb_col_lba' \in Nat
    <3>1. tb_col_lba' \in {0, tb_col_lba}
      BY <1>6 DEF ShipLast
    <3> QED BY <1>1, <3>1 DEF SendTypes
  <2> QED BY <1>1, <1>6, <2>1 DEF ShipLast, SendTypes
<1>7. CASE Load
  <2>1. data_len \div BLOCK \in Nat
    <3>1. data_len \in Nat
      BY <1>1, Sizes DEF data_len, Least, HostTypes, Command
    <3> QED BY <3>1, Sizes
  <2>2. tb_send_pos' \in Nat
    BY <1>1, <1>7, <2>1 DEF Load, SendTypes
  <2> QED BY <1>1, <1>7, <2>2 DEF Load, send, SendTypes
<1>8. CASE ShipGiveUp
  BY <1>1, <1>8, ShippedTypes DEF ShipGiveUp
<1>9. CASE Drop
  <2>1. CASE tb_state = "COLLW"
    BY <1>1, <1>9, <2>1, ShippedTypes DEF Drop, AckFall
  <2>2. CASE tb_state # "COLLW"
    BY <1>2, <1>9, <2>2 DEF Drop, AckFall
  <2> QED BY <2>1, <2>2
<1>10. CASE BusReset
  BY <1>1, <1>10, Sizes DEF BusReset, SendTypes
<1> QED BY <1>2, <1>3, <1>4, <1>5, <1>6, <1>7, <1>8, <1>9, <1>10, SendQuiet
        DEF Next, Bus, Fsm, Hps, Watchdog

\* What the HPS fills into the buffer.
LEMMA FillType == ASSUME HpsTypes, NEW lba \in Nat PROVE Fill(lba) \in Sector
<1>1. <<answer.st, answer.id, answer.len>> \in Word /\ Nothing \in Word
  BY DEF HpsTypes, Word, Kinds, Nothing, GOOD, CHECK
<1>2. ASSUME NEW u \in Unit, lba # 0
      PROVE  (lba - 1) * BLOCK + u \in Nat
  <2>1. BLOCK \in Nat /\ u \in Nat /\ lba - 1 \in Nat
    BY <1>2, Sizes DEF Unit
  <2> QED BY <2>1
<1>3. ASSUME NEW u \in Unit, lba # 0
      PROVE  <<"resp", answer.id, (lba - 1) * BLOCK + u>> \in Word
  BY <1>2, <1>3 DEF HpsTypes, Word, Kinds
<1> QED BY <1>1, <1>3 DEF Fill, Sector

LEMMA RunTypes ==
  ASSUME HostTypes, HpsTypes, NEW blk, Run(blk)
  PROVE  /\ upload_open' \in BOOLEAN
         /\ answer' \in [st : {GOOD, CHECK}, id : Nat, len : Nat]
<1>1. \E st \in {GOOD, CHECK}, len \in Nat : answer' = [st |-> st, id |-> cmd.id, len |-> len]
  BY DEF Run, Answer, HostTypes, Command, Ops, GOOD, CHECK
<1>2. upload_open' \in BOOLEAN
  BY DEF Run, HpsTypes, HostTypes, Command, Ops
<1> QED BY <1>1, <1>2 DEF HostTypes, Command

LEMMA HpsQuiet ==
  ASSUME Mac \/ EndPayload \/ Handoff \/ TakeUnit \/ AbortServe \/ EndCommand
         \/ Arm \/ ShipNext \/ ShipLast \/ Latch2 \/ FetchNext \/ Retire \/ ClearLine
         \/ Watchdog \/ BusReset
  PROVE  UNCHANGED <<tb_buf, hps, files>>
<1>1. CASE Mac
  BY <1>1, MacSelects DEF Select
<1>2. CASE ~Mac
  BY <1>2 DEF EndPayload, Handoff, TakeUnit, AbortServe, EndCommand, Arm, ShipNext,
     ShipLast, Latch2, FetchNext, Retire, ClearLine, Watchdog, Rearm, ShipGiveUp,
     FetchGiveUp, StatTimeout, BusReset
<1> QED BY <1>1, <1>2

LEMMA HpsNext == ASSUME Types, [Next]_vars PROVE HpsTypes'
<1>1. HpsTypes /\ HostTypes /\ FsmTypes /\ SendTypes
  BY DEF Types
<1>2. CASE UNCHANGED <<tb_buf, hps, files>>
  BY <1>1, <1>2 DEF files, HpsTypes
<1>3. CASE UNCHANGED vars
  BY <1>2, <1>3 DEF vars
<1>4. CASE PutUnit
  <2>1. tb_col_lin % BLOCK \in Unit
    <3>1. data_cnt + HEAD \in Nat
      BY <1>1, Sizes DEF HostTypes
    <3> QED BY <3>1, Place DEF tb_col_lin
  <2>2. <<"pay", cmd.id, data_cnt>> \in Word
    BY <1>1 DEF Word, Kinds, HostTypes, Command
  <2>3. tb_buf' \in [Slot -> Sector]
    <3> HIDE DEF tb_col_lin
    <3> QED BY <1>1, <1>4, <2>1, <2>2 DEF PutUnit, HpsTypes, Sector
  <2> QED BY <1>1, <1>4, <2>3 DEF PutUnit, files, HpsTypes
<1>5. CASE Load
  <2>1. <<"cdb", cmd.id, Offset>> \in Word
    BY <1>1 DEF Word, Kinds, HostTypes, SendTypes, Command, Offset
  <2>2. tb_buf' \in [Slot -> Sector]
    BY <1>1, <1>5, <2>1, Sizes DEF Load, HpsTypes, Sector
  <2> QED BY <1>1, <1>5, <2>2 DEF Load, files, HpsTypes
<1>6. CASE Poll
  BY <1>1, <1>6 DEF Poll, files, HpsTypes, FsmTypes
<1>7. CASE Raise
  BY <1>1, <1>7 DEF Raise, files, HpsTypes
<1>8. CASE TakeBlock
  <2>1. hps' \in [st : {"idle", "taken", "ack", "moved"}, wr : BOOLEAN, lba : Nat]
    BY <1>1, <1>8 DEF TakeBlock, HpsTypes
  <2>2. /\ upload_open' \in BOOLEAN
        /\ answer' \in [st : {GOOD, CHECK}, id : Nat, len : Nat]
    <3>1. CASE hps.lba # 0
      BY <1>1, <1>8, <3>1 DEF TakeBlock, HpsTypes
    <3>2. CASE hps.lba = 0
      BY <1>1, <1>8, <3>2, RunTypes DEF TakeBlock
    <3> QED BY <3>1, <3>2
  <2> QED BY <1>1, <1>8, <2>1, <2>2 DEF TakeBlock, HpsTypes
<1>9. CASE GiveBlock
  <2>1. hps' \in [st : {"idle", "taken", "ack", "moved"}, wr : BOOLEAN, lba : Nat]
    BY <1>1, <1>9 DEF GiveBlock, HpsTypes
  <2>2. Fill(hps.lba) \in Sector
    BY <1>1, FillType DEF HpsTypes
  <2>3. tb_buf' \in [Slot -> Sector]
    BY <1>1, <1>9, <2>2 DEF GiveBlock, HpsTypes
  <2> QED BY <1>1, <1>9, <2>1, <2>3 DEF GiveBlock, files, HpsTypes
<1>10. CASE Drop
  BY <1>1, <1>10 DEF Drop, HpsIdle, files, HpsTypes
<1> QED BY <1>2, <1>3, <1>4, <1>5, <1>6, <1>7, <1>8, <1>9, <1>10, HpsQuiet
        DEF Next, Bus, Fsm, Hps

LEMMA TypesInit == ASSUME Init PROVE Types
<1>1. FsmTypes /\ GetTypes
  BY DEF Init, FsmTypes, GetTypes, TbStates
<1>2. SendTypes
  BY Sizes DEF Init, SendTypes
<1>3. HpsTypes
  <2>1. Nothing \in Word
    BY DEF Nothing, Word, Kinds
  <2>2. tb_buf \in [Slot -> Sector]
    BY <2>1 DEF Init, Empty, Sector
  <2> QED BY <2>2 DEF Init, HpsTypes, HpsIdle
<1> QED BY HostInit, <1>1, <1>2, <1>3 DEF Types

LEMMA TypesNext == ASSUME Types, [Next]_vars PROVE Types'
  BY HostNext, FsmNext, SendNext, HpsNext DEF Types

-----------------------------------------------------------------------------
(* LineInv is inductive *)

LEMMA LineInit == ASSUME Init PROVE LineInv
  BY DEF Init, LineInv, AckOwned, LinesOwned, StatusRead, HpsIdle

\* Steps of the bus leave the lines, the FSM and the HPS alone.
LEMMA LineBus ==
  ASSUME Types, LineInv,
         UNCHANGED <<tb_state, lines, get, hps>>,
         \/ UNCHANGED <<tb_buf, cmd>>
         \/ tb_state \notin {"REQ", "STAT"}
  PROVE  LineInv'
<1>1. AckOwned' /\ LinesOwned'
  BY DEF LineInv, AckOwned, LinesOwned, lines, get
<1>2. StatusRead'
  BY DEF LineInv, StatusRead, lines, get
<1> QED BY <1>1, <1>2 DEF LineInv

\* The FSM starts or retires a round trip with the HPS idle.
LEMMA LineQuiet ==
  ASSUME Types, LineInv, hps.st = "idle", hps' = hps,
         ~tb_wr_r' /\ ~tb_rd_r', tb_state' \in {"IDLE", "COLL", "LOAD", "RDY"}
  PROVE  LineInv'
  BY DEF LineInv, AckOwned, LinesOwned, StatusRead

\* Load puts the CDB of the command in front of slot 0.
LEMMA Loaded ==
  ASSUME Types, Load
  PROVE  tb_buf'[0] = [u \in Unit |-> IF u < HEAD THEN <<"cdb", cmd.id, Offset>>
                                      ELSE tb_buf[0][u]]
  BY Sizes DEF Load, Types, HpsTypes

\* A look without the signature reads the status again, one with it goes on.
LEMMA LineLook ==
  ASSUME Types, LineInv, tb_state = "STAT", Look, tb_buf' = tb_buf, cmd' = cmd,
         hps' = hps \/ hps'.st = "idle",
         Signed(tb_buf[0][0]) \/ tb_retry < TB_RETRY_MAX \/ hps'.st = "idle",
         ~tb_wr_r, tb_retry = TB_RETRY_MAX /\ ~Signed(tb_buf[0][0]) => ~tb_rd_r
  PROVE  LineInv'
<1> DEFINE word == tb_buf[0][0]
<1>1. /\ tb_lba_r = 0 /\ tb_fetch_sec = 0 /\ AckOwned
      /\ Signed(word) => hps.st = "moved" /\ ~tb_rd_r
  BY DEF LineInv, StatusRead
<1>2. CASE Signed(word)
  <2>1. tb_state' = "LATCH2" /\ UNCHANGED lines
    BY <1>2 DEF Look
  <2> HIDE DEF word
  <2> QED BY <1>1, <1>2, <2>1 DEF LineInv, AckOwned, LinesOwned, StatusRead, lines
<1>3. CASE ~Signed(word) /\ tb_retry < TB_RETRY_MAX
  <2>1. tb_state' = "STAT" /\ tb_lba_r' = 0 /\ tb_fetch_sec' = 0 /\ tb_rd_r' /\ ~tb_wr_r'
    BY <1>1, <1>3, ToolboxAssumption DEF Look, Issue, Types, FsmTypes
  <2>2. ~Signed(tb_buf'[0][0])
    BY <1>3
  <2> HIDE DEF word
  <2> QED BY <1>1, <2>1, <2>2 DEF LineInv, AckOwned, LinesOwned, StatusRead
<1>4. CASE ~Signed(word) /\ tb_retry = TB_RETRY_MAX
  <2>1. tb_state' = "RDY" /\ UNCHANGED lines /\ hps'.st = "idle" /\ ~tb_rd_r
    <3>1. ~(tb_retry < TB_RETRY_MAX)
      BY <1>4, ToolboxAssumption
    <3> QED BY <1>4, <3>1 DEF Look
  <2> QED BY <1>1, <2>1 DEF LineInv, AckOwned, LinesOwned, StatusRead, lines
<1> QED BY <1>2, <1>3, <1>4 DEF Look

LEMMA LineNext == ASSUME Prompt, Types, LineInv, [Next]_vars PROVE LineInv'
<1>1. CASE UNCHANGED vars
  BY <1>1, LineBus DEF vars, host
<1>2. CASE Mac
  BY <1>2, MacSelects, LineBus DEF Idle, Select
<1>3. CASE Bus
  <2>1. CASE PutUnit
    BY <2>1, LineBus DEF PutUnit
  <2> QED BY <1>3, <2>1, LineBus DEF Bus, EndPayload, Handoff, TakeUnit, AbortServe, EndCommand
<1>4. CASE Arm
  BY <1>4, LineQuiet DEF Arm, LineInv, AckOwned, LinesOwned
<1>5. CASE ShipNext
  BY <1>5 DEF ShipNext, Issue, LineInv, AckOwned, LinesOwned, StatusRead
<1>6. CASE ShipLast
  BY <1>6 DEF ShipLast, Issue, LineInv, AckOwned, LinesOwned, StatusRead
<1>7. CASE Load
  <2>1. tb_buf'[0][0] = <<"cdb", cmd.id, Offset>>
    BY <1>7, Loaded, Sizes
  <2>2. tb_state = "LOAD" /\ tb_state' = "REQ" /\ UNCHANGED <<hps, cmd, tb_rd_r>>
        /\ tb_lba_r' = 0 /\ tb_fetch_sec' = 0
    BY <1>7 DEF Load, Issue, host
  <2> QED BY <2>1, <2>2 DEF LineInv, AckOwned, LinesOwned, StatusRead
<1>8. CASE Latch2
  BY <1>8 DEF Latch2, Issue, tb_ack, lines, LineInv, AckOwned, LinesOwned, StatusRead
<1>9. CASE FetchNext
  BY <1>9 DEF FetchNext, Issue, LineInv, AckOwned, LinesOwned, StatusRead
<1>10. CASE Retire
  BY <1>10, LineQuiet DEF Retire, lines, LineInv, AckOwned, LinesOwned
<1>11. CASE ClearLine
  BY <1>11 DEF ClearLine, get, host, LineInv, AckOwned, LinesOwned, StatusRead
<1>12. CASE Poll
  <2>1. /\ hps.st = "idle" /\ hps'.st = "taken" /\ hps'.lba = tb_lba_r
        /\ UNCHANGED <<tb_state, lines, get, tb_buf, cmd>>
    BY <1>12 DEF Poll, host
  <2>2. hps'.wr = (tb_state \in {"COLLW", "REQ"})
    <3>1. tb_wr_r <=> tb_state \in {"COLLW", "REQ"}
      BY <1>12 DEF Poll, LineInv, LinesOwned
    <3> QED BY <1>12, <3>1 DEF Poll, Types, FsmTypes
  <2> QED BY <1>12, <2>1, <2>2 DEF Poll, lines, get, LineInv, AckOwned, LinesOwned, StatusRead
<1>13. CASE Raise
  BY <1>13 DEF Raise, lines, get, host, LineInv, AckOwned, LinesOwned, StatusRead, Types, HpsTypes
<1>14. CASE TakeBlock
  BY <1>14 DEF TakeBlock, lines, get, host, LineInv, AckOwned, LinesOwned, StatusRead, Types, HpsTypes
<1>15. CASE GiveBlock
  <2>1. tb_state \in {"STAT", "DATA", "STREAM"} /\ hps.st = "ack" /\ ~hps.wr
    BY <1>15 DEF GiveBlock, LineInv, AckOwned, StatusRead
  <2>2. /\ UNCHANGED <<tb_state, lines, get>> /\ hps' = [hps EXCEPT !.st = "moved"]
        /\ tb_state = "STAT" => ~tb_rd_r
    BY <1>15 DEF GiveBlock, RdSeen, tb_ack
  <2>3. hps' = [st |-> "moved", wr |-> hps.wr, lba |-> hps.lba]
    BY <2>2 DEF Types, HpsTypes
  <2> QED BY <2>1, <2>2, <2>3 DEF lines, get, LineInv, AckOwned, LinesOwned, StatusRead
<1>16. CASE Drop
  <2>1. hps.st = "moved" /\ hps'.st = "idle" /\ UNCHANGED <<tb_buf, host>>
    BY <1>16 DEF Drop, HpsIdle
  <2>2. /\ tb_state \in {"COLLW", "REQ"} => ~tb_wr_r
        /\ tb_state \in {"STAT", "DATA", "STREAM"} => ~tb_rd_r
    BY <1>16 DEF Drop, WrSeen, RdSeen, tb_ack
  <2>3. CASE tb_state = "COLLW"
    BY <1>16, <2>1, <2>2, <2>3 DEF Drop, AckFall, Shipped, LineInv, AckOwned, LinesOwned, StatusRead
  <2>4. CASE tb_state = "REQ"
    <3>1. tb_state' = "STAT" /\ tb_rd_r' /\ tb_wr_r' = tb_wr_r /\ tb_lba_r' = 0
          /\ tb_fetch_sec' = tb_fetch_sec
      BY <1>16, <2>4 DEF Drop, AckFall, Issue
    <3>2. ~Signed(tb_buf'[0][0])
      BY <2>1, <2>4 DEF LineInv, StatusRead, Signed, GOOD, CHECK
    <3> QED BY <2>1, <2>2, <2>4, <3>1, <3>2 DEF LineInv, AckOwned, LinesOwned, StatusRead
  <2>5. CASE tb_state = "STAT"
    BY <1>16, <2>1, <2>2, <2>5, LineLook DEF Drop, AckFall, host, LineInv, LinesOwned
  <2>6. CASE tb_state = "DATA" \/ (tb_state = "STREAM" /\ tb_fetch_busy)
    <3>1. SectorIn
      BY <1>16, <2>6 DEF Drop, AckFall
    <3> HIDE DEF LastSector
    <3> QED BY <2>1, <2>2, <2>6, <3>1 DEF SectorIn, Issue, LineInv, AckOwned, LinesOwned, StatusRead
  <2>7. CASE tb_state \notin {"COLLW", "REQ", "STAT", "DATA"} /\ ~(tb_state = "STREAM" /\ tb_fetch_busy)
    <3>1. UNCHANGED <<tb_state, lines, get>>
      BY <1>16, <2>7 DEF Drop, AckFall
    <3> QED BY <2>1, <2>7, <3>1 DEF lines, get, LineInv, AckOwned, LinesOwned, StatusRead
  <2> QED BY <2>3, <2>4, <2>5, <2>6, <2>7
<1>17. CASE Rearm
  BY <1>17 DEF Rearm, get, LineInv, AckOwned, LinesOwned, StatusRead
<1>18. CASE ShipGiveUp
  BY <1>18, LineQuiet DEF ShipGiveUp, Shipped, Unpolled, LineInv, LinesOwned
<1>19. CASE FetchGiveUp
  BY <1>19, LineQuiet DEF FetchGiveUp, Unpolled, LineInv, LinesOwned
<1>20. CASE StatTimeout
  <2>1. Signed(tb_buf[0][0]) \/ tb_retry < TB_RETRY_MAX
    BY <1>20 DEF StatTimeout, Prompt
  <2>2. Signed(tb_buf[0][0]) \/ tb_retry # TB_RETRY_MAX
    BY <2>1, ToolboxAssumption
  <2> QED BY <1>20, <2>1, <2>2, LineLook DEF StatTimeout, host, LineInv, LinesOwned
<1>21. CASE BusReset
  BY <1>21, LineQuiet DEF BusReset, Issue
<1> QED BY <1>1, <1>2, <1>3, <1>4, <1>5, <1>6, <1>7, <1>8, <1>9, <1>10, <1>11, <1>12,
           <1>13, <1>14, <1>15, <1>16, <1>17, <1>18, <1>19, <1>20, <1>21
        DEF Next, Fsm, Hps, Watchdog

\* The transfer in hand is the one the FSM waits for, for every ring and every
\* timing of polls, watchdogs and bus resets: an ack edge of the Toolbox channel
\* is never counted for a request that was given up.
THEOREM AckEdgesOwned == ASSUME Prompt PROVE Spec => []AckOwned
<1>1. Init => Types /\ LineInv
  BY TypesInit, LineInit
<1>2. Types /\ LineInv /\ [Next]_vars => Types' /\ LineInv'
  BY TypesNext, LineNext
<1>3. Types /\ LineInv => AckOwned
  BY DEF LineInv
<1> QED BY <1>1, <1>2, <1>3, PTL DEF Spec

-----------------------------------------------------------------------------
(* The phases of the bus *)

LEMMA PhasesNext == ASSUME Types, LineInv, Phases, [Next]_vars PROVE Phases'
<1>1. CASE UNCHANGED vars
  BY <1>1 DEF vars, host, send, Phases, tb_ship_pending
<1>2. CASE Mac
  BY <1>2, MacSelects DEF Idle, Select, send, Phases, tb_ship_pending
<1>3. CASE PutUnit
  BY <1>3 DEF PutUnit, tb_collect, Phases
<1>4. CASE EndPayload
  BY <1>4 DEF EndPayload, tb_collect, send, Phases, tb_ship_pending
<1>5. CASE Handoff \/ TakeUnit \/ AbortServe \/ EndCommand
  BY <1>5 DEF Handoff, TakeUnit, AbortServe, EndCommand, Phases
<1>6. CASE Arm
  BY <1>6 DEF Arm, host, Phases
<1>7. CASE ShipNext
  BY <1>7 DEF ShipNext, host, Phases
<1>8. CASE ShipLast
  <2>1. phase = "TB" /\ phase' = phase /\ data_cnt' = 0
    BY <1>8 DEF ShipLast
  <2> QED BY <2>1 DEF Phases
<1>9. CASE Load \/ Latch2 \/ FetchNext
  BY <1>9 DEF Load, Latch2, FetchNext, host, Phases
<1>10. CASE Retire
  BY <1>10 DEF Retire, host, Phases
<1>11. CASE ClearLine \/ Poll \/ Raise \/ TakeBlock \/ GiveBlock \/ Rearm
  BY <1>11 DEF ClearLine, Poll, Raise, TakeBlock, GiveBlock, Rearm, host, send, Phases,
     tb_ship_pending
<1>12. CASE ShipGiveUp \/ FetchGiveUp
  BY <1>12 DEF ShipGiveUp, Shipped, FetchGiveUp, host, Phases
<1>13. CASE StatTimeout
  BY <1>13 DEF StatTimeout, Look, host, Phases
<1>14. CASE BusReset
  BY <1>14 DEF BusReset, Phases
<1>15. CASE Drop
  <2>1. UNCHANGED host
    BY <1>15 DEF Drop
  <2>2. CASE UNCHANGED <<tb_state, send>>
    BY <2>1, <2>2 DEF host, send, Phases, tb_ship_pending
  <2>3. CASE tb_state = "COLLW"
    BY <1>15, <2>1, <2>3 DEF Drop, AckFall, Shipped, host, Phases
  <2>4. CASE tb_state = "REQ" \/ tb_state = "STAT"
    BY <1>15, <2>1, <2>4 DEF Drop, AckFall, Look, host, Phases
  <2>5. CASE tb_state = "DATA" \/ (tb_state = "STREAM" /\ tb_fetch_busy)
    <3>1. tb_state' \in {"RDY", "STREAM"}
      BY <1>15, <2>5 DEF Drop, AckFall, SectorIn
    <3> QED BY <2>1, <2>5, <3>1 DEF host, Phases
  <2> QED BY <1>15, <2>2, <2>3, <2>4, <2>5 DEF Drop, AckFall
<1> QED BY <1>1, <1>2, <1>3, <1>4, <1>5, <1>6, <1>7, <1>8, <1>9, <1>10, <1>11, <1>12,
           <1>13, <1>14, <1>15
        DEF Next, Bus, Fsm, Hps, Watchdog

-----------------------------------------------------------------------------
(* The answer is the command's *)

\* Running the request block answers its command.
LEMMA RunAnswers ==
  ASSUME Types, LineInv, tb_state = "REQ", Run(tb_buf[0])
  PROVE  answer'.id = cmd.id /\ answer'.len = AnswerLen
<1>1. tb_buf[0][0][1] = "cdb" /\ tb_buf[0][0][2] = cmd.id
  BY DEF LineInv, StatusRead
<1>2. cmd.op \in Ops
  BY DEF Types, HostTypes, Command
<1>3. CASE cmd.op = "get"
  BY <1>1, <1>3 DEF Run, Answer, AnswerLen
<1>4. CASE cmd.op = "prep"
  BY <1>1, <1>4 DEF Run, Answer, AnswerLen
<1>5. CASE cmd.op = "data"
  BY <1>1, <1>5 DEF Run, Answer, AnswerLen
<1>6. CASE cmd.op = "end"
  BY <1>1, <1>6 DEF Run, Answer, AnswerLen
<1> QED BY <1>2, <1>3, <1>4, <1>5, <1>6 DEF Ops

\* What a look makes of an answered command.
LEMMA LookAnswers ==
  ASSUME Types, LineInv, Phases, Answered, tb_state = "STAT", Look,
         UNCHANGED <<host, tb_buf, answer>>
  PROVE  Answered'
<1>1. phase = "TB" /\ answer.id = cmd.id /\ answer.len = AnswerLen /\ AnswerLen' = AnswerLen
  BY DEF Phases, Answered, host, AnswerLen, Types, HostTypes
<1>2. CASE Signed(tb_buf[0][0])
  <2>1. tb_state' = "LATCH2" /\ tb_len' = tb_buf[0][0][3]
    BY <1>2 DEF Look
  <2>2. tb_len' = answer.len
    BY <1>2, <2>1 DEF Answered
  <2> QED BY <1>1, <2>1, <2>2 DEF Answered, host
<1>3. CASE ~Signed(tb_buf[0][0]) /\ tb_state' = "STAT"
  BY <1>1, <1>3 DEF Answered, host
<1>4. CASE tb_state' = "RDY" /\ tb_len' = 0 /\ tb_status' = CHECK
  BY <1>1, <1>4 DEF Answered, host, GOOD, CHECK
<1> QED BY <1>2, <1>3, <1>4 DEF Look

LEMMA AnsweredNext == ASSUME Types, LineInv, Phases, Answered, [Next]_vars PROVE Answered'
<1> USE DEF AnswerLen
<1>1. CASE UNCHANGED vars
  BY <1>1 DEF vars, host, get, files, Answered
<1>2. CASE Mac
  BY <1>2, MacSelects DEF Idle, Select, get, files, Answered
<1>3. CASE PutUnit
  BY <1>3 DEF PutUnit, tb_collect, get, files, Answered
<1>4. CASE EndPayload \/ TakeUnit \/ AbortServe \/ EndCommand
  BY <1>4 DEF EndPayload, TakeUnit, AbortServe, EndCommand, get, files, Answered
<1>5. CASE Handoff
  BY <1>5 DEF Handoff, get, files, Answered
<1>6. CASE Arm \/ ShipNext \/ Retire \/ FetchNext
  BY <1>6 DEF Arm, ShipNext, Retire, FetchNext, host, get, files, Answered, Phases
<1>7. CASE ShipLast
  BY <1>7 DEF ShipLast, get, files, Answered
<1>8. CASE Load
  <2>1. tb_state = "LOAD" /\ tb_state' = "REQ" /\ hps' = hps /\ hps.st = "idle"
    BY <1>8 DEF Load, LineInv, AckOwned
  <2> QED BY <1>8, <2>1 DEF Load, host, get, files, Answered
<1>9. CASE Latch2
  BY <1>9 DEF Latch2, host, files, Answered
<1>10. CASE ClearLine \/ Rearm \/ Poll \/ Raise
  BY <1>10 DEF ClearLine, Rearm, Poll, Raise, host, get, files, Answered, Types, HpsTypes
<1>11. CASE TakeBlock
  <2>1. /\ UNCHANGED <<host, tb_state, get, tb_buf>> /\ tb_state \in {"COLLW", "REQ"}
    BY <1>11 DEF TakeBlock, LineInv, AckOwned
  <2>2. CASE tb_state = "REQ"
    <3>1. hps.lba = 0 /\ tb_fetch_sec = 0 /\ 0 % TB_MAXSEC = 0
      BY <1>11, <2>2, Sizes DEF TakeBlock, LineInv, AckOwned, StatusRead
    <3>2. Run(tb_buf[0])
      BY <1>11, <3>1 DEF TakeBlock
    <3>3. answer'.id = cmd.id /\ answer'.len = AnswerLen
      BY <2>2, <3>2, RunAnswers
    <3> QED BY <2>1, <2>2, <3>3 DEF host, get, Answered
  <2>3. CASE tb_state = "COLLW"
    BY <2>1, <2>3 DEF host, get, Answered
  <2> QED BY <2>1, <2>2, <2>3
<1>12. CASE GiveBlock
  <2>1. /\ UNCHANGED <<host, tb_state, get, answer>>
        /\ tb_state \in {"STAT", "DATA", "STREAM", "LATCH2"}
    BY <1>12 DEF GiveBlock, LineInv, AckOwned, files
  <2>2. CASE tb_state = "STAT"
    <3>1. hps.lba = 0 /\ tb_fetch_sec = 0 /\ 0 % TB_MAXSEC = 0
      BY <1>12, <2>2, Sizes DEF GiveBlock, LineInv, AckOwned, StatusRead
    <3>2. tb_buf'[0] = Fill(0)
      BY <1>12, <3>1, Sizes DEF GiveBlock, Types, HpsTypes
    <3>3. Signed(tb_buf'[0][0]) => tb_buf'[0][0] = <<answer.st, answer.id, answer.len>>
      BY <3>2, Sizes DEF Fill, Signed, Nothing, GOOD, CHECK
    <3> QED BY <2>1, <2>2, <3>3 DEF host, get, Answered
  <2>3. CASE tb_state # "STAT"
    BY <2>1, <2>3 DEF host, get, Answered
  <2> QED BY <2>2, <2>3
<1>13. CASE Drop
  <2>1. UNCHANGED <<host, tb_buf, answer>> /\ hps.st = "moved" /\ hps'.st = "idle"
    BY <1>13 DEF Drop, files, HpsIdle
  <2>2. CASE tb_state = "COLLW"
    <3>1. tb_state' = "COLL" /\ UNCHANGED get
      BY <1>13, <2>2 DEF Drop, AckFall, Shipped
    <3> QED BY <2>1, <2>2, <3>1 DEF host, get, Answered
  <2>3. CASE tb_state = "REQ"
    <3>1. tb_state' = "STAT" /\ UNCHANGED get
      BY <1>13, <2>3 DEF Drop, AckFall
    <3>2. ~Signed(tb_buf'[0][0])
      BY <2>1, <2>3 DEF LineInv, StatusRead, Signed, GOOD, CHECK
    <3>3. phase = "TB"
      BY <2>3 DEF Phases, Types, HostTypes
    <3> QED BY <2>1, <2>3, <3>1, <3>2, <3>3 DEF host, get, Answered
  <2>4. CASE tb_state = "STAT"
    BY <1>13, <2>1, <2>4, LookAnswers DEF Drop, AckFall
  <2>5. CASE tb_state = "DATA" \/ (tb_state = "STREAM" /\ tb_fetch_busy)
    <3>1. tb_state' \in {"RDY", "STREAM"} /\ UNCHANGED <<tb_status, tb_len>>
      BY <1>13, <2>5 DEF Drop, AckFall, SectorIn
    <3> QED BY <2>1, <2>5, <3>1 DEF host, Answered
  <2>6. CASE UNCHANGED <<tb_state, get>>
    BY <2>1, <2>6 DEF host, get, Answered
  <2> QED BY <1>13, <2>2, <2>3, <2>4, <2>5, <2>6 DEF Drop, AckFall
<1>14. CASE ShipGiveUp
  BY <1>14 DEF ShipGiveUp, Shipped, host, get, files, Answered
<1>15. CASE FetchGiveUp
  BY <1>15 DEF FetchGiveUp, host, files, Answered, Phases, GOOD, CHECK
<1>16. CASE StatTimeout
  BY <1>16, LookAnswers DEF StatTimeout, files
<1>17. CASE BusReset
  BY <1>17 DEF BusReset, Answered
<1> QED BY <1>1, <1>2, <1>3, <1>4, <1>5, <1>6, <1>7, <1>8, <1>9, <1>10, <1>11, <1>12,
           <1>13, <1>14, <1>15, <1>16, <1>17
        DEF Next, Bus, Fsm, Hps, Watchdog

-----------------------------------------------------------------------------
(* The ring of the response *)

\* Two numbers less than r apart never agree modulo r.
LEMMA ModDistinct ==
  ASSUME NEW a \in Nat, NEW b \in Nat, NEW r \in Nat, r > 0, a < b, b < a + r
  PROVE  a % r # b % r
<1> DEFINE p == a \div r
           q == b \div r
<1>1. /\ a = r * p + (a % r) /\ p \in Nat /\ a % r \in Nat
      /\ b = r * q + (b % r) /\ q \in Nat /\ b % r \in Nat
  BY DivMod
<1>2. SUFFICES ASSUME a % r = b % r PROVE FALSE
  OBVIOUS
<1> HIDE DEF p, q
<1>3. b - a = r * (q - p)
  <2>1. b - a = r * q - r * p
    BY <1>1, <1>2
  <2>2. r * q - r * p = r * (q - p)
    BY <1>1
  <2> QED BY <2>1, <2>2
<1>4. CASE q - p <= 0
  <2>1. r * (q - p) <= 0
    BY <1>1, <1>4
  <2> QED BY <2>1, <1>3
<1>5. CASE q - p >= 1
  <2>1. r * (q - p) >= r
    BY <1>1, <1>5
  <2> QED BY <2>1, <1>3
<1> QED BY <1>1, <1>4, <1>5

\* Sectors grow with units.
LEMMA SecStep ==
  ASSUME NEW a \in Nat
  PROVE  SecOf(a) \in Nat /\ SecOf(a + 1) \in Nat /\ SecOf(a) <= SecOf(a + 1)
<1>1. BLOCK \in Nat /\ BLOCK > 0
  BY Sizes
<1> QED BY <1>1 DEF SecOf

LEMMA SecZero == SecOf(0) = 0
<1>1. BLOCK \in Nat /\ BLOCK > 0
  BY Sizes
<1> QED BY <1>1 DEF SecOf

\* What the HPS fills in for an answered command is its response.
LEMMA FillIsResponse ==
  ASSUME Types, answer.id = cmd.id, answer.len = AnswerLen, NEW s \in Nat
  PROVE  Fill(s + 1) = Response(s)
<1>1. s + 1 # 0 /\ (s + 1) - 1 = s
  OBVIOUS
<1> QED BY <1>1 DEF Fill, Response

\* Steps that move neither the fetch, nor the ring, nor the count.
LEMMA RingKept ==
  ASSUME Types, Fetching, Resident,
         UNCHANGED <<tb_lba_r, tb_fetch_sec, tb_buf, cmd, tb_sec_done, tb_fetch_busy>>,
         tb_state' \in {"DATA", "STREAM"} =>
           tb_state' = tb_state /\ (hps'.st = "moved" => hps.st = "moved"),
         Serving' => Serving /\ data_cnt' = data_cnt
  PROVE  Fetching' /\ Resident'
<1>1. \A s : Response(s)' = Response(s)
  BY DEF Response, AnswerLen
<1>2. Fetching'
  BY <1>1 DEF Fetching
<1>3. Resident'
  BY <1>1 DEF Resident
<1> QED BY <1>2, <1>3

\* Steps after which nothing is served or fetched.
LEMMA RingIdle ==
  ASSUME tb_state' \notin {"DATA", "STREAM"}, ~Serving'
  PROVE  Fetching' /\ Resident'
  BY DEF Fetching, Resident

\* A sector of the response lands in its slot.
LEMMA RingGive ==
  ASSUME Types, LineInv, Phases, Answered, Fetching, Resident, GiveBlock
  PROVE  Fetching' /\ Resident'
<1>1. /\ UNCHANGED <<host, tb_state, lines, get>> /\ hps.st = "ack" /\ ~hps.wr
      /\ hps.lba = tb_lba_r /\ tb_state \in {"STAT", "DATA", "STREAM"}
      /\ tb_state = "STREAM" => tb_fetch_busy
  BY DEF GiveBlock, LineInv, AckOwned, StatusRead
<1>2. CASE tb_state = "STAT"
  BY <1>1, <1>2, RingIdle DEF host, Phases, Serving
<1>3. CASE tb_state \in {"DATA", "STREAM"}
  <2> DEFINE f == tb_fetch_sec
  <2>1. /\ tb_fetch_busy /\ hps.lba = f + 1 /\ f \in Nat /\ tb_sec_done = f
        /\ Serving => f < SecOf(data_cnt) + TB_MAXSEC
    BY <1>1, <1>3 DEF Fetching, Types, FsmTypes
  <2>2. Fill(hps.lba) = Response(f)
    BY <1>3, <2>1, FillIsResponse DEF Answered
  <2>3. f % TB_MAXSEC \in Slot
    BY <2>1, SlotOf
  <2>4. /\ tb_buf'[f % TB_MAXSEC] = Response(f)
        /\ \A x \in Slot : x # f % TB_MAXSEC => tb_buf'[x] = tb_buf[x]
    BY <2>2, <2>3 DEF GiveBlock, Types, HpsTypes
  <2>5. \A s : Response(s)' = Response(s)
    BY <1>1 DEF host, Response, AnswerLen
  <2>6. Serving' = Serving /\ SecOf(data_cnt)' = SecOf(data_cnt)
    BY <1>1 DEF host, get, Serving, SecOf
  <2>7. Fetching'
    BY <1>1, <1>3, <2>1, <2>4, <2>5, <2>6 DEF Fetching, lines, get
  <2>8. ASSUME Serving, NEW s \in SecOf(data_cnt) .. tb_sec_done - 1
        PROVE  tb_buf'[s % TB_MAXSEC] = Response(s)
    <3>1. data_cnt \in Nat /\ TB_MAXSEC \in Nat /\ TB_MAXSEC > 0
      BY Sizes DEF Types, HostTypes
    <3>2. SecOf(data_cnt) \in Nat
      BY <3>1, SecStep
    <3>3. s \in Nat /\ s < f /\ f < s + TB_MAXSEC
      BY <2>1, <2>8, <3>1, <3>2
    <3>4. s % TB_MAXSEC # f % TB_MAXSEC
      BY <2>1, <3>1, <3>3, ModDistinct
    <3>5. tb_buf'[s % TB_MAXSEC] = tb_buf[s % TB_MAXSEC]
      BY <2>4, <3>3, <3>4, SlotOf
    <3> QED BY <2>8, <3>5 DEF Resident
  <2>9. Resident'
    BY <1>1, <2>5, <2>6, <2>8 DEF Resident, get
  <2> QED BY <2>7, <2>9
<1> QED BY <1>1, <1>2, <1>3

\* A fetched sector is counted.
LEMMA RingCount ==
  ASSUME Types, Phases, Fetching, Resident, hps.st = "moved", hps'.st = "idle",
         tb_state = "DATA" \/ (tb_state = "STREAM" /\ tb_fetch_busy),
         SectorIn, UNCHANGED <<host, tb_buf, tb_len>>
  PROVE  Fetching' /\ Resident'
<1> DEFINE f == tb_fetch_sec
<1>1. /\ tb_lba_r = f + 1 /\ tb_sec_done = f /\ f \in Nat /\ tb_fetch_busy
      /\ tb_buf[f % TB_MAXSEC] = Response(f)
      /\ tb_state = "DATA" => f = 0
  BY DEF Fetching, Types, FsmTypes
<1>2. /\ tb_sec_done' = f + 1
      /\ tb_state' = IF LastSector THEN "RDY" ELSE "STREAM"
      /\ tb_fetch_busy' = (tb_state = "DATA" /\ ~LastSector)
      /\ tb_state = "DATA" /\ ~LastSector => tb_lba_r' = tb_lba_r + 1 /\ tb_fetch_sec' = f + 1
      /\ ~(tb_state = "DATA" /\ ~LastSector) => tb_lba_r' = tb_lba_r /\ tb_fetch_sec' = f
  BY <1>1 DEF SectorIn, Issue
<1>3. \A s : Response(s)' = Response(s)
  BY DEF host, Response, AnswerLen
<1>4. /\ data_cnt' = data_cnt /\ SecOf(data_cnt) \in Nat
      /\ TB_MAXSEC \in Nat /\ TB_MAXSEC >= 3
  BY SecStep, Sizes DEF host, Types, HostTypes
<1> HIDE DEF LastSector
<1>5. Serving' => Serving
  BY <1>2 DEF host, Serving
<1>6. Fetching'
  <2>1. CASE tb_state = "DATA" /\ ~LastSector
    <3>1. f = 0 /\ tb_lba_r = 1
      BY <1>1, <2>1
    <3>2. tb_fetch_sec' = 1 /\ tb_lba_r' = 2 /\ tb_sec_done' = 1
      BY <1>2, <2>1, <3>1
    <3>3. tb_state' = "STREAM" /\ tb_fetch_busy'
      BY <1>2, <2>1
    <3>4. SecOf(data_cnt)' = SecOf(data_cnt) /\ 1 < SecOf(data_cnt) + TB_MAXSEC
      BY <1>4
    <3> QED BY <3>2, <3>3, <3>4 DEF Fetching
  <2>2. CASE tb_state # "DATA" /\ ~LastSector
    BY <1>1, <1>2, <2>2 DEF Fetching
  <2>3. CASE LastSector
    BY <1>2, <2>3 DEF Fetching
  <2> QED BY <2>1, <2>2, <2>3
<1>7. ASSUME Serving, NEW s \in SecOf(data_cnt) .. f
      PROVE  tb_buf[s % TB_MAXSEC] = Response(s)
  <2>1. CASE s = f
    BY <1>1, <2>1
  <2>2. CASE s # f
    <3>1. s \in SecOf(data_cnt) .. tb_sec_done - 1
      BY <1>1, <1>4, <1>7, <2>2
    <3> QED BY <1>7, <3>1 DEF Resident
  <2> QED BY <2>1, <2>2
<1>8. (f + 1) - 1 = f
  BY <1>1
<1>9. Resident'
  BY <1>2, <1>3, <1>4, <1>5, <1>7, <1>8 DEF Resident
<1> QED BY <1>6, <1>9

LEMMA RingNext ==
  ASSUME Types, LineInv, Phases, Answered, Fetching, Resident, [Next]_vars
  PROVE  Fetching' /\ Resident'
<1>1. CASE UNCHANGED vars
  BY <1>1, RingKept DEF vars, host, lines, get, Serving
<1>2. CASE Mac
  BY <1>2, MacSelects, RingIdle DEF Idle, Select, Serving
<1>3. CASE PutUnit \/ EndPayload
  BY <1>3, RingIdle DEF PutUnit, EndPayload, tb_collect, Serving
<1>4. CASE Handoff
  BY <1>4, RingKept DEF Handoff, lines, get, Serving
<1>5. CASE TakeUnit
  <2>1. /\ phase = "DATA_OUT" /\ data_cnt' = data_cnt + 1
        /\ UNCHANGED <<tb_state, tb_lba_r, tb_fetch_sec, tb_buf, cmd, tb_sec_done,
                       tb_fetch_busy, hps>>
    BY <1>5 DEF TakeUnit, lines, get
  <2>2. \A s : Response(s)' = Response(s)
    BY <2>1 DEF Response, AnswerLen
  <2>3. /\ SecOf(data_cnt) \in Nat /\ SecOf(data_cnt)' \in Nat
        /\ SecOf(data_cnt) <= SecOf(data_cnt)' /\ TB_MAXSEC \in Nat
        /\ tb_fetch_sec \in Nat /\ tb_sec_done \in Nat
    <3>1. data_cnt \in Nat /\ tb_fetch_sec \in Nat /\ tb_sec_done \in Nat
      BY DEF Types, HostTypes, FsmTypes, GetTypes
    <3> QED BY <2>1, <3>1, SecStep, Sizes DEF SecOf
  <2>4. Serving
    BY <2>1 DEF Serving
  <2>5. Fetching'
    BY <2>1, <2>2, <2>3, <2>4 DEF Fetching
  <2>6. \A s \in SecOf(data_cnt)' .. tb_sec_done - 1 : s \in SecOf(data_cnt) .. tb_sec_done - 1
    BY <2>3
  <2>7. Resident'
    BY <2>1, <2>2, <2>4, <2>6 DEF Resident
  <2> QED BY <2>5, <2>7
<1>6. CASE AbortServe \/ EndCommand
  BY <1>6, RingKept DEF AbortServe, EndCommand, lines, get, Serving
<1>7. CASE Arm \/ ShipNext \/ Load
  BY <1>7, RingIdle DEF Arm, ShipNext, Load, host, Phases, Serving
<1>8. CASE ShipLast
  <2>1. phase' = "TB" /\ tb_state' \in {"COLLW", "LOAD"}
    BY <1>8 DEF ShipLast
  <2> QED BY <2>1, RingIdle DEF Serving
<1>9. CASE Latch2
  <2>1. phase = "TB" /\ data_cnt = 0 /\ UNCHANGED <<host, tb_len>> /\ hps' = hps
        /\ hps.st # "moved"
    BY <1>9 DEF Latch2, Phases, tb_ack, Types, HostTypes
  <2>2. CASE tb_len = 0
    <3>1. tb_state' = "RDY"
      BY <1>9, <2>2 DEF Latch2
    <3> QED BY <2>1, <2>2, <3>1, RingIdle DEF host, Serving
  <2>3. CASE tb_len # 0
    <3>1. tb_state' = "DATA" /\ tb_lba_r' = 1 /\ tb_fetch_sec' = 0 /\ tb_sec_done' = 0
          /\ tb_fetch_busy'
      BY <1>9, <2>3 DEF Latch2, Issue
    <3>2. SecOf(data_cnt)' = 0 /\ TB_MAXSEC \in Nat /\ TB_MAXSEC >= 3
      BY <2>1, SecZero, Sizes DEF host
    <3>3. Fetching'
      BY <2>1, <3>1, <3>2 DEF Fetching
    <3>4. Resident'
      BY <3>1, <3>2 DEF Resident
    <3> QED BY <3>3, <3>4
  <2> QED BY <2>2, <2>3
<1>10. CASE FetchNext
  <2>1. /\ tb_state = "STREAM" /\ ~tb_fetch_busy /\ tb_fetch_busy'
        /\ tb_fetch_sec + 1 < SecOf(data_cnt) + TB_MAXSEC
        /\ tb_lba_r' = tb_lba_r + 1 /\ tb_fetch_sec' = tb_fetch_sec + 1
        /\ UNCHANGED <<phase, data_cnt, cmd, tb_state, tb_len, tb_sec_done, tb_buf, hps>>
    BY <1>10 DEF FetchNext, Issue, host
  <2>2. hps.st = "idle"
    BY <2>1 DEF LineInv, AckOwned
  <2>3. \A s : Response(s)' = Response(s)
    BY <2>1 DEF Response, AnswerLen
  <2>4. Serving' = Serving
    BY <2>1 DEF Serving
  <2>5. Fetching'
    BY <2>1, <2>2, <2>4 DEF Fetching
  <2>6. Resident'
    BY <2>1, <2>3, <2>4 DEF Resident
  <2> QED BY <2>5, <2>6
<1>11. CASE Retire
  BY <1>11, RingKept DEF Retire, host, lines, get, Serving
<1>12. CASE ClearLine \/ Rearm \/ Poll \/ Raise
  BY <1>12, RingKept DEF ClearLine, Rearm, Poll, Raise, host, lines, get, Serving,
     Types, HpsTypes
<1>13. CASE TakeBlock
  <2>1. tb_state \in {"COLLW", "REQ"}
    BY <1>13 DEF TakeBlock, LineInv, AckOwned
  <2> QED BY <1>13, <2>1, RingKept DEF TakeBlock, host, lines, get, Serving
<1>14. CASE GiveBlock
  BY <1>14, RingGive
<1>15. CASE Drop
  <2>1. UNCHANGED <<host, tb_buf>> /\ hps.st = "moved" /\ hps'.st = "idle"
    BY <1>15 DEF Drop, HpsIdle
  <2>2. CASE tb_state \in {"COLLW", "REQ"}
    <3>1. tb_state' \in {"COLL", "STAT"} /\ phase \in {"TB", "DATA_IN"}
      BY <1>15, <2>2 DEF Drop, AckFall, Shipped, Phases, Types, HostTypes
    <3> QED BY <2>1, <3>1, RingIdle DEF host, Serving
  <2>3. CASE tb_state = "STAT"
    <3>1. Look /\ phase = "TB"
      BY <1>15, <2>3 DEF Drop, AckFall, Phases, Types, HostTypes
    <3>2. tb_state' \in {"LATCH2", "STAT"} \/ (tb_state' = "RDY" /\ tb_len' = 0)
      BY <3>1 DEF Look
    <3> QED BY <2>1, <3>1, <3>2, RingIdle DEF host, Serving
  <2>4. CASE tb_state = "DATA" \/ (tb_state = "STREAM" /\ tb_fetch_busy)
    BY <1>15, <2>1, <2>4, RingCount DEF Drop, AckFall
  <2>5. CASE UNCHANGED <<tb_state, lines, get>>
    BY <2>1, <2>5, RingKept DEF host, lines, get, Serving
  <2> QED BY <1>15, <2>2, <2>3, <2>4, <2>5 DEF Drop, AckFall
<1>16. CASE ShipGiveUp
  BY <1>16, RingIdle DEF ShipGiveUp, Shipped, host, Phases, Serving
<1>17. CASE FetchGiveUp
  <2>1. CASE tb_state = "DATA"
    BY <1>17, <2>1, RingIdle DEF FetchGiveUp, host, Phases, Serving
  <2>2. CASE tb_state = "STREAM"
    <3>1. /\ tb_state' = "RDY" /\ UNCHANGED <<host, tb_len, tb_buf, tb_sec_done>>
      BY <1>17, <2>2 DEF FetchGiveUp
    <3>2. Serving' => Serving
      BY <2>2, <3>1 DEF Serving, host
    <3>3. \A s : Response(s)' = Response(s)
      BY <3>1 DEF Response, AnswerLen, host
    <3> QED BY <3>1, <3>2, <3>3 DEF Fetching, Resident, host
  <2> QED BY <1>17, <2>1, <2>2 DEF FetchGiveUp
<1>18. CASE StatTimeout
  <2>1. Look /\ phase = "TB" /\ UNCHANGED host
    BY <1>18 DEF StatTimeout, Phases, Types, HostTypes
  <2>2. tb_state' \in {"LATCH2", "STAT"} \/ (tb_state' = "RDY" /\ tb_len' = 0)
    BY <2>1 DEF Look
  <2> QED BY <2>1, <2>2, RingIdle DEF host, Serving
<1>19. CASE BusReset
  BY <1>19, RingIdle DEF BusReset, Serving
<1> QED BY <1>1, <1>2, <1>3, <1>4, <1>5, <1>6, <1>7, <1>8, <1>9, <1>10, <1>11, <1>12,
           <1>13, <1>14, <1>15, <1>16, <1>17, <1>18, <1>19
        DEF Next, Bus, Fsm, Hps, Watchdog

-----------------------------------------------------------------------------
(* The serve *)

LEMMA Products == TB_SEC_MAX * BLOCK \in Nat /\ TB_SEC_MAX * BLOCK >= 1
<1>1. TB_SEC_MAX \in Nat /\ TB_SEC_MAX >= 1 /\ BLOCK \in Nat /\ BLOCK >= 1
  BY Sizes
<1> QED BY <1>1

LEMMA DeliveredNext ==
  ASSUME Types, LineInv, Phases, Answered, Delivered, [Next]_vars
  PROVE  Delivered'
<1> DEFINE limit == TB_SEC_MAX * BLOCK
<1>0. limit \in Nat /\ limit >= 1 /\ tb_len \in Nat /\ data_cnt \in Nat
      /\ phase \in {"IDLE", "DATA_IN", "TB", "DATA_OUT", "STATUS_OUT"}
  BY Products DEF Types, GetTypes, HostTypes
<1>1. CASE UNCHANGED host /\ (phase = "DATA_OUT" => tb_len' = tb_len)
  BY <1>1 DEF host, Delivered, GetWhole, tb_srv_len
<1>2. CASE UNCHANGED vars
  BY <1>1, <1>2 DEF vars, get
<1>3. CASE Mac \/ PutUnit \/ EndPayload \/ EndCommand \/ ShipLast \/ BusReset
  <2>1. phase' \in {"IDLE", "DATA_IN", "TB"}
    <3>1. CASE Mac
      BY <3>1, MacSelects DEF Select
    <3> QED BY <1>3, <3>1 DEF PutUnit, tb_collect, EndPayload, EndCommand, ShipLast, BusReset
  <2> QED BY <2>1 DEF Delivered, GetWhole
<1>4. CASE Handoff
  <2>1. data_cnt = 0 /\ UNCHANGED <<data_cnt, cmd, tb_len>> /\ status' = tb_status
    BY <1>4 DEF Handoff, Phases, get
  <2>2. CASE tb_len # 0
    <3>1. phase' = "DATA_OUT"
      BY <1>4, <2>2 DEF Handoff
    <3>2. data_cnt' < tb_srv_len'
      BY <1>0, <2>1, <2>2 DEF tb_srv_len, Least
    <3> QED BY <3>1, <3>2 DEF Delivered, GetWhole
  <2>3. CASE tb_len = 0
    <3>1. phase' = "STATUS_OUT"
      BY <1>4, <2>3 DEF Handoff
    <3>2. tb_status = GOOD /\ cmd.op = "get" => cmd.n = 0
      BY <1>4, <2>3 DEF Handoff, Answered, AnswerLen
    <3>3. Least(0, limit) = 0
      BY <1>0 DEF Least
    <3> QED BY <2>1, <3>1, <3>2, <3>3 DEF Delivered, GetWhole
  <2> QED BY <2>2, <2>3
<1>5. CASE TakeUnit
  <2>1. /\ data_cnt < tb_srv_len /\ data_cnt' = data_cnt + 1 /\ UNCHANGED <<cmd, tb_len>>
        /\ phase' = IF data_cnt' = tb_srv_len THEN "STATUS_OUT" ELSE "DATA_OUT"
        /\ tb_len = AnswerLen /\ tb_srv_len' = tb_srv_len
    BY <1>5 DEF TakeUnit, get, Answered, tb_srv_len
  <2>2. tb_srv_len \in Nat
    BY <1>0 DEF tb_srv_len, Least
  <2>3. data_cnt' = tb_srv_len \/ data_cnt' < tb_srv_len
    BY <1>0, <2>1, <2>2
  <2>4. CASE data_cnt' = tb_srv_len
    BY <2>1, <2>4 DEF Delivered, GetWhole, AnswerLen, tb_srv_len
  <2>5. CASE data_cnt' # tb_srv_len
    BY <2>1, <2>3, <2>5 DEF Delivered, GetWhole
  <2> QED BY <2>4, <2>5
<1>6. CASE AbortServe
  BY <1>6 DEF AbortServe, Delivered, GetWhole, GOOD, CHECK
<1>7. CASE Arm \/ ShipNext \/ Load \/ Latch2 \/ FetchNext \/ Retire \/ ClearLine
           \/ Hps \/ Watchdog
  <2>1. phase = "DATA_OUT" => tb_len' = tb_len
    <3>1. CASE Arm \/ ShipNext \/ Load \/ Latch2 \/ FetchNext \/ Retire \/ ClearLine
      BY <3>1 DEF Arm, ShipNext, Load, Latch2, FetchNext, Retire, ClearLine, get
    <3>2. CASE Poll \/ Raise \/ TakeBlock \/ GiveBlock \/ Rearm \/ ShipGiveUp
      BY <3>2 DEF Poll, Raise, TakeBlock, GiveBlock, Rearm, ShipGiveUp, get
    <3>3. CASE StatTimeout \/ FetchGiveUp
      BY <3>3 DEF StatTimeout, FetchGiveUp, Phases
    <3>4. CASE Drop
      BY <3>4 DEF Drop, AckFall, Phases, get
    <3> QED BY <1>7, <3>1, <3>2, <3>3, <3>4 DEF Hps, Watchdog
  <2> QED BY <1>1, <1>7, <2>1, HostQuiet
<1> QED BY <1>2, <1>3, <1>4, <1>5, <1>6, <1>7 DEF Next, Bus, Fsm

\* A unit below the served length lies in a sector of the response.
LEMMA ServedSector ==
  ASSUME tb_len \in Nat, NEW x \in Nat, x < tb_srv_len
  PROVE  SecOf(x) < tb_nsec /\ tb_nsec \in Nat
<1> DEFINE q == SecOf(x)
           c == (tb_len + BLOCK - 1) \div BLOCK
<1>1. /\ BLOCK \in Nat /\ BLOCK >= 1 /\ TB_SEC_MAX \in Nat /\ TB_SEC_MAX * BLOCK \in Nat
      /\ TB_SEC_MAX >= 1
  BY Sizes, Products
<1>2. x < tb_len /\ x < TB_SEC_MAX * BLOCK /\ tb_len # 0
  BY <1>1 DEF tb_srv_len, Least
<1>3. /\ q \in Nat /\ q * BLOCK <= x
  <2> DEFINE r == x % BLOCK
  <2>1. r \in Unit /\ q \in Nat /\ x = q * BLOCK + r
    BY Place
  <2> HIDE DEF q, r
  <2>2. r \in Nat /\ q * BLOCK \in Nat
    BY <1>1, <2>1 DEF Unit
  <2>3. q * BLOCK <= x
    BY <2>1, <2>2
  <2> QED BY <2>1, <2>3
<1>4. /\ c \in Nat /\ tb_len <= c * BLOCK
  <2>1. /\ tb_len + BLOCK - 1 = BLOCK * c + ((tb_len + BLOCK - 1) % BLOCK)
        /\ c \in Nat /\ (tb_len + BLOCK - 1) % BLOCK \in 0 .. BLOCK - 1
    BY <1>1, DivMod
  <2> HIDE DEF c
  <2> QED BY <1>1, <2>1
<1> HIDE DEF q, c
<1>5. q < c
  <2>1. q * BLOCK < c * BLOCK
    BY <1>1, <1>2, <1>3, <1>4
  <2>2. CASE q >= c
    <3>1. q * BLOCK >= c * BLOCK
      BY <1>1, <1>3, <1>4, <2>2
    <3>2. q * BLOCK \in Nat /\ c * BLOCK \in Nat
      BY <1>1, <1>3, <1>4
    <3> QED BY <2>1, <3>1, <3>2
  <2> QED BY <1>3, <1>4, <2>2
<1>6. q < TB_SEC_MAX
  <2>1. q * BLOCK < TB_SEC_MAX * BLOCK
    BY <1>1, <1>2, <1>3
  <2>2. CASE q >= TB_SEC_MAX
    <3>1. q * BLOCK >= TB_SEC_MAX * BLOCK
      BY <1>1, <1>3, <2>2
    <3>2. q * BLOCK \in Nat
      BY <1>1, <1>3
    <3> QED BY <1>1, <2>1, <3>1, <3>2
  <2> QED BY <1>1, <1>3, <2>2
<1> QED BY <1>1, <1>2, <1>3, <1>4, <1>5, <1>6 DEF tb_nsec, Least, c, q

\* The look-ahead of a longword crosses at most one sector border.
LEMMA LookAhead ==
  ASSUME NEW a \in Nat, NEW j \in 0 .. AHEAD
  PROVE  /\ SecOf(a) <= SecOf(a + j) /\ SecOf(a + j) <= SecOf(a + AHEAD)
         /\ SecOf(a + AHEAD) <= SecOf(a) + 1
         /\ SecOf(a) \in Nat /\ SecOf(a + j) \in Nat /\ SecOf(a + AHEAD) \in Nat
<1>1. BLOCK \in Nat /\ BLOCK > 0 /\ AHEAD \in Nat /\ AHEAD < BLOCK
  BY Sizes
<1> QED BY <1>1 DEF SecOf

LEMMA FreshFromInv == ASSUME Types, GetInv PROVE ServedFresh
<1> SUFFICES ASSUME phase = "DATA_OUT", ~tb_get_stall, NEW j \in 0 .. AHEAD,
                    data_cnt + j < tb_srv_len
             PROVE  tb_buf[SecOf(data_cnt + j) % TB_MAXSEC][(data_cnt + j) % BLOCK]
                      = <<"resp", cmd.id, data_cnt + j>>
  BY DEF ServedFresh
<1> DEFINE x == data_cnt + j
<1>1. /\ data_cnt \in Nat /\ x \in Nat /\ tb_len \in Nat /\ tb_sec_done \in Nat
  BY Sizes DEF Types, HostTypes, GetTypes
<1>2. SecOf(x) < tb_nsec /\ tb_nsec \in Nat
  BY <1>1, ServedSector
<1>3. /\ SecOf(data_cnt) <= SecOf(x) /\ SecOf(x) <= SecOf(data_cnt + AHEAD)
      /\ SecOf(data_cnt + AHEAD) <= SecOf(data_cnt) + 1
      /\ SecOf(data_cnt) \in Nat /\ SecOf(x) \in Nat /\ SecOf(data_cnt + AHEAD) \in Nat
  BY <1>1, LookAhead
<1>4. /\ SecOf(data_cnt) < tb_sec_done
      /\ SecOf(data_cnt + AHEAD) < tb_nsec => SecOf(data_cnt + AHEAD) < tb_sec_done
  BY <1>1, <1>2, <1>3 DEF tb_get_stall
<1>5. SecOf(x) \in SecOf(data_cnt) .. tb_sec_done - 1
  BY <1>1, <1>2, <1>3, <1>4
<1>6. tb_buf[SecOf(x) % TB_MAXSEC] = Response(SecOf(x))
  BY <1>5 DEF GetInv, Resident, Serving
<1>7. x % BLOCK \in Unit /\ SecOf(x) * BLOCK + (x % BLOCK) = x
  BY <1>1, Place
<1>8. x < AnswerLen
  <2>1. tb_srv_len <= tb_len
    BY <1>1, Products DEF tb_srv_len, Least
  <2>2. tb_len = AnswerLen
    BY DEF GetInv, Answered
  <2>3. tb_srv_len \in Nat
    BY <1>1, Products DEF tb_srv_len, Least
  <2> QED BY <1>1, <2>1, <2>2, <2>3
<1> HIDE DEF x
<1>9. Response(SecOf(x))[x % BLOCK] = <<"resp", cmd.id, x>>
  BY <1>7, <1>8 DEF Response
<1> QED BY <1>6, <1>9 DEF x

LEMMA GetInit == ASSUME Init PROVE GetInv
  BY DEF Init, GetInv, Phases, Answered, Fetching, Resident, Serving, Delivered, GetWhole

\* The invariant of the response path.
LEMMA GetInvariant == ASSUME Prompt PROVE Spec => [](Types /\ LineInv /\ GetInv)
<1>1. Init => Types /\ LineInv /\ GetInv
  BY TypesInit, LineInit, GetInit
<1>2. Types /\ LineInv /\ GetInv /\ [Next]_vars => Types' /\ LineInv' /\ GetInv'
  BY TypesNext, LineNext, PhasesNext, AnsweredNext, RingNext, DeliveredNext DEF GetInv
<1> QED BY <1>1, <1>2, PTL DEF Spec

\* Whatever the lengths, the ring depth and the timing of the HPS, the Mac is
\* served the response to its own command, unit by unit, the units a longword
\* takes ahead included; a slot's previous occupant is never served.
THEOREM ResponseFresh == ASSUME Prompt PROVE Spec => []ServedFresh
<1>1. Types /\ LineInv /\ GetInv => ServedFresh
  BY FreshFromInv
<1> QED BY <1>1, GetInvariant, PTL

\* A GET that ends GOOD has delivered its whole response up to the limit of the
\* protocol: no watchdog, give-up or fault shortens it behind a good status.
THEOREM ResponseWhole == ASSUME Prompt PROVE Spec => []GetWhole
<1>1. Types /\ LineInv /\ GetInv => GetWhole
  BY DEF GetInv, Delivered
<1> QED BY <1>1, GetInvariant, PTL

-----------------------------------------------------------------------------
(* The payload ring *)

\* The unit after a unit: the next of its sector, or the first of the next.
LEMMA NextUnit ==
  ASSUME NEW a \in Nat
  PROVE  /\ a % BLOCK = BLOCK - 1 => SecOf(a + 1) = SecOf(a) + 1 /\ (a + 1) % BLOCK = 0
         /\ a % BLOCK # BLOCK - 1 => SecOf(a + 1) = SecOf(a) /\ (a + 1) % BLOCK = (a % BLOCK) + 1
<1>1. BLOCK \in Nat /\ BLOCK > 0
  BY Sizes
<1> QED BY <1>1 DEF SecOf

LEMMA ModNext ==
  ASSUME NEW a \in Nat, NEW r \in Nat, r > 0
  PROVE  (a + 1) % r = IF a % r = r - 1 THEN 0 ELSE (a % r) + 1
<1> DEFINE p == a \div r
           q == (a + 1) \div r
           m == a % r
           n == (a + 1) % r
<1>1. /\ a = r * p + m /\ p \in Nat /\ m \in 0 .. r - 1
      /\ a + 1 = r * q + n /\ q \in Nat /\ n \in 0 .. r - 1
  BY DivMod
<1> HIDE DEF p, q, m, n
<1>2. r * (q - p) = m + 1 - n
  <2>1. r * q - r * p = m + 1 - n
    BY <1>1
  <2>2. r * (q - p) = r * q - r * p
    BY <1>1
  <2> QED BY <2>1, <2>2
<1>3. CASE q - p <= -1
  <2>1. r * (q - p) <= -r
    BY <1>1, <1>3
  <2> QED BY <1>1, <1>2, <2>1
<1>4. CASE q - p >= 2
  <2>1. r * (q - p) >= 2 * r
    BY <1>1, <1>4
  <2> QED BY <1>1, <1>2, <2>1
<1>5. CASE q - p = 0
  BY <1>1, <1>2, <1>5 DEF m, n
<1>6. CASE q - p = 1
  BY <1>1, <1>2, <1>6 DEF m, n
<1> QED BY <1>1, <1>3, <1>4, <1>5, <1>6

\* NextSlot walks the slots of successive sectors.
LEMMA RingSlotNext ==
  ASSUME NEW k \in Nat
  PROVE  RingSlot(k) \in Slot /\ NextSlot(RingSlot(k)) = RingSlot(k + 1)
<1> DEFINE r == TB_MAXSEC - 1
<1>1. TB_MAXSEC \in Nat /\ r \in Nat /\ r >= 2
  BY Sizes
<1>2. CASE k = 0
  BY <1>1, <1>2 DEF RingSlot, NextSlot, Slot
<1>3. CASE k # 0
  <2>1. k - 1 \in Nat /\ (k - 1) + 1 = k /\ (k + 1) - 1 = k /\ k + 1 # 0
    BY <1>3
  <2>2. /\ k % r = IF (k - 1) % r = r - 1 THEN 0 ELSE ((k - 1) % r) + 1
        /\ (k - 1) % r \in 0 .. r - 1
    BY <1>1, <2>1, ModNext, DivMod
  <2>3. RingSlot(k) = 1 + ((k - 1) % r) /\ RingSlot(k + 1) = 1 + (k % r)
    BY <1>3, <2>1 DEF RingSlot
  <2> QED BY <1>1, <2>2, <2>3 DEF NextSlot, Slot
<1> QED BY <1>2, <1>3

\* Sectors of the payload less than a ring apart have slots of their own, and
\* slot 0 is the request block's alone.
LEMMA RingSlotDistinct ==
  ASSUME NEW k \in Nat, NEW l \in Nat, k < l, l < k + (TB_MAXSEC - 1)
  PROVE  RingSlot(k) # RingSlot(l)
<1> DEFINE r == TB_MAXSEC - 1
<1>1. r \in Nat /\ r > 0 /\ l # 0 /\ l - 1 \in Nat /\ (l - 1) % r \in 0 .. r - 1
  BY Sizes
<1>2. CASE k = 0
  BY <1>1, <1>2 DEF RingSlot
<1>3. CASE k # 0
  <2>1. k - 1 \in Nat /\ k - 1 < l - 1 /\ l - 1 < (k - 1) + r
    BY <1>1, <1>3
  <2>2. (k - 1) % r # (l - 1) % r
    BY <1>1, <2>1, ModDistinct
  <2>3. (k - 1) % r \in 0 .. r - 1
    BY <1>1, <2>1
  <2> QED BY <1>1, <1>3, <2>2, <2>3 DEF RingSlot
<1> QED BY <1>2, <1>3

\* Steps outside a collect.
LEMMA NotCollecting == ASSUME ~Collecting' PROVE CollectInv'
  BY DEF Collecting, CollectInv, CollectAt, Partial, UnshippedKept

\* Steps that leave the ring and the count alone.
LEMMA CollectKept ==
  ASSUME CollectInv, Collecting' => Collecting,
         UNCHANGED <<data_cnt, cmd, tb_buf, send>>
  PROVE  CollectInv'
<1>1. CASE ~Collecting'
  BY <1>1, NotCollecting
<1>2. CASE Collecting'
  <2>1. Collecting
    BY <1>2
  <2>2. CollectAt' /\ Partial'
    BY <2>1 DEF CollectInv, CollectAt, Partial, send, tb_col_lin
  <2>3. UnshippedKept'
    BY <2>1 DEF CollectInv, UnshippedKept, Collecting, Holds, send
  <2> QED BY <2>2, <2>3 DEF CollectInv
<1> QED BY <1>1, <1>2

\* A sector is shipped or given up: the next one is the oldest.
LEMMA CollectShipped ==
  ASSUME Types, CollectInv, tb_state = "COLLW", NEW f \in BOOLEAN, Shipped(f),
         UNCHANGED <<phase, data_cnt, cmd, tb_buf, tb_col_slot, tb_col_lba>>
  PROVE  CollectInv'
<1>1. CASE ~Collecting'
  BY <1>1, NotCollecting
<1>2. CASE Collecting'
  <2>1. Collecting /\ tb_ship_done \in Nat /\ tb_ship_done' = tb_ship_done + 1
        /\ tb_col_lba \in Nat
    BY <1>2 DEF Collecting, Shipped, Types, SendTypes
  <2>2. tb_ship_slot' = RingSlot(tb_ship_done' + 1)
    <3>1. tb_ship_done + 1 \in Nat
      BY <2>1
    <3> QED BY <2>1, <3>1, RingSlotNext DEF Shipped, CollectInv, CollectAt
  <2>3. CollectAt'
    <3>1. tb_col_lba' = SecOf(tb_col_lin)' /\ tb_col_slot' = RingSlot(tb_col_lba)'
      BY <2>1 DEF CollectInv, CollectAt, tb_col_lin
    <3> QED BY <2>2, <3>1 DEF CollectAt
  <2>4. Partial'
    BY <2>1 DEF CollectInv, Partial, tb_col_lin
  <2>5. \A k \in tb_ship_done' + 1 .. tb_col_lba - 1 : k \in tb_ship_done + 1 .. tb_col_lba - 1
    BY <2>1
  <2>6. UnshippedKept'
    BY <2>1, <2>5 DEF CollectInv, UnshippedKept, Collecting, Holds
  <2> QED BY <2>3, <2>4, <2>6 DEF CollectInv
<1> QED BY <1>1, <1>2

\* The collect is armed.
LEMMA CollectArm == ASSUME Types, Phases, Arm PROVE CollectInv'
<1>1. CASE ~Collecting'
  BY <1>1, NotCollecting
<1>2. CASE Collecting'
  <2>1. /\ phase = "DATA_IN" /\ data_cnt = 0 /\ data_cnt' = 0 /\ tb_col_slot' = 0
        /\ tb_col_lba' = 0 /\ tb_ship_done' = 0 /\ tb_ship_slot' = 1
    BY <1>2 DEF Collecting, Arm, host, Phases
  <2>2. /\ HEAD \in Nat /\ HEAD \div BLOCK = 0 /\ HEAD % BLOCK = HEAD
        /\ BLOCK \in Nat /\ RingSlot(0) = 0 /\ RingSlot(1) = 1
    <3>1. /\ HEAD \in Nat /\ HEAD < BLOCK /\ BLOCK \in Nat /\ BLOCK > 0
          /\ TB_MAXSEC - 1 \in Nat /\ TB_MAXSEC - 1 > 0
      BY Sizes
    <3>2. 0 % (TB_MAXSEC - 1) = 0
      BY <3>1
    <3> QED BY <3>1, <3>2 DEF RingSlot
  <2>3. 0 + HEAD = HEAD
    BY <2>2
  <2>4. CollectAt'
    BY <2>1, <2>2, <2>3 DEF CollectAt, SecOf, tb_col_lin
  <2>5. Partial'
    BY <2>1, <2>2, <2>3 DEF Partial, tb_col_lin, Unit
  <2>6. UnshippedKept'
    BY <2>1 DEF UnshippedKept
  <2> QED BY <2>4, <2>5, <2>6 DEF CollectInv
<1> QED BY <1>1, <1>2

\* A unit of the payload is stored.
LEMMA CollectPut == ASSUME Types, CollectInv, PutUnit PROVE CollectInv'
<1> DEFINE lin == data_cnt + HEAD
           u0  == lin % BLOCK
           sec == tb_col_lba
<1>1. /\ Collecting /\ ~tb_col_stall /\ data_cnt' = data_cnt + 1
      /\ UNCHANGED <<phase, cmd, tb_state, tb_ship_done, tb_ship_slot>>
      /\ tb_buf' = [tb_buf EXCEPT ![tb_col_slot][u0] = <<"pay", cmd.id, data_cnt>>]
      /\ u0 = BLOCK - 1 => tb_col_slot' = NextSlot(tb_col_slot) /\ tb_col_lba' = sec + 1
      /\ u0 # BLOCK - 1 => tb_col_slot' = tb_col_slot /\ tb_col_lba' = sec
  BY DEF PutUnit, tb_collect, Collecting, tb_col_lin
<1>2. /\ data_cnt \in Nat /\ HEAD \in Nat /\ BLOCK \in Nat /\ BLOCK >= 3
      /\ sec \in Nat /\ tb_ship_done \in Nat /\ tb_col_slot \in Slot /\ lin \in Nat
      /\ TB_MAXSEC \in Nat /\ TB_MAXSEC >= 3
  BY Sizes DEF Types, HostTypes, SendTypes
<1>3. sec = SecOf(lin) /\ tb_col_slot = RingSlot(sec) /\ tb_ship_slot = RingSlot(tb_ship_done + 1)
  BY <1>1 DEF CollectInv, CollectAt, tb_col_lin
<1>4. u0 \in Unit /\ lin = sec * BLOCK + u0 /\ lin' = lin + 1
  BY <1>1, <1>2, <1>3, Place
<1>5. data_cnt = sec * BLOCK + u0 - HEAD
  <2> HIDE DEF u0
  <2>1. sec * BLOCK \in Nat /\ u0 \in Nat
    BY <1>2, <1>4 DEF Unit
  <2> QED BY <1>2, <1>4, <2>1
<1>6. /\ tb_buf'[tb_col_slot][u0] = <<"pay", cmd.id, sec * BLOCK + u0 - HEAD>>
      /\ \A u \in Unit : u # u0 => tb_buf'[tb_col_slot][u] = tb_buf[tb_col_slot][u]
      /\ \A x \in Slot : x # tb_col_slot => tb_buf'[x] = tb_buf[x]
  <2>1. tb_buf \in [Slot -> Sector]
    BY DEF Types, HpsTypes
  <2> HIDE DEF u0
  <2> QED BY <1>1, <1>2, <1>4, <1>5, <2>1 DEF Sector
<1>7. /\ u0 = BLOCK - 1 => SecOf(lin + 1) = sec + 1 /\ (lin + 1) % BLOCK = 0
      /\ u0 # BLOCK - 1 => SecOf(lin + 1) = sec /\ (lin + 1) % BLOCK = u0 + 1
  BY <1>2, <1>3, NextUnit
<1>8. tb_col_lin' = lin + 1
  BY <1>1, <1>2 DEF tb_col_lin
<1>9. CollectAt'
  <2>1. CASE u0 = BLOCK - 1
    BY <1>1, <1>2, <1>3, <1>7, <1>8, <2>1, RingSlotNext DEF CollectAt
  <2>2. CASE u0 # BLOCK - 1
    BY <1>1, <1>3, <1>7, <1>8, <2>2 DEF CollectAt
  <2> QED BY <2>1, <2>2
<1>10. \A u \in Unit : u < u0 + 1 /\ (sec = 0 => u >= HEAD) =>
         tb_buf'[tb_col_slot][u] = <<"pay", cmd.id, sec * BLOCK + u - HEAD>>
  <2> SUFFICES ASSUME NEW u \in Unit, u < u0 + 1, sec = 0 => u >= HEAD
               PROVE  tb_buf'[tb_col_slot][u] = <<"pay", cmd.id, sec * BLOCK + u - HEAD>>
    OBVIOUS
  <2>1. CASE u = u0
    BY <1>6, <2>1
  <2>2. CASE u # u0
    <3>1. u < u0
      BY <1>2, <1>4, <2>2 DEF Unit
    <3> QED BY <1>1, <1>6, <2>2, <3>1 DEF CollectInv, Partial, tb_col_lin
  <2> QED BY <2>1, <2>2
<1> HIDE DEF u0, lin
<1>11. Partial'
  <2>1. CASE u0 = BLOCK - 1
    <3>1. \A u \in Unit : ~(u < 0)
      BY <1>2 DEF Unit
    <3> QED BY <1>7, <1>8, <2>1, <3>1 DEF Partial
  <2>2. CASE u0 # BLOCK - 1
    BY <1>1, <1>7, <1>8, <1>10, <2>2 DEF Partial
  <2> QED BY <2>1, <2>2
<1>12. sec - tb_ship_done < TB_MAXSEC - 1
  BY <1>1, <1>2 DEF tb_col_stall, tb_collect, Collecting
<1>13. ASSUME NEW k \in tb_ship_done + 1 .. sec - 1
       PROVE  Holds(tb_buf'[RingSlot(k)], k)
  <2>1. k \in Nat /\ k < sec /\ sec < k + (TB_MAXSEC - 1) /\ k # 0
    BY <1>2, <1>12, <1>13
  <2>2. RingSlot(k) # tb_col_slot /\ RingSlot(k) \in Slot
    BY <1>2, <1>3, <2>1, RingSlotDistinct, RingSlotNext
  <2>3. tb_buf'[RingSlot(k)] = tb_buf[RingSlot(k)]
    BY <1>6, <2>2
  <2>4. Holds(tb_buf[RingSlot(k)], k)
    BY <1>1, <1>13, <2>1 DEF CollectInv, UnshippedKept, Collecting, RingSlot
  <2> QED BY <2>3, <2>4
<1>14. ASSUME u0 = BLOCK - 1, sec # 0
       PROVE  Holds(tb_buf'[RingSlot(sec)], sec)
  <2>1. \A u \in Unit : u < u0 + 1
    BY <1>2, <1>14 DEF Unit
  <2> QED BY <1>3, <1>10, <1>14, <2>1 DEF Holds
<1>15. ASSUME NEW k \in tb_ship_done' + 1 .. tb_col_lba' - 1
       PROVE  Holds(tb_buf'[1 + ((k - 1) % (TB_MAXSEC - 1))], k)
  <2>1. k # 0 /\ tb_ship_done' = tb_ship_done
    BY <1>1, <1>2, <1>15
  <2>2. RingSlot(k) = 1 + ((k - 1) % (TB_MAXSEC - 1))
    BY <2>1 DEF RingSlot
  <2>3. k \in tb_ship_done + 1 .. sec - 1 \/ (k = sec /\ u0 = BLOCK - 1)
    BY <1>1, <1>2, <1>15, <2>1
  <2> QED BY <1>13, <1>14, <2>1, <2>2, <2>3
<1>16. UnshippedKept'
  BY <1>1, <1>15 DEF UnshippedKept, Holds
<1> QED BY <1>9, <1>11, <1>16 DEF CollectInv

LEMMA CollectNext ==
  ASSUME Types, LineInv, Phases, CollectInv, [Next]_vars
  PROVE  CollectInv'
<1> USE DEF Collecting
<1>1. CASE UNCHANGED vars
  BY <1>1, CollectKept DEF vars, host
<1>2. CASE Mac
  BY <1>2, MacSelects, NotCollecting DEF Idle, Select
<1>3. CASE PutUnit
  BY <1>3, CollectPut
<1>4. CASE EndPayload \/ Handoff \/ AbortServe \/ EndCommand \/ BusReset
  BY <1>4, NotCollecting DEF EndPayload, Handoff, AbortServe, EndCommand, BusReset
<1>5. CASE TakeUnit
  <2>1. phase' # "DATA_IN"
    BY <1>5 DEF TakeUnit
  <2> QED BY <2>1, NotCollecting
<1>6. CASE Arm
  BY <1>6, CollectArm
<1>7. CASE ShipNext
  BY <1>7, CollectKept DEF ShipNext, host
<1>8. CASE ShipLast
  BY <1>8, NotCollecting DEF ShipLast
<1>9. CASE Load \/ Latch2 \/ FetchNext \/ Retire
  <2>1. tb_state' \in {"REQ", "DATA", "RDY", "STREAM", "IDLE"}
    BY <1>9 DEF Load, Latch2, FetchNext, Retire
  <2> QED BY <2>1, NotCollecting
<1>10. CASE ClearLine \/ Rearm \/ Poll \/ Raise \/ TakeBlock
  BY <1>10, CollectKept DEF ClearLine, Rearm, Poll, Raise, TakeBlock, host
<1>11. CASE GiveBlock
  <2>1. tb_state \in {"STAT", "DATA", "STREAM"} /\ tb_state' = tb_state
    BY <1>11 DEF GiveBlock, LineInv, AckOwned, StatusRead
  <2> QED BY <2>1, NotCollecting
<1>12. CASE Drop
  <2>1. UNCHANGED <<phase, data_cnt, cmd, tb_buf>>
    BY <1>12 DEF Drop, host
  <2>2. CASE tb_state = "COLLW"
    BY <1>12, <2>1, <2>2, CollectShipped DEF Drop, AckFall
  <2>3. CASE tb_state # "COLLW"
    <3>1. UNCHANGED send /\ tb_state' \in {"STAT", "LATCH2", "RDY", "STREAM", tb_state}
      BY <1>12, <2>3 DEF Drop, AckFall, Look, SectorIn
    <3> QED BY <2>1, <3>1, CollectKept
  <2> QED BY <2>2, <2>3
<1>13. CASE ShipGiveUp
  BY <1>13, CollectShipped DEF ShipGiveUp, host
<1>14. CASE FetchGiveUp \/ StatTimeout
  <2>1. tb_state' \in {"RDY", "LATCH2", "STAT"}
    BY <1>14 DEF FetchGiveUp, StatTimeout, Look
  <2> QED BY <2>1, NotCollecting
<1> QED BY <1>1, <1>2, <1>3, <1>4, <1>5, <1>6, <1>7, <1>8, <1>9, <1>10, <1>11, <1>12,
           <1>13, <1>14
        DEF Next, Bus, Fsm, Hps, Watchdog

LEMMA CollectInit == ASSUME Init PROVE CollectInv
  BY DEF Init, CollectInv, CollectAt, Partial, UnshippedKept, Collecting

\* The collect of a SEND never laps the sectors it has still to ship, for every
\* ring depth, sector size and chunk length and however slowly the HPS polls:
\* a finished sector stays whole in the slot it will be shipped from.
THEOREM PayloadKept == ASSUME Prompt PROVE Spec => []UnshippedKept
<1>1. Init => CollectInv
  BY CollectInit
<1>2. Types /\ LineInv /\ GetInv /\ CollectInv /\ [Next]_vars => CollectInv'
  BY CollectNext DEF GetInv
<1>3. CollectInv => UnshippedKept
  BY DEF CollectInv
<1> QED BY <1>1, <1>2, <1>3, GetInvariant, PTL DEF Spec
=============================================================================

----------------------------- MODULE ReadStream -----------------------------
(***************************************************************************)
(* What a SCSI READ promises the host: the bytes of sectors lba, lba+1,    *)
(* ..., lba+len-1 in order, each taken once, then the end of the transfer; *)
(* or an abort.  A position is a sector index and an offset in it.         *)
(***************************************************************************)
EXTENDS Integers

CONSTANTS BLOCK, LBAs, TLens

VARIABLES state, lba, len, blk, off, out

vars == <<state, lba, len, blk, off, out>>

Carry(n)  == off + n >= BLOCK
BlkAt(n)  == IF Carry(n) THEN blk + 1 ELSE blk
OffAt(n)  == IF Carry(n) THEN off + n - BLOCK ELSE off + n

Init == /\ state = "idle" /\ lba \in LBAs /\ len = 0
        /\ blk = 0 /\ off = 0 /\ out = {}

Begin(l, t) == /\ state = "idle" /\ state' = "xfer"
               /\ lba' = l /\ len' = t
               /\ UNCHANGED <<blk, off, out>>

\* n bytes at once: exactly the sectors those bytes are in.
Deliver(n) == /\ state = "xfer"
              /\ BlkAt(n) < len \/ (BlkAt(n) = len /\ OffAt(n) = 0)
              /\ out' = {lba + b : b \in blk .. BlkAt(n - 1)}
              /\ blk' = BlkAt(n) /\ off' = OffAt(n)
              /\ UNCHANGED <<state, lba, len>>

\* Only a complete transfer ends.
Finish == /\ state = "xfer" /\ blk = len /\ off = 0
          /\ state' = "done" /\ blk' = 0 /\ off' = 0
          /\ UNCHANGED <<lba, len, out>>

Close == /\ state # "idle" /\ state' = "idle"
         /\ blk' = 0 /\ off' = 0
         /\ UNCHANGED <<lba, len, out>>

Next == \/ \E l \in LBAs, t \in TLens : Begin(l, t)
        \/ \E n \in {1, 2, 4} : Deliver(n)
        \/ Finish \/ Close

Spec == Init /\ [][Next]_vars
=============================================================================

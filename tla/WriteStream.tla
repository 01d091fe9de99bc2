---------------------------- MODULE WriteStream ----------------------------
(***************************************************************************)
(* What a SCSI WRITE promises the host: the sectors it sends reach the     *)
(* image whole, in order, each at its own place, and the command is done   *)
(* only when all of them have; or it is aborted, and promises nothing.  A  *)
(* position is a sector index and an offset in it.                         *)
(***************************************************************************)
EXTENDS Integers

CONSTANTS BLOCK, TLens

VARIABLES state, len, blk, off,
          image     \* the sectors whose bytes stand at each place

vars == <<state, len, blk, off, image>>

Blank(t) == [b \in 0 .. t - 1 |-> {}]

Init == state = "idle" /\ len = 0 /\ blk = 0 /\ off = 0 /\ image = Blank(0)

Begin(t) == /\ state = "idle" /\ state' = "xfer"
            /\ len' = t /\ image' = Blank(t)
            /\ UNCHANGED <<blk, off>>

\* The host sends a byte.
Accept == /\ blk < len
          /\ blk' = IF off + 1 = BLOCK THEN blk + 1 ELSE blk
          /\ off' = IF off + 1 = BLOCK THEN 0 ELSE off + 1

\* The next complete sector reaches the image.
Persist == \E b \in 0 .. blk - 1 :
             /\ \A c \in 0 .. b - 1 : image[c] = {c}
             /\ image[b] = {}
             /\ image' = [image EXCEPT ![b] = {b}]

Transfer == /\ state = "xfer"
            /\ Accept \/ UNCHANGED <<blk, off>>
            /\ Persist \/ UNCHANGED image
            /\ UNCHANGED <<state, len>>

\* Only a persisted transfer ends.
Finish == /\ state = "xfer" /\ \A b \in 0 .. len - 1 : image[b] = {b}
          /\ state' = "done" /\ blk' = 0 /\ off' = 0
          /\ UNCHANGED <<len, image>>

Close == /\ state # "idle" /\ state' = "idle"
         /\ blk' = 0 /\ off' = 0 /\ image' = Blank(0)
         /\ UNCHANGED len

Next == (\E t \in TLens : Begin(t)) \/ Transfer \/ Finish \/ Close

Spec == Init /\ [][Next]_vars
=============================================================================

------------------------------ MODULE MCDpram ------------------------------
(* One lane of the sector buffer with a few words; see README.md.           *)
EXTENDS ScsiDpram
=============================================================================

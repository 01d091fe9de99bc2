------------------------------ MODULE MCWrite ------------------------------
(* The WRITE path on small sectors; see README.md for the bounds.            *)
EXTENDS ScsiWriteFlush
=============================================================================

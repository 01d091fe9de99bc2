----------------------------- MODULE MCReadRing -----------------------------
(* ScsiReadRing on small instances: the .cfg files give the bounds.         *)
EXTENDS ScsiReadRing
=============================================================================

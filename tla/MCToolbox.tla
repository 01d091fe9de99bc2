----------------------------- MODULE MCToolbox -----------------------------
(* ScsiToolbox with the constants of the toolbox configurations. *)
EXTENDS ScsiToolbox
=============================================================================

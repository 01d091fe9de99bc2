----------------------------- MODULE MCSimDisk ------------------------------
(* SimBlockDevice on small instances: the .cfg files give the bounds.       *)
EXTENDS SimBlockDevice
=============================================================================

------------------------------- MODULE MCPram -------------------------------
(* PRAM persistence on a two-byte PRAM; see README.md for the bounds.        *)
EXTENDS PramStore
=============================================================================

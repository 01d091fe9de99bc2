----------------------------- MODULE HpsChannel -----------------------------
(***************************************************************************)
(* What a block-device server promises the core on its request channels    *)
(* (sd_rd/sd_wr, sd_lba, sd_ack): it takes one request at a time, raises   *)
(* that channel's ack, moves the whole sector at the address it took, and  *)
(* only then drops the ack.                                                *)
(***************************************************************************)
EXTENDS Integers

CONSTANTS Channels, LBAs, None

VARIABLES
  st,     \* [Channels -> {"idle", "busy", "ack"}]
  addr,   \* the address the server took last on each channel
  moved   \* the sector each channel's last answer moved whole, or None

vars == <<st, addr, moved>>

Init == /\ st = [c \in Channels |-> "idle"]
        /\ addr \in [Channels -> LBAs]
        /\ moved = [c \in Channels |-> None]

\* No change of state; the words of a sector move while the ack is up.
Rest(c) == /\ st'[c] = st[c] /\ addr'[c] = addr[c]
           /\ moved'[c] = moved[c] \/ st[c] = "ack"

Take(c) == /\ st[c] = "idle" /\ st'[c] = "busy"
           /\ addr'[c] \in LBAs /\ moved'[c] = None

Rise(c) == /\ st[c] = "busy" /\ st'[c] = "ack"
           /\ addr'[c] = addr[c] /\ moved'[c] = None

Fall(c) == /\ st[c] = "ack" /\ st'[c] = "idle"
           /\ addr'[c] = addr[c] /\ moved'[c] = addr[c]

\* Channels move on the same clock, but only one is served at a time.
Next ==
  /\ \A c \in Channels : Rest(c) \/ Take(c) \/ Rise(c) \/ Fall(c)
  /\ \A c, e \in Channels : st'[c] # "idle" /\ st'[e] # "idle" => c = e

Spec == Init /\ [][Next]_vars
=============================================================================

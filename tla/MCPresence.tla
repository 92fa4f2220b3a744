----------------------------- MODULE MCPresence -----------------------------
(* Presence on small instances. *)
EXTENDS Presence, TLC

CONSTANTS w1, w2, g1, g2, g3, caller

=============================================================================

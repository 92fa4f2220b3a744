-------------------------- MODULE MCSessionService --------------------------
(* SessionService on small instances. *)
EXTENDS SessionProperties, TLC

CONSTANTS s1, s2, s3, c1, c2, c3, c4, o1, o2, a1, a2

=============================================================================

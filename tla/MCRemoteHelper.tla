--------------------------- MODULE MCRemoteHelper ---------------------------
(* RemoteHelper on small instances. *)
EXTENDS RemoteHelper

CONSTANTS s1, c1, c2

=============================================================================

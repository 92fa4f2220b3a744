--------------------------- MODULE MCSshConnection ---------------------------
(* SshConnection on small instances. *)
EXTENDS SshConnection, TLC

CONSTANTS s1, s2, jump, target, k1, k2, r1, r2

\* Two sessions through one jump host, of which one goes on to a target.
OneJump == (s1 :> <<jump, target>>) @@ (s2 :> <<jump>>)

\* The jump host may change its key.
OneRekeyed == (jump :> <<k1, k2>>) @@ (target :> <<k1>>)

Symmetric == Permutations(Request)

=============================================================================

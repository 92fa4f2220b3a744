---------------------------- MODULE MCGatewayFiles ----------------------------
(* GatewayFiles on small instances. *)
EXTENDS GatewayFiles, TLC

CONSTANTS p1, p2, r1, r2, k1, k2, e1, e2, x, y, a, b, c

Jumps(ofX, ofY, ofA, ofB) ==
  (x :> ofX) @@ (y :> ofY) @@ (a :> ofA) @@ (b :> ofB) @@ (c :> <<>>)

\* Aliases x and y: a jump with a jump of its own, and a jump named twice; two
\* jumps, and none; a way back to the alias, and three jumps.
Texts == {
  Jumps(<<a>>, <<b, b>>, <<b>>, <<>>),
  Jumps(<<a, b>>, <<>>, <<>>, <<>>),
  Jumps(<<b, a>>, <<a, c>>, <<b>>, <<x>>)}

Symmetric ==
  Permutations(Process) \cup Permutations(Request) \cup Permutations(Key)
    \cup Permutations(Editor)

=============================================================================

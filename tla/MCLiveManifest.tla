--------------------------- MODULE MCLiveManifest ---------------------------
(* A small instance of LiveManifest for TLC. *)
EXTENDS LiveManifest, TLC

CONSTANTS w1, w2, t1, t2, i1, i2

\* the segments of the two instances differ in size
Sizes == (i1 :> <<2, 4, 6>>) @@ (i2 :> <<3>>)

Symmetric == Permutations({w1, w2}) \cup Permutations({t1, t2})

=============================================================================

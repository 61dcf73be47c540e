------------------------------ MODULE MCUVUdp ------------------------------
(* UVUdp on small instances.                                                *)
EXTENDS UVUdp, TLC

CONSTANTS u1, u2

OneSocket == {u1}
TwoSockets == {u1, u2}
BothClosures == {"plain", "self"}
PlainClosures == {"plain"}
Symmetry == Permutations({u1, u2})

=============================================================================

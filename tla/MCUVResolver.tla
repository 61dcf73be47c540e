---------------------------- MODULE MCUVResolver ----------------------------
(* UVResolver on a small instance.                                          *)
EXTENDS UVResolver, TLC

CONSTANTS l1, r1, r2, q1, q2

OneLoop == {l1}
TwoResolvers == {r1, r2}
TwoRequests == {q1, q2}
BothClosures == {"plain", "self"}
Symmetry == Permutations({r1, r2}) \cup Permutations({q1, q2})

=============================================================================

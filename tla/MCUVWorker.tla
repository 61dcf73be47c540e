----------------------------- MODULE MCUVWorker -----------------------------
(* UVWorker on small instances.                                             *)
EXTENDS UVWorker, TLC

CONSTANTS w1, w2, c1, c2

TwoWorkers == {w1, w2}
TwoConnections == {c1, c2}
BothClosures == {"plain", "self"}

=============================================================================

---------------------------- MODULE MCUVWatchers ----------------------------
(* UVWatchers on small instances: one object of each class.                 *)
EXTENDS UVWatchers, TLC

CONSTANTS t1, i1, s1

OneTimer == {t1}
OneIdler == {i1}
OneSignal == {s1}
BothClosures == {"plain", "self"}

\* At most two classes are used in one behaviour: a callback reaches the rest of
\* the system one object at a time.
TwoClasses ==
    \/ timer[t1].obj = "none" \/ idle[i1].obj = "none" \/ signal[s1].obj = "none"

=============================================================================

------------------------------ MODULE MCUVSSL ------------------------------
(* UVSSL on small instances.                                                *)
EXTENDS UVSSL, TLC

CONSTANTS s1, s2

TwoHandles == {s1, s2}
SelfClosures == {"self"}

\* s1 is a server that only listens; s2 is what it accepts, or a client of
\* another server when there is no s1.  What UVTcp's own runs examine is left out:
\* shutdown, cached names, calls of setCallback and listen that fail.
ServerOrClient ==
    /\ ssl[s1].slot.read = "null" /\ ssl[s1].slot.connect # "borrowed"
    /\ ssl[s1].uv \in {"none", "init", "listening", "closing", "closed"}
    /\ tls[s1].shake = "null" /\ tls[s1].lookups = 0 /\ ~tls[s1].failed
    /\ "WRITE_CALLBACK_ENABLE" \notin ssl[s1].flag
    /\ ssl[s2].slot.read = ssl[s2].slot.error /\ ssl[s2].slot.connect # "borrowed"
    /\ ssl[s2].uv # "listening" /\ ~tls[s2].sni
    /\ ssl[s1].obj = "none" \/ ssl[s2].obj # "live" \/ tls[s2].server = s1
    /\ tls[s2].server = s1 => tls[s2].lookups = 0 /\ ~tls[s2].failed
    /\ \A h \in Handles :
          ssl[h].shut = "no" /\ ssl[h].slot.shutdown = "null" /\ ssl[h].names = {}

=============================================================================

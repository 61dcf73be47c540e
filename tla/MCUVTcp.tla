------------------------------ MODULE MCUVTcp ------------------------------
(* UVTcp on small instances.                                                *)
EXTENDS UVTcp, TLC

CONSTANTS t1, t2

OneHandle == {t1}
TwoHandles == {t1, t2}
BothClosures == {"plain", "self"}
PlainClosures == {"plain"}

\* One handle is a server that only listens, the other is a client that only
\* accept() may give birth to.
ServerAndClient ==
    /\ tcp[t1].slot = [NoSlots EXCEPT !.connect = tcp[t1].slot.connect]
    /\ tcp[t1].uv \notin {"connecting", "connected", "broken"}
    /\ tcp[t1].writes = 0 /\ tcp[t1].shut = "no"
    /\ "WRITE_CALLBACK_ENABLE" \notin tcp[t1].flag
    /\ ~(tcp[t2].obj = "live" /\ tcp[t2].uv = "init")
    /\ tcp[t2].slot.connect = "null"

=============================================================================

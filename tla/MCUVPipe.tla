------------------------------ MODULE MCUVPipe ------------------------------
(* UVPipe on small instances.                                               *)
EXTENDS UVPipe, TLC

CONSTANTS p1, p2

TwoHandles == {p1, p2}
BothClosures == {"plain", "self"}

\* One handle that does everything but write; the error callback, where there is
\* one, is the same as the read callback.
Alone ==
    /\ pipe[p2].obj = "none"
    /\ pipe[p1].writes = 0
    /\ pipe[p1].slot.write \in {"null", "borrowed", pipe[p1].slot.read}
    /\ pipe[p1].slot.error \in {"null", pipe[p1].slot.read}

\* One handle is attached to the parent process, the other is a client that
\* only accept() may give birth to, and that is not shut down; the callbacks
\* capture nothing.
WorkerAndClient ==
    /\ \A h \in Handles : Stream!Captures(pipe[h].slot) = 0
    /\ pipe[p1].slot = [Stream!NoSlots EXCEPT !.connect = pipe[p1].slot.connect]
    /\ pipe[p1].writes = 0 /\ pipe[p1].shut = "no" /\ ~pipe[p1].conn
    /\ pipe[p1].uv \in {"none", "init", "connected", "closing", "closed"}
    /\ pipe[p1].uv = "connected" /\ pipe[p1].reading => p1 \in ipc
    /\ "WRITE_CALLBACK_ENABLE" \notin pipe[p1].flag
    /\ ~(pipe[p2].obj = "live" /\ pipe[p2].uv = "init")
    /\ ~pipe[p2].conn /\ pipe[p2].slot.connect = "null" /\ pipe[p2].shut = "no"

\* Writes are not answered to one handle alone, and names are not cached: UVTcp's
\* runs do both.
AloneOrPair ==
    /\ Alone \/ WorkerAndClient
    /\ \A h \in Handles : pipe[h].names = {}

=============================================================================

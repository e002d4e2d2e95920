----------------------- MODULE MCRingBufferOverwrite -----------------------
(* The byte ring buffer under preemption in an array of four cells, with   *)
(* every byte string of up to three bytes (pushOverwrite displaces up to   *)
(* two with one) and one of four bytes (scenario 1, skipping one).         *)
EXTENDS RingBufferOverwrite

MCByte == {0, 1}

MCArgument == UNION {[1 .. n -> MCByte] : n \in 1 .. 3} \cup {<<0, 0, 1, 1>>}

MCUsage == {"never", "exclusive"}
MCPreempting == {"preempting"}
=============================================================================

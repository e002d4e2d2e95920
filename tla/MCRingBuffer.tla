---------------------------- MODULE MCRingBuffer ----------------------------
(***************************************************************************)
(* RingBuffer in an array of four cells.  All byte strings up to the       *)
(* capacity, and the longer ones with a single 1 in every place: these     *)
(* make pushOverwrite skip bytes, and show which ones it skips.            *)
(***************************************************************************)
EXTENDS IndexMask

MCByte == {0, 1}

OneHot(n) == {[i \in 1 .. n |-> IF i = k THEN 1 ELSE 0] : k \in 1 .. n}

MCArgument == UNION {[1 .. n -> MCByte] : n \in 0 .. 3} \cup OneHot(4) \cup OneHot(5)
=============================================================================

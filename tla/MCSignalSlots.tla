--------------------------- MODULE MCSignalSlots ---------------------------
(* SignalSlots with orderly slots, with slots that make all disturbing     *)
(* calls but one, and with slots that make them all.                       *)
EXTENDS SignalSlots, TLC

Kinds == {"disconnectRunning", "reenter", "die"}

MCUsage == {{}} \cup {Kinds \ {k} : k \in Kinds} \cup {Kinds}

OnlyDisconnectRunning == {{"disconnectRunning"}}

Symmetry == Permutations(Signal) \cup Permutations(Slot)
=============================================================================

----------------------------- MODULE LossyFifo -----------------------------
(***************************************************************************)
(* What the message ring buffer promises a producer and a consumer that    *)
(* preempt each other: a bounded queue whose producer may displace the     *)
(* oldest message when it is full.  A reader that was already on its way   *)
(* may still get the message that was displaced last.                      *)
(***************************************************************************)
EXTENDS Integers, Sequences

CONSTANTS Message, Capacity

VARIABLES queue,      \* the stored messages, oldest first
          full,       \* a producer found the queue full and will displace
          displaced,  \* << >>, or the last displaced message
          got         \* << >>, or the message the last read returned

lossyVars == <<queue, full, displaced, got>>

Init == queue = << >> /\ full = FALSE /\ displaced = << >> /\ got = << >>

Store(m) ==
    /\ Len(queue) < Capacity
    /\ queue' = Append(queue, m)
    /\ UNCHANGED <<full, displaced, got>>

FindFull ==
    /\ Len(queue) = Capacity
    /\ full' = TRUE
    /\ UNCHANGED <<queue, displaced, got>>

(* A reader may have made room in the meantime: then the oldest message is *)
(* displaced all the same, unless it is the one that was read just now.    *)
Displace ==
    /\ full
    /\ queue # << >>
    /\ full' = FALSE
    /\ displaced' = <<Head(queue)>>
    /\ queue' = Tail(queue)
    /\ UNCHANGED got

FindRoomMade ==
    /\ full
    /\ Len(queue) < Capacity
    /\ full' = FALSE
    /\ UNCHANGED <<queue, displaced, got>>

StartRead == got' = << >> /\ UNCHANGED <<queue, full, displaced>>

Take ==
    /\ queue # << >>
    /\ got' = <<Head(queue)>>
    /\ queue' = Tail(queue)
    /\ UNCHANGED <<full, displaced>>

Look ==
    /\ queue # << >>
    /\ got' = <<Head(queue)>>
    /\ UNCHANGED <<queue, full, displaced>>

(* The message was displaced under the reader's hands. *)
TakeDisplaced ==
    /\ displaced # << >>
    /\ got' = displaced
    /\ UNCHANGED <<queue, full, displaced>>

Drop(n) ==
    /\ queue' = SubSeq(queue, n + 1, Len(queue))
    /\ UNCHANGED <<full, displaced, got>>

Next == \/ \E m \in Message : Store(m)
        \/ FindFull \/ Displace \/ FindRoomMade
        \/ StartRead \/ Take \/ Look \/ TakeDisplaced
        \/ \E n \in 0 .. Capacity : Drop(n)

Spec == Init /\ [][Next]_lossyVars
=============================================================================

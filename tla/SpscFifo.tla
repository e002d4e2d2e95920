------------------------------ MODULE SpscFifo ------------------------------
(***************************************************************************)
(* What the byte ring buffer promises when one producer and one consumer   *)
(* preempt each other: a bounded first-in first-out queue in which a push  *)
(* is accepted before it takes effect, and a read fixes how many bytes it  *)
(* will take before it takes them.  Both gaps show: a read may return less *)
(* than is stored by the time it ends, and a push may be refused while a   *)
(* read that already has its bytes has not made room yet.                  *)
(***************************************************************************)
EXTENDS Integers, Sequences

CONSTANTS Byte, Capacity, Argument, MaxRead

VARIABLES queue,    \* the stored bytes, oldest first
          pending,  \* the bytes of a push that was accepted, << >> if none
          want,     \* how many bytes the read under way will take, 0 if none
          got       \* the bytes the last read returned

fifoVars == <<queue, pending, want, got>>

Shorter(a, b) == IF a < b THEN a ELSE b

Init == queue = << >> /\ pending = << >> /\ want = 0 /\ got = << >>

Accept(d) ==
    /\ pending = << >>
    /\ d # << >>
    /\ Len(queue) + Len(d) <= Capacity
    /\ pending' = d
    /\ UNCHANGED <<queue, want, got>>

Commit ==
    /\ pending # << >>
    /\ queue' = queue \o pending
    /\ pending' = << >>
    /\ UNCHANGED <<want, got>>

Ask(n) ==
    /\ want = 0
    /\ queue # << >>
    /\ want' = Shorter(n, Len(queue))
    /\ got' = << >>
    /\ UNCHANGED <<queue, pending>>

AskInVain ==
    /\ want = 0
    /\ queue = << >>
    /\ got' = << >>
    /\ UNCHANGED <<queue, pending, want>>

(* The read ends: with its bytes or without, and with the bytes removed or *)
(* not (pop, peek, drop).                                                  *)
Take ==
    /\ want > 0
    /\ got' = SubSeq(queue, 1, want)
    /\ queue' = SubSeq(queue, want + 1, Len(queue))
    /\ want' = 0
    /\ UNCHANGED pending

Look ==
    /\ want > 0
    /\ got' = SubSeq(queue, 1, want)
    /\ want' = 0
    /\ UNCHANGED <<queue, pending>>

Skip ==
    /\ want > 0
    /\ queue' = SubSeq(queue, want + 1, Len(queue))
    /\ want' = 0
    /\ UNCHANGED <<pending, got>>

Next == \/ \E d \in Argument : Accept(d)
        \/ Commit
        \/ \E n \in 1 .. MaxRead : Ask(n)
        \/ AskInVain \/ Take \/ Look \/ Skip

Spec == Init /\ [][Next]_fifoVars
=============================================================================

------------------------------ MODULE ByteFifo ------------------------------
(***************************************************************************)
(* What a ring buffer promises a caller that has it to itself: a bounded   *)
(* first-in first-out queue.  call is the last call made and what it       *)
(* returned: op the function, in the bytes passed to it, size the size     *)
(* argument, ok its success, out the bytes it gave back.                   *)
(***************************************************************************)
EXTENDS Integers, Sequences

CONSTANTS Byte, Capacity, Argument, MaxRead

VARIABLES queue, call

fifoVars == <<queue, call>>

Called(op, in, size, ok, out) ==
    call' = [op |-> op, in |-> in, size |-> size, ok |-> ok, out |-> out]

Shorter(a, b) == IF a < b THEN a ELSE b

(* The n newest elements of s. *)
Newest(s, n) == SubSeq(s, Len(s) - Shorter(n, Len(s)) + 1, Len(s))

(* What is left of s without its n oldest elements. *)
Without(s, n) == SubSeq(s, n + 1, Len(s))

Init == /\ queue = << >>
        /\ call = [op |-> "none", in |-> << >>, size |-> 0, ok |-> TRUE, out |-> << >>]

(* All of d or nothing of it. *)
Push(d) ==
    \/ /\ Called("push", d, 0, TRUE, << >>)
       /\ d # << >>
       /\ Len(queue) + Len(d) <= Capacity
       /\ queue' = queue \o d
    \/ /\ Called("push", d, 0, FALSE, << >>)
       /\ d = << >> \/ Len(queue) + Len(d) > Capacity
       /\ UNCHANGED queue

(* Always room for d: the oldest bytes make place, those of d included. *)
PushOverwrite(d) ==
    \/ /\ Called("pushOverwrite", d, 0, TRUE, << >>)
       /\ d # << >>
       /\ queue' = Newest(queue \o d, Capacity)
    \/ /\ Called("pushOverwrite", d, 0, FALSE, << >>)
       /\ d = << >>
       /\ UNCHANGED queue

(* As much of the queue as is there and was asked for. *)
Pop(n) ==
    LET taken == Shorter(n, Len(queue)) IN
    /\ Called("pop", << >>, n, taken > 0, SubSeq(queue, 1, taken))
    /\ queue' = Without(queue, taken)

Peek(n) ==
    LET taken == Shorter(n, Len(queue)) IN
    /\ Called("peek", << >>, n, taken > 0, SubSeq(queue, 1, taken))
    /\ UNCHANGED queue

Drop(n) ==
    /\ Called("drop", << >>, n, TRUE, << >>)
    /\ queue' = Without(queue, Shorter(n, Len(queue)))

Clear ==
    /\ Called("clear", << >>, 0, TRUE, << >>)
    /\ queue' = << >>

Next == \/ \E d \in Argument : Push(d) \/ PushOverwrite(d)
        \/ \E n \in 0 .. MaxRead : Pop(n) \/ Peek(n) \/ Drop(n)
        \/ Clear

Spec == Init /\ [][Next]_fifoVars
=============================================================================

------------------------- MODULE MessageRingBuffer -------------------------
(***************************************************************************)
(* MessageRingBuffer of include/RingBuffer.h shared by one producer and    *)
(* one consumer that preempt each other between any two accesses to shared *)
(* memory.  Unlike RingBuffer, pushOverwrite displaces at most one message *)
(* and moves the tail before it writes into the array.                     *)
(*                                                                         *)
(* MaxOverlap bounds how many pushOverwrite calls may meet one read, and   *)
(* how many messages may be read or dropped around one pushOverwrite: 1 is *)
(* an interrupt that cannot come twice while the other side is in a call.  *)
(***************************************************************************)
EXTENDS RingIndex

CONSTANTS Message, NoMessage, Words, MaxCount, MaxOverlap

ASSUME NoMessageAssumption == NoMessage \notin Message
ASSUME WordsAssumption == Words \in Nat \ {0}
ASSUME MaxCountAssumption == MaxCount \in Nat
ASSUME MaxOverlapAssumption == MaxOverlap \in Nat

VARIABLES
    m_buffer,   \* cell -> the words of a message; indeterminate until written
    m_writeHead, m_readTail,
    wop,        \* "none", "push", "pushOverwrite": the producer's call,
                \* "full", "displace": pushOverwrite before and after the
                \* load of the tail
    wmessage, whead, wtail,
    wdone,      \* how many words of it are copied in
    rop,        \* "none", "pop", "peek", "drop": the consumer's call
    rcount,     \* how many messages it removes, if it does
    rtail,      \* its local copy of the tail, -1 before the load
    dest,       \* the words copied out; kept when the call is over
    overlapped, \* history: how many pushOverwrites met the read, and for
                \* how many messages reads met the pushOverwrite
    displaced   \* history: << >> or the message displaced last

shared   == <<m_buffer, m_writeHead, m_readTail>>
producer == <<wop, wmessage, whead, wtail, wdone>>
consumer == <<rop, rcount, rtail, dest>>
history  == <<overlapped, displaced>>
vars     == <<shared, producer, consumer, history>>

(* The words of a message carry its value, so that a torn copy shows. *)
WordsOf(m) == [i \in 1 .. Words |-> m]

getOccupiedSize == OccupiedBetween(m_writeHead, m_readTail)

getFreeSize == Capacity - getOccupiedSize

Overwriting == wop \in {"full", "displace", "pushOverwrite"}

Init == /\ m_buffer \in [Index -> {WordsOf(m) : m \in Message}]
        /\ m_writeHead = 0 /\ m_readTail = 0
        /\ wop = "none" /\ wmessage = NoMessage /\ whead = 0 /\ wtail = 0 /\ wdone = 0
        /\ rop = "none" /\ rcount = 0 /\ rtail = -1 /\ dest = << >>
        /\ overlapped = [read |-> 0, write |-> 0]
        /\ displaced = << >>
-----------------------------------------------------------------------------
(* The producer. *)

(* push that finds room; one that does not returns and changes nothing. *)
StartPush(m) ==
    /\ wop = "none"
    /\ getFreeSize # 0
    /\ wop' = "push" /\ wmessage' = m /\ whead' = m_writeHead
    /\ UNCHANGED <<shared, wtail, wdone, consumer, history>>

StartPushOverwrite(m) ==
    /\ wop = "none"
    /\ IF rop = "none"
       THEN UNCHANGED overlapped
       ELSE /\ overlapped.read < MaxOverlap /\ rcount <= MaxOverlap
            /\ overlapped' = [read |-> overlapped.read + 1, write |-> rcount]
    /\ wop' = IF getFreeSize = 0 THEN "full" ELSE "pushOverwrite"
    /\ wmessage' = m /\ whead' = m_writeHead
    /\ UNCHANGED <<shared, wtail, wdone, consumer, displaced>>

LoadTail ==
    /\ wop = "full"
    /\ wop' = "displace"
    /\ wtail' = Wrap(m_readTail + 1)
    /\ UNCHANGED <<shared, wmessage, whead, wdone, consumer, history>>

DisplaceOldest ==
    /\ wop = "displace"
    /\ m_readTail' = wtail
    /\ displaced' = IF wtail = m_readTail THEN displaced ELSE <<m_buffer[m_readTail]>>
    /\ wop' = "pushOverwrite" /\ wtail' = 0
    /\ UNCHANGED <<m_buffer, m_writeHead, wmessage, whead, wdone, consumer, overlapped>>

CopyIn ==
    /\ wop \in {"push", "pushOverwrite"}
    /\ wdone < Words
    /\ m_buffer' = [m_buffer EXCEPT ![whead][wdone + 1] = wmessage]
    /\ wdone' = wdone + 1
    /\ UNCHANGED <<m_writeHead, m_readTail, wop, wmessage, whead, wtail, consumer, history>>

StoreHead_BeforeTheMessage ==
    /\ wop \in {"push", "pushOverwrite"}
    /\ wdone = Words - 1
    /\ m_writeHead' = Wrap(whead + 1)
    /\ wop' = "none" /\ wmessage' = NoMessage /\ whead' = 0 /\ wdone' = 0
    /\ overlapped' = [overlapped EXCEPT !.write = 0]
    /\ UNCHANGED <<m_buffer, m_readTail, wtail, consumer, displaced>>
StoreHead ==
    /\ wop \in {"push", "pushOverwrite"}
    /\ wdone = Words
    /\ m_writeHead' = Wrap(whead + 1)
    /\ wop' = "none" /\ wmessage' = NoMessage /\ whead' = 0 /\ wdone' = 0
    /\ overlapped' = [overlapped EXCEPT !.write = 0]
    /\ UNCHANGED <<m_buffer, m_readTail, wtail, consumer, displaced>>

Producer ==
    \/ \E m \in Message : StartPush(m) \/ StartPushOverwrite(m)
    \/ LoadTail \/ DisplaceOldest \/ CopyIn \/ StoreHead
-----------------------------------------------------------------------------
(* The consumer: pop, peek and drop(count). *)

StartRead(op, count) ==
    /\ rop = "none"
    /\ getOccupiedSize > 0
    /\ rcount' = SmallerOf(getOccupiedSize, count)
    /\ IF ~Overwriting
       THEN UNCHANGED overlapped
       ELSE /\ overlapped.write + rcount' <= MaxOverlap
            /\ overlapped' = [write |-> overlapped.write + rcount', read |-> 1]
    /\ rop' = op
    /\ dest' = << >>
    /\ UNCHANGED <<shared, producer, rtail, displaced>>

LoadReadTail ==
    /\ rop # "none" /\ rtail = -1
    /\ rtail' = m_readTail
    /\ UNCHANGED <<shared, producer, rop, rcount, dest, history>>

CopyOut ==
    /\ rop \in {"pop", "peek"} /\ rtail # -1
    /\ Len(dest) < Words
    /\ dest' = Append(dest, m_buffer[rtail][Len(dest) + 1])
    /\ UNCHANGED <<shared, producer, rop, rcount, rtail, history>>

ReadEnds ==
    /\ rop' = "none" /\ rcount' = 0 /\ rtail' = -1
    /\ overlapped' = [overlapped EXCEPT !.read = 0]

StoreTail ==
    /\ rop \in {"pop", "drop"} /\ rtail # -1
    /\ rop = "pop" => Len(dest) = Words
    /\ m_readTail' = Wrap(rtail + rcount)
    /\ ReadEnds
    /\ UNCHANGED <<m_buffer, m_writeHead, producer, dest, displaced>>

EndPeek ==
    /\ rop = "peek"
    /\ Len(dest) = Words
    /\ ReadEnds
    /\ UNCHANGED <<shared, producer, dest, displaced>>

Consumer ==
    \/ \E op \in {"pop", "peek"} : StartRead(op, 1)
    \/ \E count \in 1 .. MaxCount : StartRead("drop", count)
    \/ LoadReadTail \/ CopyOut \/ StoreTail \/ EndPeek

(* clear() stores both indexes: for a moment when neither side is inside a *)
(* call.                                                                   *)
Clear ==
    /\ wop = "none" /\ rop = "none"
    /\ m_readTail' = 0
    /\ m_writeHead' = 0
    /\ UNCHANGED <<m_buffer, producer, consumer, history>>

Next == Producer \/ Consumer \/ Clear

Spec == Init /\ [][Next]_vars
-----------------------------------------------------------------------------
TypeOK ==
    /\ m_buffer \in [Index -> [1 .. Words -> Message]]
    /\ m_writeHead \in Index /\ m_readTail \in Index
    /\ wop \in {"none", "push", "full", "displace", "pushOverwrite"}
    /\ wmessage \in Message \cup {NoMessage}
    /\ whead \in Index /\ wtail \in Index /\ wdone \in 0 .. Words
    /\ rop \in {"none", "pop", "peek", "drop"}
    /\ rcount \in 0 .. Capacity /\ rtail \in Index \cup {-1}
    /\ dest \in UNION {[1 .. n -> Message] : n \in 0 .. Words}
    /\ overlapped \in [read : Nat, write : Nat]

Contents == WindowOf(m_buffer, m_writeHead, m_readTail)

Fifo == INSTANCE LossyFifo
        WITH Message <- {WordsOf(m) : m \in Message},
             queue   <- Contents,
             full    <- wop \in {"full", "displace"},
             got     <- IF rop = "none" /\ Len(dest) = Words THEN <<dest>> ELSE << >>

(* As long as no read meets two pushOverwrites and no pushOverwrite two    *)
(* reads, both sides see one queue: a reader gets a whole message, the     *)
(* oldest or the one just displaced, and removes no other; a full queue    *)
(* loses its oldest message only, and never a newer one.                   *)
ImplementsLossyFifo == Fifo!Spec
=============================================================================

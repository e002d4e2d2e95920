--------------------------- MODULE RingBufferSpsc ---------------------------
(***************************************************************************)
(* The byte ring buffer of include/RingBuffer.h shared by one producer     *)
(* (the interrupt handler of a peripheral) and one consumer (the main loop *)
(* or a task), either of which may be preempted by the other between any   *)
(* two of its accesses to shared memory: the load of the other side's      *)
(* index, each copied byte, the store of its own index.                    *)
(*                                                                         *)
(* The indexes are loaded and stored in program order.  The code loads     *)
(* them relaxed: on the single-core targets of the library the two         *)
(* contexts share a core and see each other's accesses in program order.   *)
(***************************************************************************)
EXTENDS RingState

VARIABLES
    wdata,    \* the argument of the push under way, << >> if there is none
    whead,    \* its local copy of the head, 0 if there is none
    wdone,    \* how many of its bytes are copied in
    rop,      \* the read under way: "none", "pop", "peek" or "drop"
    rsize,    \* bytesToRead, 0 if there is none
    rtail,    \* its local copy of the tail, 0 if there is none
    dest      \* the bytes copied out so far; kept when the read is over

shared   == <<m_buffer, m_writeHead, m_readTail>>
producer == <<wdata, whead, wdone>>
consumer == <<rop, rsize, rtail, dest>>
vars     == <<shared, producer, consumer>>

Init == /\ Empty
        /\ wdata = << >> /\ whead = 0 /\ wdone = 0
        /\ rop = "none" /\ rsize = 0 /\ rtail = 0 /\ dest = << >>
-----------------------------------------------------------------------------
(* The producer: push. *)

StartPush_ReservedCellToo(d) ==
    /\ wdata = << >>
    /\ d # << >>
    /\ Len(d) <= getFreeSize + 1
    /\ wdata' = d
    /\ whead' = m_writeHead
    /\ wdone' = 0
    /\ UNCHANGED <<shared, consumer>>
(* The check passed; a push that fails it returns and changes nothing. *)
StartPush(d) ==
    /\ wdata = << >>
    /\ d # << >>
    /\ Len(d) <= getFreeSize
    /\ wdata' = d
    /\ whead' = m_writeHead
    /\ wdone' = 0
    /\ UNCHANGED <<shared, consumer>>

CopyIn ==
    /\ wdone < Len(wdata)
    /\ m_buffer' = [m_buffer EXCEPT ![CellOf(whead, wdone)] = wdata[wdone + 1]]
    /\ wdone' = wdone + 1
    /\ UNCHANGED <<m_writeHead, m_readTail, wdata, whead, consumer>>

StoreHead_BeforeTheData ==
    /\ wdata # << >>
    /\ wdone + 1 = Len(wdata)
    /\ m_writeHead' = Wrap(whead + Len(wdata))
    /\ wdata' = << >> /\ whead' = 0 /\ wdone' = 0
    /\ UNCHANGED <<m_buffer, m_readTail, consumer>>
StoreHead ==
    /\ wdata # << >>
    /\ wdone = Len(wdata)
    /\ m_writeHead' = Wrap(whead + Len(wdata))
    /\ wdata' = << >> /\ whead' = 0 /\ wdone' = 0
    /\ UNCHANGED <<m_buffer, m_readTail, consumer>>

Producer == (\E d \in Argument : StartPush(d)) \/ CopyIn \/ StoreHead
-----------------------------------------------------------------------------
(* The consumer: pop, peek and drop. *)

(* Nothing asked for, no destination, or a pop or peek with nothing stored: *)
(* the call returns and changes nothing.  drop does not look: of an empty   *)
(* buffer it stores the tail that it loaded.                                *)
StartRead(op, n) ==
    /\ rop = "none"
    /\ op # "drop" => getOccupiedSize > 0
    /\ rop' = op
    /\ rsize' = SmallerOf(n, getOccupiedSize)
    /\ rtail' = m_readTail
    /\ dest' = << >>
    /\ UNCHANGED <<shared, producer>>

CopyOut ==
    /\ rop \in {"pop", "peek"}
    /\ Len(dest) < rsize
    /\ dest' = Append(dest, m_buffer[CellOf(rtail, Len(dest))])
    /\ UNCHANGED <<shared, producer, rop, rsize, rtail>>

StoreTail_OneFurther ==
    /\ rop \in {"pop", "drop"}
    /\ rop = "pop" => Len(dest) = rsize
    /\ m_readTail' = Wrap(rtail + rsize + 1)
    /\ rop' = "none" /\ rsize' = 0 /\ rtail' = 0
    /\ UNCHANGED <<m_buffer, m_writeHead, producer, dest>>
StoreTail_BeforeTheData ==
    /\ rop \in {"pop", "drop"}
    /\ m_readTail' = Wrap(rtail + rsize)
    /\ IF rop = "pop" /\ Len(dest) < rsize
       THEN rop' = "peek" /\ UNCHANGED rsize
       ELSE rop' = "none" /\ rsize' = 0
    /\ UNCHANGED <<m_buffer, m_writeHead, producer, rtail, dest>>
StoreTail ==
    /\ rop \in {"pop", "drop"}
    /\ rop = "pop" => Len(dest) = rsize
    /\ m_readTail' = Wrap(rtail + rsize)
    /\ rop' = "none" /\ rsize' = 0 /\ rtail' = 0
    /\ UNCHANGED <<m_buffer, m_writeHead, producer, dest>>

EndPeek ==
    /\ rop = "peek"
    /\ Len(dest) = rsize
    /\ rop' = "none" /\ rsize' = 0 /\ rtail' = 0
    /\ UNCHANGED <<shared, producer, dest>>

Consumer ==
    \/ \E op \in {"pop", "peek", "drop"}, n \in 1 .. MaxRead : StartRead(op, n)
    \/ CopyOut \/ StoreTail \/ EndPeek

Next == Producer \/ Consumer

Spec == Init /\ [][Next]_vars
-----------------------------------------------------------------------------
TypeOK ==
    /\ m_buffer \in [Index -> Byte]
    /\ m_writeHead \in Index /\ m_readTail \in Index
    /\ wdata \in Seq(Byte) /\ whead \in Index /\ wdone \in 0 .. Len(wdata)
    /\ rop \in {"none", "pop", "peek", "drop"}
    /\ rsize \in Nat /\ rtail \in Index /\ dest \in Seq(Byte)

(* The cells a push under way writes: known to the producer alone. *)
CellsWritten == {CellOf(whead, i) : i \in 0 .. Len(wdata) - 1}

(* The cells of the bytes a reader may take now or is taking. *)
CellsReadable ==
    {CellOf(m_readTail, i) : i \in 0 .. getOccupiedSize - 1}
       \cup {CellOf(rtail, i) : i \in 0 .. rsize - 1}

(* Whatever the order in which pushes and reads preempt each other, no     *)
(* push writes a cell that the consumer is copying from or may copy from:  *)
(* the bytes of the two memcpys never overlap.                             *)
NoOverlap == CellsWritten \cap CellsReadable = {}

(* A read that started never finds fewer bytes than it decided to take,    *)
(* and what it copied so far is what is stored, in order.                  *)
ReadsWhatIsStored ==
    /\ rsize <= getOccupiedSize
    /\ rop \in {"pop", "peek"} => dest = SubSeq(Contents, 1, Len(dest))

Fifo == INSTANCE SpscFifo WITH queue <- Contents, pending <- wdata, want <- rsize,
                               got <- IF rop = "none" THEN dest ELSE << >>

(* Under every preemption the consumer receives the accepted bytes, all of *)
(* them, once, and in the order in which they were pushed.                 *)
ImplementsFifo == Fifo!Spec
=============================================================================

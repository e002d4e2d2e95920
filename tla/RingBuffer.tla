----------------------------- MODULE RingBuffer -----------------------------
(***************************************************************************)
(* The byte ring buffer of include/RingBuffer.h, class RingBuffer, used    *)
(* from one context: every call of its interface runs to its end before    *)
(* the next one starts.  RingBufferSpsc opens the calls up.                *)
(***************************************************************************)
EXTENDS RingState

VARIABLE call      \* the last call and its result, as in ByteFifo

ringVars == <<m_buffer, m_writeHead, m_readTail, call>>

Called(op, in, size, ok, out) ==
    call' = [op |-> op, in |-> in, size |-> size, ok |-> ok, out |-> out]

CallsInit ==
    /\ Empty
    /\ call = [op |-> "none", in |-> << >>, size |-> 0, ok |-> TRUE, out |-> << >>]
-----------------------------------------------------------------------------
(* push(data, size). *)
Push_UsesReservedCell(d) ==
    \/ /\ d # << >>
       /\ Len(d) <= getFreeSize + 1
       /\ m_buffer' = CopiedInto(m_buffer, m_writeHead, d)
       /\ m_writeHead' = Wrap(m_writeHead + Len(d))
       /\ Called("push", d, 0, TRUE, << >>)
       /\ UNCHANGED m_readTail
    \/ /\ d = << >> \/ Len(d) > getFreeSize + 1
       /\ Called("push", d, 0, FALSE, << >>)
       /\ UNCHANGED <<m_buffer, m_writeHead, m_readTail>>
Push(d) ==
    \/ /\ d # << >>
       /\ Len(d) <= getFreeSize
       /\ m_buffer' = CopiedInto(m_buffer, m_writeHead, d)
       /\ m_writeHead' = Wrap(m_writeHead + Len(d))
       /\ Called("push", d, 0, TRUE, << >>)
       /\ UNCHANGED m_readTail
    \/ /\ d = << >> \/ Len(d) > getFreeSize
       /\ Called("push", d, 0, FALSE, << >>)
       /\ UNCHANGED <<m_buffer, m_writeHead, m_readTail>>

(* push(data): one byte. *)
PushByte(b) ==
    \/ /\ getFreeSize # 0
       /\ m_buffer' = [m_buffer EXCEPT ![m_writeHead] = b]
       /\ m_writeHead' = Wrap(m_writeHead + 1)
       /\ Called("push", <<b>>, 0, TRUE, << >>)
       /\ UNCHANGED m_readTail
    \/ /\ getFreeSize = 0
       /\ Called("push", <<b>>, 0, FALSE, << >>)
       /\ UNCHANGED <<m_buffer, m_writeHead, m_readTail>>

(* pushOverwrite, scenario 1: the data alone fills the buffer; its first   *)
(* bytes are skipped and the tail is put right behind the new head.        *)
PushOverwriteAll(d) ==
    LET fitting  == SubSeq(d, Len(d) - Capacity + 1, Len(d))
        nextHead == Wrap(m_writeHead + Capacity)
    IN  /\ d # << >>
        /\ Len(d) >= Capacity
        /\ m_buffer' = CopiedInto(m_buffer, m_writeHead, fitting)
        /\ m_writeHead' = nextHead
        /\ m_readTail' = Wrap(nextHead + 1)
        /\ Called("pushOverwrite", d, 0, TRUE, << >>)

(* pushOverwrite, scenario 2: the tail moves by as much as does not fit. *)
PushOverwriteSome(d) ==
    LET overflow == Len(d) - getFreeSize
    IN  /\ d # << >>
        /\ Len(d) < Capacity
        /\ m_buffer' = CopiedInto(m_buffer, m_writeHead, d)
        /\ m_readTail' = IF overflow > 0 THEN Wrap(m_readTail + overflow) ELSE m_readTail
        /\ m_writeHead' = Wrap(m_writeHead + Len(d))
        /\ Called("pushOverwrite", d, 0, TRUE, << >>)

PushOverwriteNothing(d) ==
    /\ d = << >>
    /\ Called("pushOverwrite", d, 0, FALSE, << >>)
    /\ UNCHANGED <<m_buffer, m_writeHead, m_readTail>>

PushOverwrite(d) ==
    PushOverwriteAll(d) \/ PushOverwriteSome(d) \/ PushOverwriteNothing(d)
-----------------------------------------------------------------------------
(* pop(dest, maxSize), and pop(string) with the room left in the string.   *)
(* A null or full destination is a read of size 0.                         *)
Pop(n) ==
    LET bytesToRead == SmallerOf(n, getOccupiedSize)
    IN  /\ m_readTail' = Wrap(m_readTail + bytesToRead)
        /\ Called("pop", << >>, n, bytesToRead > 0,
                  BlockAt(m_buffer, m_readTail, bytesToRead))
        /\ UNCHANGED <<m_buffer, m_writeHead>>

(* pop(data): one byte. *)
PopByte ==
    /\ IF getOccupiedSize = 0
       THEN /\ Called("pop", << >>, 1, FALSE, << >>)
            /\ UNCHANGED m_readTail
       ELSE /\ Called("pop", << >>, 1, TRUE, <<m_buffer[m_readTail]>>)
            /\ m_readTail' = Wrap(m_readTail + 1)
    /\ UNCHANGED <<m_buffer, m_writeHead>>

(* peek(dest, maxSize). *)
Peek(n) ==
    LET maxSize == SmallerOf(n, getOccupiedSize)
    IN  /\ Called("peek", << >>, n, maxSize > 0,
                  BlockAt(m_buffer, m_readTail, maxSize))
        /\ UNCHANGED <<m_buffer, m_writeHead, m_readTail>>

(* peek(data): one byte. *)
PeekByte ==
    /\ IF getOccupiedSize = 0
       THEN Called("peek", << >>, 1, FALSE, << >>)
       ELSE Called("peek", << >>, 1, TRUE, <<m_buffer[m_readTail]>>)
    /\ UNCHANGED <<m_buffer, m_writeHead, m_readTail>>

(* drop(size). *)
Drop(n) ==
    /\ m_readTail' = Wrap(m_readTail + SmallerOf(n, getOccupiedSize))
    /\ Called("drop", << >>, n, TRUE, << >>)
    /\ UNCHANGED <<m_buffer, m_writeHead>>

(* clear(): the bytes stay in the array, both indexes go back to 0. *)
Clear ==
    /\ m_readTail' = 0
    /\ m_writeHead' = 0
    /\ Called("clear", << >>, 0, TRUE, << >>)
    /\ UNCHANGED m_buffer

CallsNext ==
    \/ \E d \in Argument : Push(d) \/ PushOverwrite(d)
    \/ \E b \in Byte : <<b>> \in Argument /\ PushByte(b)
    \/ \E n \in 0 .. MaxRead : Pop(n) \/ Peek(n) \/ Drop(n)
    \/ 1 <= MaxRead /\ (PopByte \/ PeekByte)
    \/ Clear

CallsSpec == CallsInit /\ [][CallsNext]_ringVars
-----------------------------------------------------------------------------
CallsTypeOK ==
    /\ m_buffer \in [Index -> Byte]
    /\ m_writeHead \in Index
    /\ m_readTail \in Index
    /\ call \in [op : {"none", "push", "pushOverwrite", "pop", "peek", "drop", "clear"},
                 in : Seq(Byte), size : Nat, ok : BOOLEAN, out : Seq(Byte)]

CallsFifo == INSTANCE ByteFifo WITH queue <- Contents

(* Every call does to the stored bytes, and returns, exactly what a        *)
(* bounded queue that loses its oldest bytes on pushOverwrite would: no    *)
(* byte is lost, repeated or reordered where the block wraps around the    *)
(* end of the array or the indexes do.                                     *)
CallsImplementFifo == CallsFifo!Spec
=============================================================================

-------------------------- MODULE RingBufferProofs --------------------------
(***************************************************************************)
(* Proofs about the byte ring buffer, for every buffer size, every set of  *)
(* bytes and every byte string that is passed to it.                       *)
(*                                                                         *)
(* First RingBuffer, which one context has to itself: each call is shown   *)
(* to do to the stored bytes what ByteFifo does to its queue.              *)
(*                                                                         *)
(* Then RingBufferSpsc, for every interleaving of a producer and a         *)
(* consumer, and RingBufferOverwrite.  With pushOverwrite, the type is     *)
(* proved for every way to call it; the rest for those that keep it and    *)
(* the reads apart, since the code does not promise it otherwise.          *)
(***************************************************************************)
EXTENDS RingBuffer, RingBufferOverwrite, RingIndexProofs, SequenceTheorems

(* What is stored is a sequence no longer than the capacity. *)
LEMMA CallsContents ==
    ASSUME CallsTypeOK
    PROVE  /\ Contents \in Seq(Byte)
           /\ Len(Contents) = getOccupiedSize
           /\ getOccupiedSize \in 0 .. Capacity /\ Capacity \in Nat
<1>1. Contents \in Seq(Byte) /\ Len(Contents) = getOccupiedSize
    BY WindowIsSequence DEF CallsTypeOK, Contents, getOccupiedSize
<1>2. getOccupiedSize \in 0 .. Capacity /\ Capacity \in Nat
    BY OccupiedIsBounded, BufferSizeAssumption DEF CallsTypeOK, getOccupiedSize, Capacity
<1> QED BY <1>1, <1>2

LEMMA InitMapped == CallsInit => CallsTypeOK /\ CallsFifo!Init
<1> SUFFICES ASSUME CallsInit PROVE CallsTypeOK /\ CallsFifo!Init
    OBVIOUS
<1>1. CallsTypeOK
    <2>1. 0 \in Index
        BY BufferSizeAssumption DEF Index
    <2>2. m_buffer \in [Index -> Byte] /\ m_writeHead \in Index /\ m_readTail \in Index
        BY <2>1, ByteAssumption DEF CallsInit, Empty
    <2>3. << >> \in Seq(Byte)
        OBVIOUS
    <2>4. call \in [op : {"none", "push", "pushOverwrite", "pop", "peek", "drop", "clear"},
                    in : Seq(Byte), size : Nat, ok : BOOLEAN, out : Seq(Byte)]
        BY <2>3 DEF CallsInit, Empty
    <2> QED BY <2>2, <2>4 DEF CallsTypeOK
<1>2. Contents = << >>
    <2>1. OccupiedBetween(m_writeHead, m_readTail) = 0
        BY BufferSizeAssumption DEF CallsInit, Empty, OccupiedBetween, Wrap
    <2>2. Len(Contents) = 0 /\ Contents \in Seq(Byte)
        BY <1>1, <2>1, CallsContents DEF getOccupiedSize
    <2> QED BY <2>2
<1> QED BY <1>1, <1>2 DEF CallsInit, Empty, CallsFifo!Init
-----------------------------------------------------------------------------
(* push *)

LEMMA PushMapped ==
    ASSUME CallsTypeOK, NEW d \in Argument, Push(d)
    PROVE  CallsTypeOK' /\ CallsFifo!Push(d)
<1>0. d \in Seq(Byte) /\ << >> \in Seq(Byte) /\ 0 \in Nat
    BY ArgumentAssumption
<1>1. /\ Contents \in Seq(Byte) /\ Len(Contents) = getOccupiedSize
      /\ getOccupiedSize \in 0 .. Capacity /\ Capacity \in Nat
    BY CallsContents
<1>2. CASE d # << >> /\ Len(d) <= getFreeSize
    <2>1. /\ m_buffer' = CopiedInto(m_buffer, m_writeHead, d)
          /\ m_writeHead' = Wrap(m_writeHead + Len(d))
          /\ m_readTail' = m_readTail
          /\ Called("push", d, 0, TRUE, << >>)
        <3>1. ~(d = << >> \/ Len(d) > getFreeSize)
            BY <1>0, <1>1, <1>2 DEF getFreeSize
        <3> QED BY <3>1 DEF Push
    <2>2. Len(d) <= Capacity - OccupiedBetween(m_writeHead, m_readTail)
        BY <1>2 DEF getFreeSize, getOccupiedSize
    <2>3. /\ CopiedInto(m_buffer, m_writeHead, d) \in [Index -> Byte]
          /\ Wrap(m_writeHead + Len(d)) \in Index
          /\ WindowOf(CopiedInto(m_buffer, m_writeHead, d), Wrap(m_writeHead + Len(d)), m_readTail)
                = WindowOf(m_buffer, m_writeHead, m_readTail) \o d
        BY <1>0, <2>2, WindowAfterStore DEF CallsTypeOK
    <2>4. Contents' = Contents \o d
        BY <2>1, <2>3 DEF Contents
    <2>5. CallsTypeOK'
        BY <1>0, <2>1, <2>3 DEF CallsTypeOK, Called
    <2>6. Len(Contents) + Len(d) <= Capacity
        BY <1>0, <1>1, <1>2 DEF getFreeSize
    <2> QED BY <1>2, <2>1, <2>4, <2>5, <2>6 DEF CallsFifo!Push, CallsFifo!Called, Called
<1>3. CASE ~(d # << >> /\ Len(d) <= getFreeSize)
    <2>1. /\ UNCHANGED <<m_buffer, m_writeHead, m_readTail>>
          /\ Called("push", d, 0, FALSE, << >>)
        BY <1>3 DEF Push
    <2>2. d = << >> \/ Len(Contents) + Len(d) > Capacity
        BY <1>0, <1>1, <1>3 DEF getFreeSize
    <2>3. Contents' = Contents
        BY <2>1 DEF Contents
    <2>4. CallsTypeOK'
        BY <1>0, <2>1 DEF CallsTypeOK, Called
    <2> QED BY <2>1, <2>2, <2>3, <2>4 DEF CallsFifo!Push, CallsFifo!Called, Called
<1> QED BY <1>2, <1>3

(* Storing a byte in the cell of the head is copying a block of one byte. *)
LEMMA OneByteIsABlock ==
    ASSUME NEW buffer \in [Index -> Byte], NEW start \in Index, NEW b \in Byte
    PROVE  [buffer EXCEPT ![start] = b] = CopiedInto(buffer, start, <<b>>)
<1> DEFINE new == CopiedInto(buffer, start, <<b>>)
           one == [buffer EXCEPT ![start] = b]
<1>1. Len(<<b>>) = 1 /\ <<b>>[1] = b /\ <<b>> \in Seq(Byte)
    OBVIOUS
<1>2. new \in [Index -> Byte]
    <2>1. Len(<<b>>) <= Capacity
        BY <1>1, BufferSizeAssumption DEF Capacity
    <2> QED BY <1>1, <2>1, CopiedIntoProperties
<1>3. ASSUME NEW c \in Index PROVE new[c] = one[c]
    <2>1. CASE c = start
        <3>1. c >= start /\ c - start < Len(<<b>>) /\ c - start + 1 = 1
            BY <1>1, <2>1 DEF Index
        <3> QED BY <1>1, <2>1, <3>1 DEF CopiedInto
    <2>2. CASE c # start
        <3>1. /\ ~(c >= start /\ c - start < Len(<<b>>))
              /\ ~(c < start /\ c + (BufferSize - start) < Len(<<b>>))
            BY <1>1, <2>2, BufferSizeAssumption DEF Index
        <3> QED BY <2>2, <3>1 DEF CopiedInto
    <2> QED BY <2>1, <2>2
<1>4. one \in [Index -> Byte]
    OBVIOUS
<1> HIDE DEF new, one
<1>5. new = one
    BY <1>2, <1>3, <1>4
<1> QED BY <1>5 DEF new, one

(* push of one byte is push of a block of one byte. *)
LEMMA PushByteIsPush ==
    ASSUME CallsTypeOK, NEW b \in Byte, PushByte(b)
    PROVE  Push(<<b>>)
<1>1. <<b>> # << >> /\ Len(<<b>>) = 1
    OBVIOUS
<1>2. getFreeSize \in Nat
    BY CallsContents DEF getFreeSize
<1>3. CASE getFreeSize # 0
    <2>1. /\ m_buffer' = [m_buffer EXCEPT ![m_writeHead] = b]
          /\ m_writeHead' = Wrap(m_writeHead + 1)
          /\ Called("push", <<b>>, 0, TRUE, << >>)
          /\ UNCHANGED m_readTail
        BY <1>3 DEF PushByte
    <2>2. m_buffer' = CopiedInto(m_buffer, m_writeHead, <<b>>)
        BY <2>1, OneByteIsABlock DEF CallsTypeOK
    <2>3. Len(<<b>>) <= getFreeSize /\ Wrap(m_writeHead + 1) = Wrap(m_writeHead + Len(<<b>>))
        BY <1>1, <1>2, <1>3
    <2> QED BY <1>1, <2>1, <2>2, <2>3 DEF Push
<1>4. CASE getFreeSize = 0
    <2>1. /\ Called("push", <<b>>, 0, FALSE, << >>)
          /\ UNCHANGED <<m_buffer, m_writeHead, m_readTail>>
        BY <1>4 DEF PushByte
    <2>2. Len(<<b>>) > getFreeSize
        BY <1>1, <1>4
    <2> QED BY <2>1, <2>2 DEF Push
<1> QED BY <1>3, <1>4
-----------------------------------------------------------------------------
(* pop, peek, drop and clear *)

(* What a read of n bytes gives back, and what a move of the tail leaves. *)
LEMMA ReadOfContents ==
    ASSUME CallsTypeOK, NEW n \in Nat
    PROVE  LET k == SmallerOf(n, getOccupiedSize)
           IN  /\ k \in Nat /\ k = CallsFifo!Shorter(n, Len(Contents))
               /\ BlockAt(m_buffer, m_readTail, k) = SubSeq(Contents, 1, k)
               /\ BlockAt(m_buffer, m_readTail, k) \in Seq(Byte)
               /\ Wrap(m_readTail + k) \in Index
               /\ WindowOf(m_buffer, m_writeHead, Wrap(m_readTail + k))
                    = CallsFifo!Without(Contents, k)
<1> DEFINE k == SmallerOf(n, getOccupiedSize)
<1>1. /\ Contents \in Seq(Byte) /\ Len(Contents) = getOccupiedSize
      /\ getOccupiedSize \in 0 .. Capacity /\ Capacity \in Nat
    BY CallsContents
<1>2. k \in 0 .. getOccupiedSize /\ k \in Nat /\ k = CallsFifo!Shorter(n, Len(Contents))
    BY <1>1 DEF SmallerOf, CallsFifo!Shorter
<1> HIDE DEF k
<1>3. BlockAt(m_buffer, m_readTail, k) = SubSeq(Contents, 1, k)
    <2>1. /\ m_buffer \in [Index -> Byte] /\ m_writeHead \in Index /\ m_readTail \in Index
          /\ k \in 0 .. OccupiedBetween(m_writeHead, m_readTail)
        BY <1>2 DEF CallsTypeOK, getOccupiedSize
    <2> QED BY <2>1, BlockIsPrefix DEF Contents
<1>4. BlockAt(m_buffer, m_readTail, k) \in Seq(Byte)
    <2>1. k \in 0 .. BufferSize
        BY <1>1, <1>2, BufferSizeAssumption DEF Capacity
    <2> QED BY <2>1, BlockIsSequence DEF CallsTypeOK
<1>5. Wrap(m_readTail + k) \in Index
    BY <1>2, TailMoves DEF CallsTypeOK, getOccupiedSize
<1>6. WindowOf(m_buffer, m_writeHead, Wrap(m_readTail + k)) = SubSeq(Contents, k + 1, Len(Contents))
    <2>1. /\ m_buffer \in [Index -> Byte] /\ m_writeHead \in Index /\ m_readTail \in Index
          /\ k \in 0 .. OccupiedBetween(m_writeHead, m_readTail)
        BY <1>2 DEF CallsTypeOK, getOccupiedSize
    <2>2. WindowOf(m_buffer, m_writeHead, Wrap(m_readTail + k))
             = SubSeq(WindowOf(m_buffer, m_writeHead, m_readTail), k + 1,
                      Len(WindowOf(m_buffer, m_writeHead, m_readTail)))
        BY <2>1, WindowAfterRemoval
    <2> QED BY <2>2 DEF Contents
<1> QED BY <1>2, <1>3, <1>4, <1>5, <1>6 DEF CallsFifo!Without, k

LEMMA PopMapped ==
    ASSUME CallsTypeOK, NEW n \in Nat, Pop(n)
    PROVE  CallsTypeOK' /\ CallsFifo!Pop(n)
<1> DEFINE k == SmallerOf(n, getOccupiedSize)
<1>1. /\ k \in Nat /\ k = CallsFifo!Shorter(n, Len(Contents))
      /\ BlockAt(m_buffer, m_readTail, k) = SubSeq(Contents, 1, k)
      /\ BlockAt(m_buffer, m_readTail, k) \in Seq(Byte)
      /\ Wrap(m_readTail + k) \in Index
      /\ WindowOf(m_buffer, m_writeHead, Wrap(m_readTail + k)) = CallsFifo!Without(Contents, k)
    BY ReadOfContents
<1>2. /\ m_readTail' = Wrap(m_readTail + k)
      /\ Called("pop", << >>, n, k > 0, BlockAt(m_buffer, m_readTail, k))
      /\ UNCHANGED <<m_buffer, m_writeHead>>
    BY DEF Pop
<1> HIDE DEF k
<1>3. Contents' = CallsFifo!Without(Contents, k)
    BY <1>1, <1>2 DEF Contents
<1>4. CallsTypeOK'
    <2>1. << >> \in Seq(Byte) /\ (k > 0) \in BOOLEAN
        OBVIOUS
    <2> QED BY <1>1, <1>2, <2>1 DEF CallsTypeOK, Called
<1>5. CallsFifo!Called("pop", << >>, n, k > 0, SubSeq(Contents, 1, k))
    BY <1>1, <1>2 DEF Called, CallsFifo!Called
<1> QED BY <1>1, <1>3, <1>4, <1>5 DEF CallsFifo!Pop

LEMMA PeekMapped ==
    ASSUME CallsTypeOK, NEW n \in Nat, Peek(n)
    PROVE  CallsTypeOK' /\ CallsFifo!Peek(n)
<1> DEFINE k == SmallerOf(n, getOccupiedSize)
<1>1. /\ k \in Nat /\ k = CallsFifo!Shorter(n, Len(Contents))
      /\ BlockAt(m_buffer, m_readTail, k) = SubSeq(Contents, 1, k)
      /\ BlockAt(m_buffer, m_readTail, k) \in Seq(Byte)
    BY ReadOfContents
<1>2. /\ Called("peek", << >>, n, k > 0, BlockAt(m_buffer, m_readTail, k))
      /\ UNCHANGED <<m_buffer, m_writeHead, m_readTail>>
    BY DEF Peek
<1> HIDE DEF k
<1>3. Contents' = Contents
    BY <1>2 DEF Contents
<1>4. CallsTypeOK'
    <2>1. << >> \in Seq(Byte) /\ (k > 0) \in BOOLEAN
        OBVIOUS
    <2> QED BY <1>1, <1>2, <2>1 DEF CallsTypeOK, Called
<1>5. CallsFifo!Called("peek", << >>, n, k > 0, SubSeq(Contents, 1, k))
    BY <1>1, <1>2 DEF Called, CallsFifo!Called
<1> QED BY <1>1, <1>3, <1>4, <1>5 DEF CallsFifo!Peek

(* pop and peek of one byte are reads of a block of one byte. *)
LEMMA OneByteIsRead ==
    ASSUME CallsTypeOK
    PROVE  /\ PopByte => Pop(1)
           /\ PeekByte => Peek(1)
<1>0. getOccupiedSize \in Nat
    BY CallsContents
<1>1. m_readTail \in Index /\ CellOf(m_readTail, 0) = m_readTail
    BY BufferSizeAssumption DEF CallsTypeOK, CellOf, Index
<1>2. CASE getOccupiedSize = 0
    <2>1. SmallerOf(1, getOccupiedSize) = 0
        BY <1>2 DEF SmallerOf
    <2>2. BlockAt(m_buffer, m_readTail, 0) = << >>
        <3>1. 0 \in 0 .. BufferSize
            BY BufferSizeAssumption
        <3>2. /\ BlockAt(m_buffer, m_readTail, 0) \in Seq(Byte)
              /\ Len(BlockAt(m_buffer, m_readTail, 0)) = 0
            BY <3>1, BlockIsSequence DEF CallsTypeOK
        <3> QED BY <3>2
    <2>3. Wrap(m_readTail + 0) = m_readTail
        BY <1>1, WrapOfIndex
    <2>4. ~(0 > 0)
        OBVIOUS
    <2>5. (0 > 0) = FALSE
        BY <2>4
    <2>6. ASSUME PopByte PROVE Pop(1)
        <3>1. /\ Called("pop", << >>, 1, FALSE, << >>)
              /\ m_readTail' = m_readTail /\ UNCHANGED <<m_buffer, m_writeHead>>
            BY <1>2, <2>6 DEF PopByte
        <3> QED BY <2>1, <2>2, <2>3, <2>5, <3>1 DEF Pop, Called
    <2>7. ASSUME PeekByte PROVE Peek(1)
        <3>1. /\ Called("peek", << >>, 1, FALSE, << >>)
              /\ UNCHANGED <<m_buffer, m_writeHead, m_readTail>>
            BY <1>2, <2>7 DEF PeekByte
        <3> QED BY <2>1, <2>2, <2>5, <3>1 DEF Peek, Called
    <2> QED BY <2>6, <2>7
<1>3. CASE getOccupiedSize # 0
    <2>1. SmallerOf(1, getOccupiedSize) = 1
        BY <1>0, <1>3 DEF SmallerOf
    <2>2. BlockAt(m_buffer, m_readTail, 1) = <<m_buffer[m_readTail]>>
        <3>1. BlockAt(m_buffer, m_readTail, 1) = [i \in 1 .. 1 |-> m_buffer[CellOf(m_readTail, i - 1)]]
            BY DEF BlockAt
        <3>2. \A i \in 1 .. 1 : m_buffer[CellOf(m_readTail, i - 1)] = m_buffer[m_readTail]
            <4> SUFFICES ASSUME NEW i \in 1 .. 1 PROVE CellOf(m_readTail, i - 1) = m_readTail
                OBVIOUS
            <4>1. i - 1 = 0
                OBVIOUS
            <4> QED BY <1>1, <4>1
        <3> QED BY <3>1, <3>2
    <2>3. (1 > 0) = TRUE
        OBVIOUS
    <2>4. ASSUME PopByte PROVE Pop(1)
        <3>1. /\ Called("pop", << >>, 1, TRUE, <<m_buffer[m_readTail]>>)
              /\ m_readTail' = Wrap(m_readTail + 1) /\ UNCHANGED <<m_buffer, m_writeHead>>
            BY <1>3, <2>4 DEF PopByte
        <3> QED BY <2>1, <2>2, <2>3, <3>1 DEF Pop, Called
    <2>5. ASSUME PeekByte PROVE Peek(1)
        <3>1. /\ Called("peek", << >>, 1, TRUE, <<m_buffer[m_readTail]>>)
              /\ UNCHANGED <<m_buffer, m_writeHead, m_readTail>>
            BY <1>3, <2>5 DEF PeekByte
        <3> QED BY <2>1, <2>2, <2>3, <3>1 DEF Peek, Called
    <2> QED BY <2>4, <2>5
<1> QED BY <1>2, <1>3

LEMMA DropMapped ==
    ASSUME CallsTypeOK, NEW n \in Nat, Drop(n)
    PROVE  CallsTypeOK' /\ CallsFifo!Drop(n)
<1> DEFINE k == SmallerOf(n, getOccupiedSize)
<1>1. /\ k = CallsFifo!Shorter(n, Len(Contents))
      /\ Wrap(m_readTail + k) \in Index
      /\ WindowOf(m_buffer, m_writeHead, Wrap(m_readTail + k)) = CallsFifo!Without(Contents, k)
    BY ReadOfContents
<1>2. /\ m_readTail' = Wrap(m_readTail + k)
      /\ Called("drop", << >>, n, TRUE, << >>)
      /\ UNCHANGED <<m_buffer, m_writeHead>>
    BY DEF Drop
<1> HIDE DEF k
<1>3. Contents' = CallsFifo!Without(Contents, k)
    BY <1>1, <1>2 DEF Contents
<1>4. CallsTypeOK'
    <2>1. << >> \in Seq(Byte)
        OBVIOUS
    <2> QED BY <1>1, <1>2, <2>1 DEF CallsTypeOK, Called
<1> QED BY <1>1, <1>2, <1>3, <1>4 DEF CallsFifo!Drop, Called, CallsFifo!Called

LEMMA ClearMapped ==
    ASSUME CallsTypeOK, Clear
    PROVE  CallsTypeOK' /\ CallsFifo!Clear
<1>1. CallsTypeOK'
    <2>1. << >> \in Seq(Byte) /\ 0 \in Index
        BY BufferSizeAssumption DEF Index
    <2> QED BY <2>1 DEF CallsTypeOK, Clear, Called
<1>2. Contents' = << >>
    <2>1. Contents' = WindowOf(m_buffer, 0, 0)
        BY DEF Clear, Contents
    <2>2. 0 \in Index /\ OccupiedBetween(0, 0) = 0
        BY BufferSizeAssumption DEF Index, OccupiedBetween, Wrap
    <2>3. WindowOf(m_buffer, 0, 0) \in Seq(Byte) /\ Len(WindowOf(m_buffer, 0, 0)) = 0
        BY <2>2, WindowIsSequence DEF CallsTypeOK
    <2> QED BY <2>1, <2>3
<1> QED BY <1>1, <1>2 DEF Clear, Called, CallsFifo!Clear, CallsFifo!Called
-----------------------------------------------------------------------------
(* pushOverwrite *)

(* What the queue keeps when it is too long. *)
LEMMA FifoNewestIsLast ==
    ASSUME NEW s, NEW n
    PROVE  CallsFifo!Newest(s, n) = LastOf(s, n)
BY DEF CallsFifo!Newest, CallsFifo!Shorter, LastOf, SmallerOf

LEMMA PushOverwriteAllMapped ==
    ASSUME CallsTypeOK, NEW d \in Argument, PushOverwriteAll(d)
    PROVE  CallsTypeOK' /\ CallsFifo!PushOverwrite(d)
<1> DEFINE fitting == SubSeq(d, Len(d) - Capacity + 1, Len(d))
           head == Wrap(m_writeHead + Capacity)
<1>1. /\ d # << >> /\ Len(d) >= Capacity
      /\ m_buffer' = CopiedInto(m_buffer, m_writeHead, fitting)
      /\ m_writeHead' = head /\ m_readTail' = Wrap(head + 1)
      /\ Called("pushOverwrite", d, 0, TRUE, << >>)
    BY DEF PushOverwriteAll
<1>2. d \in Seq(Byte) /\ Capacity \in Nat /\ << >> \in Seq(Byte) /\ Len(d) \in Nat
    BY ArgumentAssumption, BufferSizeAssumption DEF Capacity
<1>3. fitting \in Seq(Byte) /\ Len(fitting) = Capacity
    <2> DEFINE m == Len(d) - Capacity + 1
    <2>1. m \in Int /\ \A i \in m .. Len(d) : d[i] \in Byte
        BY <1>1, <1>2
    <2>2. /\ SubSeq(d, m, Len(d)) \in Seq(Byte)
          /\ Len(SubSeq(d, m, Len(d))) = IF m <= Len(d) THEN Len(d) - m + 1 ELSE 0
        BY <1>2, <2>1, SubSeqProperties
    <2> QED BY <1>1, <1>2, <2>2
<1>4. m_buffer \in [Index -> Byte] /\ m_writeHead \in Index
    BY DEF CallsTypeOK
<1>5. head \in Index /\ Wrap(head + 1) = m_writeHead
      /\ OccupiedBetween(m_writeHead, m_writeHead) = 0
    BY <1>4, OverwriteAllIndexes
<1>6. CallsFifo!Newest(Contents \o d, Capacity) = fitting
    BY <1>1, <1>2, CallsContents, LastOfLong, FifoNewestIsLast
<1> HIDE DEF fitting, head
<1>7. /\ CopiedInto(m_buffer, m_writeHead, fitting) \in [Index -> Byte]
      /\ WindowOf(CopiedInto(m_buffer, m_writeHead, fitting), head, m_writeHead)
            = WindowOf(m_buffer, m_writeHead, m_writeHead) \o fitting
    <2>1. Len(fitting) <= Capacity - OccupiedBetween(m_writeHead, m_writeHead)
        BY <1>2, <1>3, <1>5
    <2>2. /\ CopiedInto(m_buffer, m_writeHead, fitting) \in [Index -> Byte]
          /\ WindowOf(CopiedInto(m_buffer, m_writeHead, fitting),
                      Wrap(m_writeHead + Len(fitting)), m_writeHead)
                = WindowOf(m_buffer, m_writeHead, m_writeHead) \o fitting
        BY <1>3, <1>4, <2>1, WindowAfterStore
    <2> QED BY <1>3, <2>2 DEF head
<1>8. WindowOf(m_buffer, m_writeHead, m_writeHead) \o fitting = fitting
    <2> DEFINE w == WindowOf(m_buffer, m_writeHead, m_writeHead)
    <2>1. w \in Seq(Byte) /\ Len(w) = 0
        BY <1>4, <1>5, WindowIsSequence, ZenonT(60)
    <2> HIDE DEF w
    <2>2. w = << >>
        BY <2>1
    <2>3. w \o fitting = fitting
        BY <1>3, <2>2, ConcatEmptySeq
    <2> QED BY <2>3 DEF w
<1>9. Contents' = fitting
    BY <1>1, <1>5, <1>7, <1>8 DEF Contents
<1>10. CallsTypeOK'
    BY <1>1, <1>2, <1>4, <1>5, <1>7 DEF CallsTypeOK, Called
<1> QED BY <1>1, <1>6, <1>9, <1>10 DEF CallsFifo!PushOverwrite, CallsFifo!Called, Called

LEMMA PushOverwriteSomeMapped ==
    ASSUME CallsTypeOK, NEW d \in Argument, PushOverwriteSome(d)
    PROVE  CallsTypeOK' /\ CallsFifo!PushOverwrite(d)
<1> DEFINE overflow == Len(d) - getFreeSize
           move == IF overflow > 0 THEN overflow ELSE 0
           tail == Wrap(m_readTail + move)
           kept == WindowOf(m_buffer, m_writeHead, tail)
<1>1. /\ d # << >> /\ Len(d) < Capacity
      /\ m_buffer' = CopiedInto(m_buffer, m_writeHead, d)
      /\ m_writeHead' = Wrap(m_writeHead + Len(d))
      /\ m_readTail' = IF overflow > 0 THEN Wrap(m_readTail + overflow) ELSE m_readTail
      /\ Called("pushOverwrite", d, 0, TRUE, << >>)
    BY DEF PushOverwriteSome
<1>2. /\ d \in Seq(Byte) /\ << >> \in Seq(Byte) /\ Len(d) \in Nat
      /\ Contents \in Seq(Byte) /\ Len(Contents) = getOccupiedSize
      /\ getOccupiedSize \in 0 .. Capacity /\ Capacity \in Nat
      /\ getFreeSize = Capacity - getOccupiedSize
    BY ArgumentAssumption, CallsContents DEF getFreeSize
<1>3. m_buffer \in [Index -> Byte] /\ m_writeHead \in Index /\ m_readTail \in Index
    BY DEF CallsTypeOK
<1>4. move \in 0 .. getOccupiedSize /\ Len(d) <= Capacity - (getOccupiedSize - move)
    BY <1>1, <1>2
<1>5. m_readTail' = tail
    BY <1>1, <1>3, WrapOfIndex
<1> HIDE DEF move, overflow
<1>6. tail \in Index /\ OccupiedBetween(m_writeHead, tail) = getOccupiedSize - move
    BY <1>3, <1>4, TailMoves DEF getOccupiedSize
<1>7. kept = SubSeq(Contents, move + 1, Len(Contents))
    <2>1. move \in 0 .. OccupiedBetween(m_writeHead, m_readTail)
        BY <1>4 DEF getOccupiedSize
    <2>2. kept = SubSeq(WindowOf(m_buffer, m_writeHead, m_readTail), move + 1,
                        Len(WindowOf(m_buffer, m_writeHead, m_readTail)))
        BY <1>3, <2>1, WindowAfterRemoval
    <2> QED BY <2>2 DEF Contents
<1> HIDE DEF tail
<1>8. /\ CopiedInto(m_buffer, m_writeHead, d) \in [Index -> Byte]
      /\ Wrap(m_writeHead + Len(d)) \in Index
      /\ WindowOf(CopiedInto(m_buffer, m_writeHead, d), Wrap(m_writeHead + Len(d)), tail)
            = kept \o d
    <2>1. Len(d) <= Capacity - OccupiedBetween(m_writeHead, tail)
        BY <1>4, <1>6
    <2> QED BY <1>2, <1>3, <1>6, <2>1, WindowAfterStore
<1> HIDE DEF kept
<1>9. kept \o d = CallsFifo!Newest(Contents \o d, Capacity)
    <2>1. CASE overflow > 0
        <3>1. /\ move = Len(Contents) + Len(d) - Capacity
              /\ Len(d) <= Capacity /\ Len(Contents) + Len(d) >= Capacity
            BY <1>1, <1>2, <2>1 DEF move, overflow
        <3>2. CallsFifo!Newest(Contents \o d, Capacity)
                = SubSeq(Contents, Len(Contents) + Len(d) - Capacity + 1, Len(Contents)) \o d
            BY <1>2, <3>1, LastOfShort, FifoNewestIsLast
        <3> QED BY <1>7, <3>1, <3>2
    <2>2. CASE ~(overflow > 0)
        <3>1. move = 0 /\ move + 1 = 1 /\ Len(Contents) + Len(d) <= Capacity
            BY <1>1, <1>2, <2>2 DEF move, overflow
        <3>2. kept = Contents
            BY <1>2, <1>7, <3>1, SubSeqFull
        <3>3. Contents \o d \in Seq(Byte) /\ Len(Contents \o d) <= Capacity
            BY <1>2, <3>1, ConcatProperties
        <3>4. CallsFifo!Newest(Contents \o d, Capacity) = Contents \o d
            BY <1>2, <3>3, LastOfAll, FifoNewestIsLast
        <3> QED BY <3>2, <3>4
    <2> QED BY <2>1, <2>2
<1>10. Contents' = CallsFifo!Newest(Contents \o d, Capacity)
    BY <1>1, <1>5, <1>8, <1>9 DEF Contents
<1>11. CallsTypeOK'
    BY <1>1, <1>2, <1>5, <1>6, <1>8 DEF CallsTypeOK, Called
<1> QED BY <1>1, <1>10, <1>11 DEF CallsFifo!PushOverwrite, CallsFifo!Called, Called

LEMMA PushOverwriteMapped ==
    ASSUME CallsTypeOK, NEW d \in Argument, PushOverwrite(d)
    PROVE  CallsTypeOK' /\ CallsFifo!PushOverwrite(d)
<1>1. CASE PushOverwriteNothing(d)
    <2>1. /\ d = << >> /\ UNCHANGED <<m_buffer, m_writeHead, m_readTail>>
          /\ Called("pushOverwrite", d, 0, FALSE, << >>)
        BY <1>1 DEF PushOverwriteNothing
    <2>2. << >> \in Seq(Byte)
        OBVIOUS
    <2>3. CallsTypeOK' /\ Contents' = Contents
        BY <2>1, <2>2 DEF CallsTypeOK, Contents, Called
    <2> QED BY <2>1, <2>3 DEF CallsFifo!PushOverwrite, CallsFifo!Called, Called
<1> QED BY <1>1, PushOverwriteAllMapped, PushOverwriteSomeMapped DEF PushOverwrite
-----------------------------------------------------------------------------
(* Every step of the ring buffer is a step of the queue. *)
LEMMA NextMapped ==
    CallsTypeOK /\ [CallsNext]_ringVars => CallsTypeOK' /\ [CallsFifo!Next]_(CallsFifo!fifoVars)
<1> SUFFICES ASSUME CallsTypeOK, [CallsNext]_ringVars
             PROVE  CallsTypeOK' /\ [CallsFifo!Next]_(CallsFifo!fifoVars)
    OBVIOUS
<1>1. ASSUME NEW d \in Argument, Push(d) PROVE CallsTypeOK' /\ CallsFifo!Next
    BY <1>1, PushMapped DEF CallsFifo!Next
<1>2. ASSUME NEW d \in Argument, PushOverwrite(d) PROVE CallsTypeOK' /\ CallsFifo!Next
    BY <1>2, PushOverwriteMapped DEF CallsFifo!Next
<1>3. ASSUME NEW b \in Byte, <<b>> \in Argument, PushByte(b) PROVE CallsTypeOK' /\ CallsFifo!Next
    <2>1. Push(<<b>>)
        BY <1>3, PushByteIsPush
    <2> QED BY <1>1, <1>3, <2>1
<1>4. ASSUME NEW n \in 0 .. MaxRead, Pop(n) PROVE CallsTypeOK' /\ CallsFifo!Next
    <2>1. n \in Nat
        BY MaxReadAssumption
    <2> QED BY <1>4, <2>1, PopMapped DEF CallsFifo!Next
<1>5. ASSUME NEW n \in 0 .. MaxRead, Peek(n) PROVE CallsTypeOK' /\ CallsFifo!Next
    <2>1. n \in Nat
        BY MaxReadAssumption
    <2> QED BY <1>5, <2>1, PeekMapped DEF CallsFifo!Next
<1>6. ASSUME NEW n \in 0 .. MaxRead, Drop(n) PROVE CallsTypeOK' /\ CallsFifo!Next
    <2>1. n \in Nat
        BY MaxReadAssumption
    <2> QED BY <1>6, <2>1, DropMapped DEF CallsFifo!Next
<1>7. ASSUME 1 <= MaxRead, PopByte \/ PeekByte PROVE CallsTypeOK' /\ CallsFifo!Next
    <2>1. 1 \in 0 .. MaxRead
        BY <1>7, MaxReadAssumption
    <2>2. Pop(1) \/ Peek(1)
        BY <1>7, OneByteIsRead
    <2> QED BY <1>4, <1>5, <2>1, <2>2
<1>8. CASE Clear
    BY <1>8, ClearMapped DEF CallsFifo!Next
<1>9. CASE UNCHANGED ringVars
    <2>1. CallsTypeOK' /\ Contents' = Contents /\ call' = call
        BY <1>9 DEF ringVars, CallsTypeOK, Contents
    <2> QED BY <2>1 DEF CallsFifo!fifoVars
<1> QED BY <1>1, <1>2, <1>3, <1>4, <1>5, <1>6, <1>7, <1>8, <1>9 DEF CallsNext

(* The indexes stay inside the array, and so does what is copied. *)
THEOREM CallsTypeCorrect == CallsSpec => []CallsTypeOK
BY InitMapped, NextMapped, PTL DEF CallsSpec

(* A caller that has the ring buffer to itself cannot tell it from a       *)
(* bounded queue: whatever it calls and wherever the bytes wrap around, no *)
(* byte is lost, repeated, reordered or invented.                          *)
THEOREM CallsAreAFifo == CallsSpec => CallsImplementFifo
<1>1. CallsSpec => []CallsTypeOK
    BY CallsTypeCorrect
<1>2. CallsInit => CallsFifo!Init
    BY InitMapped
<1>3. CallsTypeOK /\ [CallsNext]_ringVars => [CallsFifo!Next]_(CallsFifo!fifoVars)
    BY NextMapped
<1> QED BY <1>1, <1>2, <1>3, PTL DEF CallsSpec, CallsImplementFifo, CallsFifo!Spec
-----------------------------------------------------------------------------
(* Two contexts.                                                           *)

(* What the check of push leaves true until its last step: the consumer    *)
(* can only make more room.                                                *)
PushFits ==
    wdata # << >> => whead = m_writeHead /\ Len(wdata) <= getFreeSize

(* What the check of a read leaves true: the producer can only add bytes.  *)
ReadFits ==
    /\ rop = "none" => rsize = 0
    /\ rop # "none" => rtail = m_readTail /\ rsize <= getOccupiedSize

(* The bytes copied out so far are still the stored ones. *)
DestIsStored ==
    rop \in {"pop", "peek"} =>
        /\ Len(dest) <= rsize
        /\ \A i \in 1 .. Len(dest) : dest[i] = m_buffer[CellOf(m_readTail, i - 1)]

IInv == TypeOK /\ PushFits /\ ReadFits /\ DestIsStored

(* The sizes are numbers between 0 and Capacity. *)
LEMMA SizesAreNumbers ==
    ASSUME TypeOK
    PROVE  getOccupiedSize \in 0 .. Capacity /\ getFreeSize \in 0 .. Capacity
<1>1. getOccupiedSize \in 0 .. Capacity
    BY OccupiedIsBounded DEF TypeOK, getOccupiedSize
<1>2. Capacity \in Nat
    BY BufferSizeAssumption DEF Capacity
<1> QED BY <1>1, <1>2 DEF getFreeSize

LEMMA InitIInv == Init => IInv
<1> SUFFICES ASSUME Init PROVE IInv
    OBVIOUS
<1>1. TypeOK
    BY BufferSizeAssumption, ByteAssumption DEF Init, Empty, TypeOK, Index
<1>2. PushFits /\ ReadFits /\ DestIsStored
    BY DEF Init, Empty, PushFits, ReadFits, DestIsStored
<1> QED BY <1>1, <1>2 DEF IInv
-----------------------------------------------------------------------------
(* The producer's steps. *)

LEMMA StartPushIInv ==
    ASSUME IInv, NEW d \in Argument, StartPush(d)
    PROVE  IInv'
<1> USE DEF IInv, StartPush, shared, consumer
<1>1. d \in Seq(Byte)
    BY ArgumentAssumption
<1>2. TypeOK'
    BY <1>1 DEF TypeOK
<1>3. PushFits'
    BY DEF PushFits, getFreeSize, getOccupiedSize
<1>4. ReadFits' /\ DestIsStored'
    BY DEF ReadFits, DestIsStored, getOccupiedSize
<1> QED BY <1>2, <1>3, <1>4

(* A byte goes into a free cell: what a read has copied is not touched. *)
LEMMA CopyInIInv ==
    ASSUME IInv, CopyIn
    PROVE  IInv'
<1> USE DEF CopyIn, consumer
<1>0. wdone \in Nat /\ Len(wdata) \in Nat /\ wdata # << >>
    BY DEF IInv, TypeOK
<1>1. /\ whead = m_writeHead
      /\ wdone \in 0 .. Capacity - getOccupiedSize - 1
    <2>1. whead = m_writeHead /\ Len(wdata) <= getFreeSize
        BY <1>0 DEF IInv, PushFits
    <2>2. getOccupiedSize \in 0 .. Capacity /\ Capacity \in Nat
        BY SizesAreNumbers, BufferSizeAssumption DEF IInv, Capacity
    <2> QED BY <1>0, <2>1, <2>2 DEF getFreeSize
<1>2. CellOf(whead, wdone) \in Index
    <2>1. wdone \in 0 .. BufferSize - 1
        BY <1>0, <1>1, SizesAreNumbers, BufferSizeAssumption DEF IInv, Capacity
    <2> QED BY <2>1, CellIsIndex DEF IInv, TypeOK
<1>3. wdata[wdone + 1] \in Byte
    BY <1>0 DEF IInv, TypeOK
<1>4. TypeOK'
    BY <1>0, <1>2, <1>3 DEF IInv, TypeOK
<1>5. PushFits' /\ ReadFits'
    BY DEF IInv, PushFits, ReadFits, getFreeSize, getOccupiedSize
<1>6. DestIsStored'
    <2> SUFFICES ASSUME rop \in {"pop", "peek"}, NEW i \in 1 .. Len(dest)
                 PROVE  m_buffer'[CellOf(m_readTail, i - 1)] = m_buffer[CellOf(m_readTail, i - 1)]
        BY DEF IInv, DestIsStored
    <2>1. i - 1 \in 0 .. getOccupiedSize - 1
        <3>1. Len(dest) <= rsize /\ rsize <= getOccupiedSize
            BY DEF IInv, DestIsStored, ReadFits
        <3>2. Len(dest) \in Nat /\ rsize \in Nat /\ getOccupiedSize \in Nat
            BY SizesAreNumbers DEF IInv, TypeOK
        <3> QED BY <3>1, <3>2
    <2>2. CellOf(m_writeHead, wdone) # CellOf(m_readTail, i - 1)
        BY <1>1, <2>1, FreeCellIsNotStored DEF IInv, TypeOK, getOccupiedSize
    <2> QED BY <1>1, <2>2 DEF IInv, TypeOK
<1> QED BY <1>4, <1>5, <1>6 DEF IInv

LEMMA StoreHeadIInv ==
    ASSUME IInv, StoreHead
    PROVE  IInv'
<1> USE DEF StoreHead, consumer
<1>0. Len(wdata) \in 0 .. Capacity - getOccupiedSize /\ whead = m_writeHead
    <2>1. whead = m_writeHead /\ Len(wdata) <= getFreeSize /\ Len(wdata) \in Nat
        BY DEF IInv, PushFits, TypeOK
    <2>2. getOccupiedSize \in 0 .. Capacity /\ Capacity \in Nat
        BY SizesAreNumbers, BufferSizeAssumption DEF IInv, Capacity
    <2> QED BY <2>1, <2>2 DEF getFreeSize
<1>1. /\ m_writeHead' \in Index
      /\ getOccupiedSize' = getOccupiedSize + Len(wdata)
    BY <1>0, HeadMoves DEF IInv, TypeOK, getOccupiedSize
<1>2. TypeOK'
    BY <1>1, BufferSizeAssumption DEF IInv, TypeOK, Index
<1>3. PushFits'
    BY DEF PushFits
<1>4. ReadFits'
    <2>1. getOccupiedSize \in Nat /\ rsize \in Nat /\ Len(wdata) \in Nat
        BY SizesAreNumbers DEF IInv, TypeOK
    <2> QED BY <1>1, <2>1 DEF IInv, ReadFits
<1>5. DestIsStored'
    BY DEF IInv, DestIsStored
<1> QED BY <1>2, <1>3, <1>4, <1>5 DEF IInv
-----------------------------------------------------------------------------
(* The consumer's steps. *)

LEMMA StartReadIInv ==
    ASSUME IInv, NEW op \in {"pop", "peek", "drop"}, NEW n \in 1 .. MaxRead, StartRead(op, n)
    PROVE  IInv'
<1> USE DEF StartRead, shared, producer
<1>1. getOccupiedSize \in Nat /\ getOccupiedSize' = getOccupiedSize
    BY SizesAreNumbers DEF IInv, getOccupiedSize
<1>2. rsize' \in Nat /\ rsize' <= getOccupiedSize
    BY <1>1, MaxReadAssumption DEF SmallerOf
<1>3. TypeOK'
    BY <1>2 DEF IInv, TypeOK
<1>4. PushFits'
    BY <1>1 DEF IInv, PushFits, getFreeSize
<1>5. ReadFits'
    BY <1>1, <1>2 DEF ReadFits
<1>6. DestIsStored'
    BY <1>2 DEF DestIsStored
<1> QED BY <1>3, <1>4, <1>5, <1>6 DEF IInv

LEMMA CopyOutIInv ==
    ASSUME IInv, CopyOut
    PROVE  IInv'
<1> USE DEF CopyOut, shared, producer
<1>0. Len(dest) \in Nat /\ rsize \in Nat /\ dest \in Seq(Byte)
    BY DEF IInv, TypeOK
<1>1. rtail = m_readTail /\ rsize <= Capacity
    <2>1. rsize <= getOccupiedSize /\ rtail = m_readTail
        BY DEF IInv, ReadFits
    <2> QED BY <1>0, <2>1, SizesAreNumbers, BufferSizeAssumption DEF IInv, Capacity
<1>2. CellOf(rtail, Len(dest)) \in Index
    <2>1. Len(dest) \in 0 .. BufferSize - 1
        BY <1>0, <1>1, BufferSizeAssumption DEF Capacity
    <2> QED BY <2>1, CellIsIndex DEF IInv, TypeOK
<1> DEFINE byte == m_buffer[CellOf(rtail, Len(dest))]
<1>3. byte \in Byte
    BY <1>2 DEF IInv, TypeOK
<1>4. /\ dest' \in Seq(Byte)
      /\ Len(dest') = Len(dest) + 1
      /\ \A i \in 1 .. Len(dest) : dest'[i] = dest[i]
      /\ dest'[Len(dest) + 1] = byte
    BY <1>0, <1>3
<1>5. TypeOK'
    BY <1>4 DEF IInv, TypeOK
<1>6. PushFits' /\ ReadFits'
    BY DEF IInv, PushFits, ReadFits, getFreeSize, getOccupiedSize
<1>7. DestIsStored'
    <2> SUFFICES ASSUME NEW i \in 1 .. Len(dest) + 1
                 PROVE  dest'[i] = m_buffer[CellOf(m_readTail, i - 1)]
        BY <1>0, <1>4 DEF DestIsStored
    <2>1. CASE i = Len(dest) + 1
        BY <1>0, <1>1, <1>4, <2>1
    <2>2. CASE i \in 1 .. Len(dest)
        BY <1>4, <2>2 DEF IInv, DestIsStored
    <2> QED BY <1>0, <2>1, <2>2
<1> QED BY <1>5, <1>6, <1>7 DEF IInv

LEMMA StoreTailIInv ==
    ASSUME IInv, StoreTail
    PROVE  IInv'
<1> USE DEF StoreTail, producer
<1>0. rsize \in 0 .. getOccupiedSize /\ rtail = m_readTail
    BY SizesAreNumbers DEF IInv, ReadFits, TypeOK
<1>1. /\ m_readTail' \in Index
      /\ getOccupiedSize' = getOccupiedSize - rsize
    BY <1>0, TailMoves DEF IInv, TypeOK, getOccupiedSize
<1>2. TypeOK'
    BY <1>1, BufferSizeAssumption DEF IInv, TypeOK, Index
<1>3. PushFits'
    <2>1. getFreeSize' = getFreeSize + rsize
        BY <1>0, <1>1, SizesAreNumbers, BufferSizeAssumption DEF IInv, getFreeSize, Capacity
    <2> QED BY <1>0, <2>1, SizesAreNumbers DEF IInv, PushFits, TypeOK
<1>4. ReadFits' /\ DestIsStored'
    BY DEF ReadFits, DestIsStored
<1> QED BY <1>2, <1>3, <1>4 DEF IInv

LEMMA EndPeekIInv ==
    ASSUME IInv, EndPeek
    PROVE  IInv'
<1> USE DEF EndPeek, shared, producer
<1>1. TypeOK'
    BY BufferSizeAssumption DEF IInv, TypeOK, Index
<1>2. PushFits' /\ ReadFits' /\ DestIsStored'
    BY DEF IInv, PushFits, ReadFits, DestIsStored, getFreeSize, getOccupiedSize
<1> QED BY <1>1, <1>2 DEF IInv
-----------------------------------------------------------------------------
(* The invariant that the properties below follow from: every step of the  *)
(* producer and of the consumer keeps it.                                  *)
THEOREM Invariance == Spec => []IInv
<1>1. Init => IInv
    BY InitIInv
<1>2. IInv /\ [Next]_vars => IInv'
    <2> SUFFICES ASSUME IInv, [Next]_vars PROVE IInv'
        OBVIOUS
    <2>1. ASSUME NEW d \in Argument, StartPush(d) PROVE IInv'
        BY <2>1, StartPushIInv
    <2>2. CASE CopyIn
        BY <2>2, CopyInIInv
    <2>3. CASE StoreHead
        BY <2>3, StoreHeadIInv
    <2>4. ASSUME NEW op \in {"pop", "peek", "drop"}, NEW n \in 1 .. MaxRead, StartRead(op, n)
          PROVE  IInv'
        BY <2>4, StartReadIInv
    <2>5. CASE CopyOut
        BY <2>5, CopyOutIInv
    <2>6. CASE StoreTail
        BY <2>6, StoreTailIInv
    <2>7. CASE EndPeek
        BY <2>7, EndPeekIInv
    <2>8. CASE UNCHANGED vars
        BY <2>8 DEF vars, shared, producer, consumer, IInv, TypeOK, PushFits, ReadFits,
                    DestIsStored, getFreeSize, getOccupiedSize
    <2> QED BY <2>1, <2>2, <2>3, <2>4, <2>5, <2>6, <2>7, <2>8 DEF Next, Producer, Consumer
<1> QED BY <1>1, <1>2, PTL DEF Spec

(* The indexes stay inside the array and the sizes are sizes: no call ever *)
(* copies to or from beyond the end of m_buffer.                           *)
THEOREM TypeCorrect == Spec => []TypeOK
<1>1. IInv => TypeOK
    BY DEF IInv
<1> QED BY <1>1, Invariance, PTL

(* A push that fits writes free cells, and a read is of stored ones. *)
LEMMA NoOverlapHolds == IInv => NoOverlap
<1> SUFFICES ASSUME IInv,
                    NEW i \in 0 .. Len(wdata) - 1,
                    NEW j \in Nat,
                    \/ j < getOccupiedSize
                    \/ j < rsize
             PROVE  /\ j < getOccupiedSize => CellOf(whead, i) # CellOf(m_readTail, j)
                    /\ j < rsize => CellOf(whead, i) # CellOf(rtail, j)
    BY SizesAreNumbers DEF NoOverlap, CellsWritten, CellsReadable, IInv, TypeOK
<1>1. wdata # << >>
    BY DEF IInv, TypeOK
<1>2. whead = m_writeHead /\ i \in 0 .. Capacity - getOccupiedSize - 1
    <2>1. whead = m_writeHead /\ Len(wdata) <= getFreeSize /\ Len(wdata) \in Nat
        BY <1>1 DEF IInv, PushFits, TypeOK
    <2> QED BY <2>1, SizesAreNumbers, BufferSizeAssumption DEF IInv, getFreeSize, Capacity
<1>3. j < rsize => rtail = m_readTail /\ j < getOccupiedSize
    BY SizesAreNumbers DEF IInv, ReadFits, TypeOK
<1>4. j < getOccupiedSize => CellOf(m_writeHead, i) # CellOf(m_readTail, j)
    BY <1>2, SizesAreNumbers, FreeCellIsNotStored DEF IInv, TypeOK, getOccupiedSize
<1> QED BY <1>2, <1>3, <1>4

(* The two memcpys never meet: a push writes only cells that no reader can *)
(* be reading or may start to read.                                        *)
THEOREM MemcpysNeverMeet == Spec => []NoOverlap
<1>1. IInv => NoOverlap
    BY NoOverlapHolds
<1> QED BY <1>1, Invariance, PTL

(* What is stored is a sequence no longer than the capacity. *)
LEMMA ContentsIsSequence ==
    ASSUME TypeOK
    PROVE  /\ Contents \in Seq(Byte) /\ Len(Contents) = getOccupiedSize
           /\ getOccupiedSize \in 0 .. Capacity /\ Capacity \in Nat
           /\ BytesAt(m_buffer, m_readTail, Contents)
<1>1. /\ Contents \in Seq(Byte) /\ Len(Contents) = getOccupiedSize
      /\ BytesAt(m_buffer, m_readTail, Contents)
    BY WindowIsSequence DEF TypeOK, Contents, getOccupiedSize
<1>2. getOccupiedSize \in 0 .. Capacity /\ Capacity \in Nat
    BY OccupiedIsBounded, BufferSizeAssumption DEF TypeOK, getOccupiedSize, Capacity
<1> QED BY <1>1, <1>2

(* The bytes copied out so far are a prefix of what is stored. *)
LEMMA DestIsTheOldest ==
    ASSUME IInv, rop \in {"pop", "peek"}
    PROVE  dest = SubSeq(Contents, 1, Len(dest))
<1>1. /\ Contents \in Seq(Byte) /\ Len(Contents) = getOccupiedSize
      /\ getOccupiedSize \in 0 .. Capacity
      /\ BytesAt(m_buffer, m_readTail, Contents)
    BY ContentsIsSequence DEF IInv
<1>2. dest \in Seq(Byte) /\ Len(dest) \in 0 .. Len(Contents)
    BY <1>1 DEF IInv, ReadFits, TypeOK, DestIsStored
<1>3. /\ SubSeq(Contents, 1, Len(dest)) \in Seq(Byte)
      /\ Len(SubSeq(Contents, 1, Len(dest))) = Len(dest)
      /\ BytesAt(m_buffer, m_readTail, SubSeq(Contents, 1, Len(dest)))
    BY <1>1, <1>2, PrefixIsAt
<1>4. BytesAt(m_buffer, m_readTail, dest)
    <2> SUFFICES ASSUME NEW i \in 0 .. Len(dest) - 1
                 PROVE  m_buffer[CellOf(m_readTail, i)] = dest[i + 1]
        BY DEF BytesAt
    <2>1. i + 1 \in 1 .. Len(dest) /\ (i + 1) - 1 = i
        BY <1>2
    <2>2. \A k \in 1 .. Len(dest) : dest[k] = m_buffer[CellOf(m_readTail, k - 1)]
        BY DEF IInv, DestIsStored
    <2> QED BY <2>1, <2>2
<1> QED BY <1>2, <1>3, <1>4, BlockIsUnique

LEMMA ReadsHold == IInv => ReadsWhatIsStored
<1> SUFFICES ASSUME IInv PROVE ReadsWhatIsStored
    OBVIOUS
<1>1. rsize <= getOccupiedSize
    BY SizesAreNumbers DEF IInv, ReadFits, TypeOK
<1> QED BY <1>1, DestIsTheOldest DEF ReadsWhatIsStored

(* A read gets what it was promised when it began: as many bytes, and the  *)
(* oldest ones, in order, whatever the producer does meanwhile.            *)
THEOREM ReadsAreStable == Spec => []ReadsWhatIsStored
<1>1. IInv => ReadsWhatIsStored
    BY ReadsHold
<1> QED BY <1>1, Invariance, PTL
-----------------------------------------------------------------------------
(* The producer and the consumer together are a queue. *)

(* The bytes copied in so far are in their cells. *)
PushIsStored ==
    wdata # << >> => \A i \in 0 .. wdone - 1 : m_buffer[CellOf(whead, i)] = wdata[i + 1]

(* A pop or a peek under way takes something; drop copies nothing. *)
ReadIsReal ==
    /\ rop \in {"pop", "peek"} => rsize > 0
    /\ rop = "drop" => dest = << >>

FInv == IInv /\ PushIsStored /\ ReadIsReal

LEMMA InitFInv == Init => FInv /\ Fifo!Init
<1> SUFFICES ASSUME Init PROVE FInv /\ Fifo!Init
    OBVIOUS
<1>1. FInv
    BY InitIInv DEF Init, Empty, FInv, PushIsStored, ReadIsReal
<1>2. Contents = << >>
    <2>1. OccupiedBetween(m_writeHead, m_readTail) = 0
        BY BufferSizeAssumption DEF Init, Empty, OccupiedBetween, Wrap
    <2>2. Len(Contents) = 0 /\ Contents \in Seq(Byte)
        BY <1>1, <2>1, ContentsIsSequence DEF FInv, IInv, getOccupiedSize
    <2> QED BY <2>2
<1> QED BY <1>1, <1>2 DEF Init, Empty, Fifo!Init

LEMMA StartPushMapped ==
    ASSUME FInv, NEW d \in Argument, StartPush(d)
    PROVE  FInv' /\ Fifo!Next
<1>1. IInv'
    BY StartPushIInv DEF FInv
<1>2. PushIsStored' /\ ReadIsReal'
    BY DEF FInv, StartPush, consumer, PushIsStored, ReadIsReal
<1>3. Contents' = Contents
    BY DEF StartPush, shared, Contents
<1>4. Len(Contents) + Len(d) <= Capacity
    <2>1. d \in Seq(Byte)
        BY ArgumentAssumption
    <2> QED BY <2>1, ContentsIsSequence DEF FInv, IInv, StartPush, getFreeSize
<1>5. Fifo!Accept(d)
    BY <1>3, <1>4 DEF StartPush, consumer, Fifo!Accept
<1> QED BY <1>1, <1>2, <1>5 DEF FInv, Fifo!Next

(* A cell of a push under way is free. *)
LEMMA PushedCellIsFree ==
    ASSUME IInv, NEW i \in 0 .. Len(wdata) - 1
    PROVE  /\ whead = m_writeHead /\ i \in 0 .. BufferSize - 1
           /\ CellOf(whead, i) \in Index
           /\ \A j \in 0 .. getOccupiedSize - 1 : CellOf(whead, i) # CellOf(m_readTail, j)
<1>0. Len(wdata) \in Nat /\ wdata # << >>
    BY DEF IInv, TypeOK
<1>1. whead = m_writeHead /\ Len(wdata) <= Capacity - getOccupiedSize
    BY <1>0 DEF IInv, PushFits, getFreeSize
<1>2. getOccupiedSize \in 0 .. Capacity /\ Capacity = BufferSize - 1 /\ BufferSize \in Nat
    BY SizesAreNumbers, BufferSizeAssumption DEF IInv, Capacity
<1>3. i \in 0 .. BufferSize - 1 /\ i \in 0 .. Capacity - getOccupiedSize - 1
    BY <1>0, <1>1, <1>2
<1>4. m_writeHead \in Index /\ m_readTail \in Index
    BY DEF IInv, TypeOK
<1>5. \A j \in 0 .. getOccupiedSize - 1 : CellOf(m_writeHead, i) # CellOf(m_readTail, j)
    BY <1>3, <1>4, FreeCellIsNotStored DEF getOccupiedSize
<1>6. CellOf(m_writeHead, i) \in Index
    BY <1>3, <1>4, CellIsIndex
<1> QED BY <1>1, <1>3, <1>5, <1>6

LEMMA CopyInMapped ==
    ASSUME FInv, CopyIn
    PROVE  FInv' /\ UNCHANGED Fifo!fifoVars
<1>0. /\ wdone < Len(wdata)
      /\ m_buffer' = [m_buffer EXCEPT ![CellOf(whead, wdone)] = wdata[wdone + 1]]
      /\ wdone' = wdone + 1
      /\ UNCHANGED <<m_writeHead, m_readTail, wdata, whead, rop, rsize, rtail, dest>>
    BY DEF CopyIn, consumer
<1>1. IInv'
    BY CopyInIInv DEF FInv
<1>2. wdone \in 0 .. Len(wdata) - 1 /\ wdone \in Nat /\ Len(wdata) \in Nat
    BY <1>0 DEF FInv, IInv, TypeOK
<1>3. /\ whead = m_writeHead /\ CellOf(whead, wdone) \in Index
      /\ \A j \in 0 .. getOccupiedSize - 1 : CellOf(whead, wdone) # CellOf(m_readTail, j)
    BY <1>2, PushedCellIsFree DEF FInv
<1>4. PushIsStored'
    <2> SUFFICES ASSUME NEW i \in 0 .. wdone
                 PROVE  m_buffer'[CellOf(whead, i)] = wdata[i + 1]
        BY <1>0, <1>2 DEF PushIsStored
    <2>0. m_buffer \in [Index -> Byte]
        BY DEF FInv, IInv, TypeOK
    <2>1. CASE i = wdone
        BY <1>0, <1>3, <2>0, <2>1
    <2>2. CASE i # wdone
        <3>1. i \in 0 .. wdone - 1 /\ i \in 0 .. Len(wdata) - 1 /\ wdata # << >>
            BY <1>2, <2>2 DEF FInv, IInv, TypeOK
        <3>2. i \in 0 .. BufferSize - 1 /\ wdone \in 0 .. BufferSize - 1
              /\ CellOf(whead, i) \in Index /\ whead \in Index
            BY <1>2, <3>1, PushedCellIsFree DEF FInv, IInv, TypeOK
        <3>3. CellOf(whead, i) # CellOf(whead, wdone)
            BY <2>2, <3>2, CellsDiffer
        <3>4. m_buffer[CellOf(whead, i)] = wdata[i + 1]
            BY <3>1 DEF FInv, PushIsStored
        <3> QED BY <1>0, <2>0, <3>2, <3>3, <3>4
    <2> QED BY <2>1, <2>2
<1>5. ReadIsReal'
    BY <1>0 DEF FInv, ReadIsReal
<1>6. Contents' = Contents
    <2> DEFINE w == Contents
    <2>1. /\ w \in Seq(Byte) /\ Len(w) = getOccupiedSize /\ getOccupiedSize \in 0 .. Capacity
          /\ BytesAt(m_buffer, m_readTail, w)
        BY ContentsIsSequence DEF FInv, IInv
    <2>2. /\ Contents' \in Seq(Byte) /\ Len(Contents') = getOccupiedSize'
          /\ BytesAt(m_buffer', m_readTail', Contents')
        <3>1. TypeOK'
            BY <1>1 DEF IInv
        <3>2. /\ m_buffer' \in [Index -> Byte] /\ m_writeHead' \in Index /\ m_readTail' \in Index
            BY <3>1 DEF TypeOK
        <3> QED BY <3>2, WindowIsSequence DEF Contents, getOccupiedSize
    <2>3. getOccupiedSize' = getOccupiedSize
        BY <1>0 DEF getOccupiedSize
    <2> HIDE DEF w
    <2>4. BytesAt(m_buffer', m_readTail, w)
        <3>1. SameElsewhere(m_buffer', m_buffer, {CellOf(whead, wdone)})
            BY <1>0 DEF SameElsewhere, FInv, IInv, TypeOK
        <3>2. CellsFrom(m_readTail, Len(w)) \cap {CellOf(whead, wdone)} = {}
            BY <1>3, <2>1 DEF CellsFrom
        <3>3. Len(w) <= BufferSize /\ m_readTail \in Index
            BY <2>1, BufferSizeAssumption DEF Capacity, FInv, IInv, TypeOK
        <3> QED BY <2>1, <3>1, <3>2, <3>3, StoredIsKept
    <2>5. Contents' = w
        BY <1>0, <2>1, <2>2, <2>3, <2>4, BlockIsUnique
    <2> QED BY <2>5 DEF w
<1> QED BY <1>0, <1>1, <1>4, <1>5, <1>6 DEF FInv, Fifo!fifoVars

LEMMA StoreHeadMapped ==
    ASSUME FInv, StoreHead
    PROVE  FInv' /\ Fifo!Next
<1>0. /\ wdata # << >> /\ wdone = Len(wdata)
      /\ m_writeHead' = Wrap(whead + Len(wdata))
      /\ wdata' = << >> /\ whead' = 0 /\ wdone' = 0
      /\ UNCHANGED <<m_buffer, m_readTail, rop, rsize, rtail, dest>>
    BY DEF StoreHead, consumer
<1>1. IInv'
    BY StoreHeadIInv DEF FInv
<1>2. PushIsStored' /\ ReadIsReal'
    BY <1>0 DEF FInv, PushIsStored, ReadIsReal
<1>3. /\ Contents \in Seq(Byte) /\ Len(Contents) = getOccupiedSize
      /\ getOccupiedSize \in 0 .. Capacity
      /\ BytesAt(m_buffer, m_readTail, Contents)
    BY ContentsIsSequence DEF FInv, IInv
<1>4. /\ wdata \in Seq(Byte) /\ Len(wdata) <= Capacity - Len(Contents)
      /\ BytesAt(m_buffer, m_writeHead, wdata)
      /\ whead = m_writeHead
    BY <1>0, <1>3 DEF FInv, IInv, TypeOK, PushFits, PushIsStored, BytesAt, getFreeSize
<1>5. WindowOf(m_buffer, Wrap(m_writeHead + Len(wdata)), m_readTail) = Contents \o wdata
    <2>1. /\ m_buffer \in [Index -> Byte] /\ m_writeHead \in Index /\ m_readTail \in Index
          /\ Len(Contents) = OccupiedBetween(m_writeHead, m_readTail)
        BY <1>3 DEF FInv, IInv, TypeOK, getOccupiedSize
    <2> QED BY <1>3, <1>4, <2>1, WindowAfterHeadMoves
<1>6. Contents' = Contents \o wdata
    BY <1>0, <1>4, <1>5 DEF Contents
<1>7. Fifo!Commit
    BY <1>0, <1>6 DEF Fifo!Commit
<1> QED BY <1>1, <1>2, <1>7 DEF FInv, Fifo!Next

LEMMA StartReadMapped ==
    ASSUME FInv, NEW op \in {"pop", "peek", "drop"}, NEW n \in 1 .. MaxRead, StartRead(op, n)
    PROVE  FInv' /\ Fifo!Next
<1>0. /\ rop = "none" /\ (op # "drop" => getOccupiedSize > 0)
      /\ rop' = op /\ rsize' = SmallerOf(n, getOccupiedSize) /\ dest' = << >>
      /\ UNCHANGED <<m_buffer, m_writeHead, m_readTail, wdata, whead, wdone>>
    BY DEF StartRead, shared, producer
<1>1. IInv'
    BY StartReadIInv DEF FInv
<1>2. /\ Contents \in Seq(Byte) /\ Len(Contents) = getOccupiedSize
      /\ getOccupiedSize \in 0 .. Capacity /\ Capacity \in Nat
    BY ContentsIsSequence, BufferSizeAssumption DEF FInv, IInv, Capacity
<1>3. Contents' = Contents
    BY <1>0 DEF Contents
<1>4. rsize = 0
    BY <1>0 DEF FInv, IInv, ReadFits
<1>5. CASE getOccupiedSize > 0
    <2>1. rsize' > 0 /\ rsize' = Fifo!Shorter(n, Len(Contents)) /\ Contents # << >>
        BY <1>0, <1>2, <1>5, MaxReadAssumption DEF SmallerOf, Fifo!Shorter
    <2>2. PushIsStored' /\ ReadIsReal'
        BY <1>0, <2>1 DEF FInv, PushIsStored, ReadIsReal
    <2>3. Fifo!Ask(n)
        BY <1>0, <1>3, <1>4, <2>1 DEF Fifo!Ask
    <2> QED BY <1>1, <2>2, <2>3 DEF FInv, Fifo!Next
<1>6. CASE getOccupiedSize = 0
    <2>1. rsize' = 0 /\ Contents = << >> /\ op = "drop"
        BY <1>0, <1>2, <1>6, MaxReadAssumption DEF SmallerOf
    <2>2. PushIsStored' /\ ReadIsReal'
        BY <1>0, <2>1 DEF FInv, PushIsStored, ReadIsReal
    <2>3. Fifo!AskInVain
        BY <1>0, <1>3, <1>4, <2>1 DEF Fifo!AskInVain
    <2> QED BY <1>1, <2>2, <2>3 DEF FInv, Fifo!Next
<1> QED BY <1>2, <1>5, <1>6

LEMMA CopyOutMapped ==
    ASSUME FInv, CopyOut
    PROVE  FInv' /\ UNCHANGED Fifo!fifoVars
<1>0. /\ rop \in {"pop", "peek"}
      /\ UNCHANGED <<m_buffer, m_writeHead, m_readTail, wdata, whead, wdone, rop, rsize>>
    BY DEF CopyOut, shared, producer
<1>1. IInv'
    BY CopyOutIInv DEF FInv
<1>2. PushIsStored' /\ ReadIsReal'
    BY <1>0 DEF FInv, PushIsStored, ReadIsReal
<1> QED BY <1>0, <1>1, <1>2 DEF FInv, Fifo!fifoVars, Contents

LEMMA StoreTailMapped ==
    ASSUME FInv, StoreTail
    PROVE  FInv' /\ [Fifo!Next]_(Fifo!fifoVars)
<1>0. /\ rop \in {"pop", "drop"} /\ (rop = "pop" => Len(dest) = rsize)
      /\ m_readTail' = Wrap(rtail + rsize)
      /\ rop' = "none" /\ rsize' = 0
      /\ UNCHANGED <<m_buffer, m_writeHead, wdata, whead, wdone, dest>>
    BY DEF StoreTail, producer
<1>1. IInv'
    BY StoreTailIInv DEF FInv
<1>2. PushIsStored' /\ ReadIsReal'
    BY <1>0 DEF FInv, PushIsStored, ReadIsReal
<1>3. rtail = m_readTail /\ rsize \in 0 .. OccupiedBetween(m_writeHead, m_readTail)
    BY <1>0, SizesAreNumbers DEF FInv, IInv, ReadFits, TypeOK, getOccupiedSize
<1>4. Contents' = SubSeq(Contents, rsize + 1, Len(Contents))
    <2>1. m_buffer \in [Index -> Byte] /\ m_writeHead \in Index /\ m_readTail \in Index
        BY DEF FInv, IInv, TypeOK
    <2>2. WindowOf(m_buffer, m_writeHead, Wrap(m_readTail + rsize))
             = SubSeq(WindowOf(m_buffer, m_writeHead, m_readTail), rsize + 1,
                      Len(WindowOf(m_buffer, m_writeHead, m_readTail)))
        BY <1>3, <2>1, WindowAfterRemoval
    <2> QED BY <1>0, <1>3, <2>2 DEF Contents
<1>5. CASE rop = "pop"
    <2>1. dest = SubSeq(Contents, 1, rsize)
        BY <1>0, <1>5, DestIsTheOldest DEF FInv
    <2>2. rsize > 0
        BY <1>5 DEF FInv, ReadIsReal
    <2>3. Fifo!Take
        BY <1>0, <1>4, <2>1, <2>2 DEF Fifo!Take
    <2> QED BY <1>1, <1>2, <2>3 DEF FInv, Fifo!Next
<1>6. CASE rop = "drop"
    <2>1. dest = << >>
        BY <1>6 DEF FInv, ReadIsReal
    <2>2. CASE rsize > 0
        <3>1. Fifo!Skip
            BY <1>0, <1>4, <1>6, <2>1, <2>2 DEF Fifo!Skip
        <3> QED BY <1>1, <1>2, <3>1 DEF FInv, Fifo!Next
    <2>3. CASE rsize = 0
        <3>1. Contents' = Contents
            <4>1. Contents \in Seq(Byte)
                BY ContentsIsSequence DEF FInv, IInv
            <4>2. SubSeq(Contents, 1, Len(Contents)) = Contents
                BY <4>1, SubSeqFull
            <4> QED BY <1>4, <2>3, <4>2
        <3> QED BY <1>0, <1>1, <1>2, <1>6, <2>1, <2>3, <3>1 DEF FInv, Fifo!fifoVars
    <2> QED BY <1>3, <2>2, <2>3
<1> QED BY <1>0, <1>5, <1>6

LEMMA EndPeekMapped ==
    ASSUME FInv, EndPeek
    PROVE  FInv' /\ Fifo!Next
<1>0. /\ rop = "peek" /\ Len(dest) = rsize
      /\ rop' = "none" /\ rsize' = 0
      /\ UNCHANGED <<m_buffer, m_writeHead, m_readTail, wdata, whead, wdone, dest>>
    BY DEF EndPeek, shared, producer
<1>1. IInv'
    BY EndPeekIInv DEF FInv
<1>2. PushIsStored' /\ ReadIsReal'
    BY <1>0 DEF FInv, PushIsStored, ReadIsReal
<1>3. rsize > 0 /\ dest = SubSeq(Contents, 1, rsize) /\ Contents' = Contents
    BY <1>0, DestIsTheOldest DEF FInv, ReadIsReal, Contents
<1>4. Fifo!Look
    BY <1>0, <1>3 DEF Fifo!Look
<1> QED BY <1>1, <1>2, <1>4 DEF FInv, Fifo!Next

(* Every step of the two is a step of the queue or none. *)
LEMMA StepMapped ==
    ASSUME FInv, Producer \/ Consumer
    PROVE  FInv' /\ [Fifo!Next]_(Fifo!fifoVars)
<1>1. ASSUME NEW d \in Argument, StartPush(d) PROVE FInv' /\ Fifo!Next
    BY <1>1, StartPushMapped
<1>2. CASE CopyIn
    BY <1>2, CopyInMapped
<1>3. CASE StoreHead
    BY <1>3, StoreHeadMapped
<1>4. ASSUME NEW op \in {"pop", "peek", "drop"}, NEW n \in 1 .. MaxRead, StartRead(op, n)
      PROVE  FInv' /\ Fifo!Next
    BY <1>4, StartReadMapped
<1>5. CASE CopyOut
    BY <1>5, CopyOutMapped
<1>6. CASE StoreTail
    BY <1>6, StoreTailMapped
<1>7. CASE EndPeek
    BY <1>7, EndPeekMapped
<1> QED BY <1>1, <1>2, <1>3, <1>4, <1>5, <1>6, <1>7 DEF Producer, Consumer

(* Whatever the order in which the producer and the consumer preempt each  *)
(* other, the consumer receives the accepted bytes, all of them, once, and *)
(* in the order in which they were pushed.                                 *)
THEOREM IsAFifo == Spec => ImplementsFifo
<1>1. Init => FInv /\ Fifo!Init
    BY InitFInv
<1>2. FInv /\ [Next]_vars => FInv' /\ [Fifo!Next]_(Fifo!fifoVars)
    <2> SUFFICES ASSUME FInv, [Next]_vars PROVE FInv' /\ [Fifo!Next]_(Fifo!fifoVars)
        OBVIOUS
    <2>1. CASE Next
        BY <2>1, StepMapped DEF Next
    <2>2. CASE UNCHANGED vars
        BY <2>2 DEF vars, shared, producer, consumer, FInv, IInv, TypeOK, PushFits, ReadFits,
                    DestIsStored, getFreeSize, getOccupiedSize, PushIsStored, ReadIsReal,
                    Fifo!fifoVars, Contents
    <2> QED BY <2>1, <2>2
<1> QED BY <1>1, <1>2, PTL DEF Spec, ImplementsFifo, Fifo!Spec
-----------------------------------------------------------------------------
(* The types of the overwriter's locals, and the sizes of the three blocks *)
(* that are copied: these alone keep the indexes inside the array.         *)
OverwriterTyped ==
    /\ ostage \in {"none", "measured", "copy1", "copy2", "tail1", "head2"}
    /\ odata \in Seq(Byte) /\ Len(odata) <= Capacity
    /\ ohead \in Index /\ ooverflow \in 0 .. Capacity /\ otail \in Index
    /\ odone \in Nat /\ intended \in Seq(Byte)
    /\ overwrites \in Usage

BlocksFit == Len(wdata) <= Capacity /\ rsize <= Capacity

(* A producer does one thing at a time; a read is kept apart from it. *)
CallsApart ==
    /\ ostage # "none" => wdata = << >>
    /\ overwrites = "never" => ostage = "none"
    /\ overwrites = "exclusive" /\ ostage # "none" => rop = "none"

AnyInv == TypeOK /\ OverwriterTyped /\ BlocksFit /\ CallsApart

(* What pushOverwrite knows after its check. *)
MeasuredIsTrue ==
    ostage = "measured" =>
        /\ ohead = m_writeHead
        /\ Len(odata) \in 1 .. Capacity - 1
        /\ ooverflow = IF Len(odata) > getFreeSize THEN Len(odata) - getFreeSize ELSE 0
        /\ intended = Contents \o odata

(* What will be stored in the end are the bytes between the tail and the   *)
(* head that the call has computed, which are not touched by the copying,  *)
(* and then its own: the newest of those intended.                         *)
OverwriteFits ==
    ostage \in {"copy1", "copy2", "tail1", "head2"} =>
        /\ Len(odata) <= Capacity - OccupiedBetween(ohead, otail)
        /\ NewestOf(intended, Capacity) = WindowOf(m_buffer, ohead, otail) \o odata
        /\ odone <= Len(odata)
        /\ \A i \in 0 .. odone - 1 : m_buffer[CellOf(ohead, i)] = odata[i + 1]

(* How far the stores of the two indexes are. *)
StoresInOrder ==
    /\ ostage \in {"copy1", "copy2", "head2"} => ohead = m_writeHead
    /\ ostage \in {"copy1", "tail1"} => Len(odata) = Capacity
    /\ ostage = "tail1" => m_writeHead = Wrap(ohead + Capacity)
    /\ ostage \in {"tail1", "head2"} => odone = Len(odata)
    /\ ostage = "copy2" /\ ooverflow = 0 => otail = m_readTail
    /\ ostage = "head2" => otail = m_readTail

CallInv == MeasuredIsTrue /\ OverwriteFits /\ StoresInOrder

ApartInv == FInv /\ CallInv

OInv == AnyInv /\ (overwrites # "preempting" => ApartInv)
-----------------------------------------------------------------------------
(* What is inductive however pushOverwrite is called. *)

LEMMA InitOInv == OverwriteInit => OInv
<1> SUFFICES ASSUME OverwriteInit PROVE OInv
    OBVIOUS
<1>1. FInv
    BY InitFInv DEF OverwriteInit
<1>2. 0 \in Index /\ Capacity \in Nat /\ << >> \in Seq(Byte) /\ Len(<< >>) = 0
    BY BufferSizeAssumption DEF Index, Capacity
<1>3. AnyInv
    <2>1. OverwriterTyped
        BY <1>2 DEF OverwriteInit, OverwriterTyped
    <2>2. BlocksFit /\ CallsApart
        BY <1>2 DEF OverwriteInit, Init, Empty, BlocksFit, CallsApart
    <2> QED BY <1>1, <2>1, <2>2 DEF AnyInv, FInv, IInv
<1>4. MeasuredIsTrue /\ OverwriteFits /\ StoresInOrder
    BY DEF OverwriteInit, MeasuredIsTrue, OverwriteFits, StoresInOrder
<1> QED BY <1>1, <1>3, <1>4 DEF OInv, ApartInv, CallInv

(* A cell that is written or read while a block is copied is in the array. *)
LEMMA CopiedCellIsIndex ==
    ASSUME NEW start \in Index, NEW size \in Nat, size <= Capacity, NEW i \in Nat, i < size
    PROVE  CellOf(start, i) \in Index
<1>1. i \in 0 .. BufferSize - 1
    BY BufferSizeAssumption DEF Capacity
<1> QED BY <1>1, CellIsIndex

(* An index that moves over a block stays in the array. *)
LEMMA MovedIndexIsIndex ==
    ASSUME NEW start \in Index, NEW size \in Nat, size <= Capacity
    PROVE  Wrap(start + size) \in Index
<1>1. start + size \in Int /\ -BufferSize <= start + size /\ start + size < 2 * BufferSize
    BY BufferSizeAssumption DEF Index, Capacity
<1> QED BY <1>1, WrapIsIndex

LEMMA ProducerAny ==
    ASSUME AnyInv, ostage = "none", Producer, UNCHANGED <<overwriter, overwrites>>
    PROVE  AnyInv'
<1> USE DEF overwriter
<1>0. TypeOK /\ BlocksFit /\ CallsApart
    BY DEF AnyInv
<1>1. OverwriterTyped' /\ CallsApart'
    BY DEF AnyInv, OverwriterTyped, CallsApart, Producer, StartPush, CopyIn, StoreHead, consumer
<1>2. TypeOK' /\ BlocksFit'
    <2>1. ASSUME NEW d \in Argument, StartPush(d) PROVE TypeOK' /\ BlocksFit'
        <3>1. d \in Seq(Byte) /\ Len(d) <= Capacity
            BY <1>0, <2>1, SizesAreNumbers, ArgumentAssumption, BufferSizeAssumption
            DEF StartPush, getFreeSize, Capacity
        <3> QED BY <1>0, <2>1, <3>1 DEF StartPush, shared, consumer, TypeOK, BlocksFit
    <2>2. CASE CopyIn
        <3>1. wdone \in Nat /\ Len(wdata) \in Nat /\ wdata[wdone + 1] \in Byte
            BY <1>0, <2>2 DEF CopyIn, TypeOK
        <3>2. CellOf(whead, wdone) \in Index
            BY <1>0, <2>2, <3>1, CopiedCellIsIndex DEF CopyIn, TypeOK, BlocksFit
        <3> QED BY <1>0, <2>2, <3>1, <3>2 DEF CopyIn, consumer, TypeOK, BlocksFit
    <2>3. CASE StoreHead
        <3>1. Wrap(whead + Len(wdata)) \in Index
            BY <1>0, MovedIndexIsIndex DEF TypeOK, BlocksFit
        <3>2. 0 \in Index /\ << >> \in Seq(Byte) /\ Len(<< >>) = 0 /\ Capacity \in Nat
            BY BufferSizeAssumption DEF Index, Capacity
        <3> QED BY <1>0, <2>3, <3>1, <3>2 DEF StoreHead, consumer, TypeOK, BlocksFit
    <2> QED BY <2>1, <2>2, <2>3 DEF Producer
<1> QED BY <1>1, <1>2 DEF AnyInv

LEMMA ConsumerAny ==
    ASSUME AnyInv, overwrites = "exclusive" => ostage = "none",
           Consumer, UNCHANGED <<overwriter, overwrites>>
    PROVE  AnyInv'
<1> USE DEF overwriter
<1>0. TypeOK /\ BlocksFit /\ CallsApart
    BY DEF AnyInv
<1>1. OverwriterTyped' /\ CallsApart'
    BY DEF AnyInv, OverwriterTyped, CallsApart, Consumer, StartRead, CopyOut, StoreTail, EndPeek,
           producer
<1>2. TypeOK' /\ BlocksFit'
    <2>1. ASSUME NEW op \in {"pop", "peek", "drop"}, NEW n \in 1 .. MaxRead, StartRead(op, n)
          PROVE  TypeOK' /\ BlocksFit'
        <3>0. getOccupiedSize \in 0 .. Capacity /\ Capacity \in Nat /\ n \in Nat
            BY <1>0, SizesAreNumbers, MaxReadAssumption, BufferSizeAssumption DEF Capacity
        <3>1. rsize' \in Nat /\ rsize' <= Capacity
            BY <2>1, <3>0 DEF StartRead, SmallerOf
        <3> QED BY <1>0, <2>1, <3>1 DEF StartRead, shared, producer, TypeOK, BlocksFit
    <2>2. CASE CopyOut
        <3>0. /\ Len(dest) \in Nat /\ rsize \in Nat /\ Len(dest) < rsize /\ rsize <= Capacity
              /\ rtail \in Index
            BY <1>0, <2>2 DEF CopyOut, TypeOK, BlocksFit
        <3>1. CellOf(rtail, Len(dest)) \in Index
            BY <3>0, CopiedCellIsIndex
        <3>2. m_buffer[CellOf(rtail, Len(dest))] \in Byte
            BY <1>0, <3>1 DEF TypeOK
        <3>3. dest' \in Seq(Byte)
            BY <1>0, <2>2, <3>2 DEF CopyOut, TypeOK
        <3> QED BY <1>0, <2>2, <3>3 DEF CopyOut, shared, producer, TypeOK, BlocksFit
    <2>3. CASE StoreTail
        <3>1. Wrap(rtail + rsize) \in Index
            BY <1>0, MovedIndexIsIndex DEF TypeOK, BlocksFit
        <3>2. 0 \in Index /\ 0 <= Capacity
            BY BufferSizeAssumption DEF Index, Capacity
        <3> QED BY <1>0, <2>3, <3>1, <3>2 DEF StoreTail, producer, TypeOK, BlocksFit
    <2>4. CASE EndPeek
        <3>1. 0 \in Index /\ 0 <= Capacity
            BY BufferSizeAssumption DEF Index, Capacity
        <3> QED BY <1>0, <2>4, <3>1 DEF EndPeek, shared, producer, TypeOK, BlocksFit
    <2> QED BY <2>1, <2>2, <2>3, <2>4 DEF Consumer
<1> QED BY <1>1, <1>2 DEF AnyInv

(* What pushOverwrite takes of a block is never more than has a place. *)
LEMMA NewestIsLast ==
    ASSUME NEW s, NEW n
    PROVE  NewestOf(s, n) = LastOf(s, n)
BY DEF NewestOf, LastOf

LEMMA NewestFits ==
    ASSUME NEW d \in Seq(Byte), Len(d) >= Capacity
    PROVE  /\ NewestOf(d, Capacity) \in Seq(Byte)
           /\ Len(NewestOf(d, Capacity)) = Capacity
<1>0. Capacity \in Nat /\ Len(d) \in Nat
    BY BufferSizeAssumption DEF Capacity
<1> DEFINE m == Len(d) - Capacity + 1
<1>1. NewestOf(d, Capacity) = SubSeq(d, m, Len(d))
    <2>1. SmallerOf(Capacity, Len(d)) = Capacity
        BY <1>0 DEF SmallerOf
    <2> QED BY <2>1 DEF NewestOf
<1>2. m \in Int /\ \A i \in m .. Len(d) : d[i] \in Byte
    BY <1>0
<1>3. /\ SubSeq(d, m, Len(d)) \in Seq(Byte)
      /\ Len(SubSeq(d, m, Len(d))) = IF m <= Len(d) THEN Len(d) - m + 1 ELSE 0
    BY <1>0, <1>2, SubSeqProperties
<1> QED BY <1>0, <1>1, <1>3

LEMMA OverwriterAny ==
    ASSUME AnyInv, Overwriter, UNCHANGED overwrites
    PROVE  AnyInv'
<1>0. TypeOK /\ OverwriterTyped /\ BlocksFit /\ CallsApart
    BY DEF AnyInv
<1> USE DEF vars, shared, producer, consumer
<1>1. ASSUME NEW d \in Argument, StartOverwriteAll(d) PROVE AnyInv'
    <2>1. d \in Seq(Byte) /\ Contents \in Seq(Byte) /\ Contents \o d \in Seq(Byte)
        BY <1>0, ContentsIsSequence, ArgumentAssumption, ConcatProperties
    <2>2. odata' \in Seq(Byte) /\ Len(odata') <= Capacity
        BY <1>1, <2>1, NewestFits, BufferSizeAssumption DEF StartOverwriteAll, Capacity
    <2>3. Wrap(Wrap(m_writeHead + Capacity) + 1) \in Index
        <3>1. Capacity \in Nat /\ Capacity <= Capacity /\ 1 <= Capacity
            BY BufferSizeAssumption DEF Capacity
        <3>2. Wrap(m_writeHead + Capacity) \in Index
            BY <1>0, <3>1, MovedIndexIsIndex DEF TypeOK
        <3> QED BY <3>1, <3>2, MovedIndexIsIndex
    <2>4. OverwriterTyped'
        BY <1>0, <1>1, <2>1, <2>2, <2>3 DEF OverwriterTyped, StartOverwriteAll, TypeOK
    <2>5. TypeOK' /\ BlocksFit'
        BY <1>0, <1>1 DEF StartOverwriteAll, TypeOK, BlocksFit
    <2>6. CallsApart'
        BY <1>0, <1>1 DEF StartOverwriteAll, MayStartOverwrite, CallsApart
    <2> QED BY <2>4, <2>5, <2>6 DEF AnyInv
<1>2. ASSUME NEW d \in Argument, MeasureOverwriteSome(d) PROVE AnyInv'
    <2>1. d \in Seq(Byte) /\ Contents \in Seq(Byte) /\ Contents \o d \in Seq(Byte)
        BY <1>0, ContentsIsSequence, ArgumentAssumption, ConcatProperties
    <2>2. ooverflow' \in 0 .. Capacity /\ Len(d) <= Capacity
        BY <1>0, <1>2, <2>1, SizesAreNumbers, BufferSizeAssumption
        DEF MeasureOverwriteSome, Capacity
    <2>3. OverwriterTyped'
        BY <1>0, <1>2, <2>1, <2>2 DEF OverwriterTyped, MeasureOverwriteSome, TypeOK
    <2>4. TypeOK' /\ BlocksFit'
        BY <1>0, <1>2 DEF MeasureOverwriteSome, TypeOK, BlocksFit
    <2>5. CallsApart'
        BY <1>0, <1>2 DEF MeasureOverwriteSome, MayStartOverwrite, CallsApart
    <2> QED BY <2>3, <2>4, <2>5 DEF AnyInv
<1>3. CASE StartOverwriteSome
    <2>1. Wrap(m_readTail + ooverflow) \in Index
        BY <1>0, MovedIndexIsIndex, BufferSizeAssumption DEF OverwriterTyped, TypeOK, Capacity
    <2>2. OverwriterTyped'
        BY <1>0, <1>3, <2>1 DEF OverwriterTyped, StartOverwriteSome
    <2>3. TypeOK' /\ BlocksFit' /\ CallsApart'
        BY <1>0, <1>3 DEF StartOverwriteSome, TypeOK, BlocksFit, CallsApart
    <2> QED BY <2>2, <2>3 DEF AnyInv
<1>4. CASE OverwriteCopyIn
    <2>1. odone \in Nat /\ Len(odata) \in Nat /\ odata[odone + 1] \in Byte
        BY <1>0, <1>4 DEF OverwriteCopyIn, OverwriterTyped
    <2>2. CellOf(ohead, odone) \in Index
        BY <1>0, <1>4, <2>1, CopiedCellIsIndex DEF OverwriteCopyIn, OverwriterTyped
    <2>3. OverwriterTyped'
        BY <1>0, <1>4 DEF OverwriterTyped, OverwriteCopyIn
    <2>4. TypeOK' /\ BlocksFit' /\ CallsApart'
        BY <1>0, <1>4, <2>1, <2>2 DEF OverwriteCopyIn, TypeOK, BlocksFit, CallsApart
    <2> QED BY <2>3, <2>4 DEF AnyInv
<1>5. CASE StoreHead1
    <2>1. Wrap(ohead + Capacity) \in Index
        <3>1. Capacity \in Nat /\ Capacity <= Capacity
            BY BufferSizeAssumption DEF Capacity
        <3> QED BY <1>0, <3>1, MovedIndexIsIndex DEF OverwriterTyped
    <2>2. OverwriterTyped'
        BY <1>0, <1>5 DEF OverwriterTyped, StoreHead1
    <2>3. TypeOK' /\ BlocksFit' /\ CallsApart'
        BY <1>0, <1>5, <2>1 DEF StoreHead1, TypeOK, BlocksFit, CallsApart
    <2> QED BY <2>2, <2>3 DEF AnyInv
<1>6. OverwriteEnds /\ UNCHANGED overwrites => OverwriterTyped'
    <2>1. 0 \in Index /\ Capacity \in Nat /\ << >> \in Seq(Byte) /\ Len(<< >>) = 0
        BY BufferSizeAssumption DEF Index, Capacity
    <2> QED BY <1>0, <2>1 DEF OverwriteEnds, OverwriterTyped
<1>7. CASE StoreTail1
    <2>1. TypeOK' /\ BlocksFit' /\ CallsApart'
        BY <1>0, <1>7
        DEF StoreTail1, OverwriteEnds, OverwriterTyped, TypeOK, BlocksFit, CallsApart
    <2> QED BY <1>6, <1>7, <2>1 DEF AnyInv, StoreTail1
<1>8. CASE StoreTail2
    <2>1. OverwriterTyped'
        BY <1>0, <1>8 DEF OverwriterTyped, StoreTail2
    <2>2. TypeOK' /\ BlocksFit' /\ CallsApart'
        BY <1>0, <1>8 DEF StoreTail2, OverwriterTyped, TypeOK, BlocksFit, CallsApart
    <2> QED BY <2>1, <2>2 DEF AnyInv
<1>9. CASE StoreHead2
    <2>1. Wrap(ohead + Len(odata)) \in Index
        BY <1>0, MovedIndexIsIndex DEF OverwriterTyped
    <2>2. TypeOK' /\ BlocksFit' /\ CallsApart'
        BY <1>0, <1>9, <2>1 DEF StoreHead2, OverwriteEnds, TypeOK, BlocksFit, CallsApart
    <2> QED BY <1>6, <1>9, <2>2 DEF AnyInv, StoreHead2
<1> QED BY <1>1, <1>2, <1>3, <1>4, <1>5, <1>7, <1>8, <1>9 DEF Overwriter
-----------------------------------------------------------------------------
(* What is inductive as long as reads and overwrites are kept apart. *)

(* While nothing is pushed or read, only the types matter to FInv. *)
LEMMA QuietFInv ==
    ASSUME FInv, rop = "none", wdata = << >>, UNCHANGED <<producer, consumer>>, TypeOK'
    PROVE  FInv'
<1>1. UNCHANGED <<wdata, whead, wdone, rop, rsize, rtail, dest>>
    BY DEF producer, consumer
<1> QED BY <1>1 DEF FInv, IInv, PushFits, ReadFits, DestIsStored, PushIsStored, ReadIsReal

LEMMA OverwriterIsAlone ==
    ASSUME AnyInv, Overwriter, overwrites # "preempting"
    PROVE  rop = "none" /\ wdata = << >> /\ UNCHANGED <<producer, consumer>>
<1>0. CallsApart /\ overwrites \in Usage
    BY DEF AnyInv, OverwriterTyped
<1>1. overwrites = "never" \/ overwrites = "exclusive"
    BY <1>0, UsageAssumption
<1>2. UNCHANGED <<producer, consumer>>
    BY DEF Overwriter, StartOverwriteAll, MeasureOverwriteSome, StartOverwriteSome,
           OverwriteCopyIn, StoreHead1, StoreTail1, StoreTail2, StoreHead2, vars
<1>3. rop = "none" /\ wdata = << >>
    BY <1>0, <1>1 DEF CallsApart, MayStartOverwrite, Overwriter, StartOverwriteAll,
       MeasureOverwriteSome, StartOverwriteSome, OverwriteCopyIn, StoreHead1, StoreTail1,
       StoreTail2, StoreHead2
<1> QED BY <1>2, <1>3

LEMMA NoCallNoInv == ostage = "none" => CallInv
BY DEF CallInv, MeasuredIsTrue, OverwriteFits, StoresInOrder

LEMMA StartOverwriteAllInv ==
    ASSUME AnyInv, NEW d \in Argument, StartOverwriteAll(d)
    PROVE  CallInv'
<1>0. /\ Len(d) >= Capacity
      /\ ostage' = "copy1" /\ odata' = NewestOf(d, Capacity) /\ ohead' = m_writeHead
      /\ otail' = Wrap(Wrap(m_writeHead + Capacity) + 1) /\ odone' = 0
      /\ intended' = Contents \o d
      /\ UNCHANGED <<m_buffer, m_writeHead, m_readTail>>
    BY DEF StartOverwriteAll, vars, shared
<1>1. /\ d \in Seq(Byte) /\ Contents \in Seq(Byte) /\ Capacity \in Nat
      /\ m_buffer \in [Index -> Byte] /\ m_writeHead \in Index
    BY ContentsIsSequence, ArgumentAssumption DEF AnyInv, TypeOK
<1>2. odata' \in Seq(Byte) /\ Len(odata') = Capacity
    BY <1>0, <1>1, NewestFits
<1>3. otail' = m_writeHead /\ OccupiedBetween(m_writeHead, m_writeHead) = 0
    BY <1>0, <1>1, OverwriteAllIndexes
<1>4. WindowOf(m_buffer, m_writeHead, m_writeHead) \o odata' = odata'
    <2> DEFINE w == WindowOf(m_buffer, m_writeHead, m_writeHead)
    <2>1. w \in Seq(Byte) /\ Len(w) = 0
        BY <1>1, <1>3, WindowIsSequence
    <2> HIDE DEF w
    <2>2. w = << >>
        BY <2>1
    <2>3. w \o odata' = odata'
        BY <1>2, <2>2, ConcatEmptySeq
    <2> QED BY <2>3 DEF w
<1>5. NewestOf(intended', Capacity) = odata'
    <2>1. LastOf(Contents \o d, Capacity) = SubSeq(d, Len(d) - Capacity + 1, Len(d))
        BY <1>0, <1>1, LastOfLong
    <2>2. SmallerOf(Capacity, Len(d)) = Capacity
        BY <1>0, <1>1 DEF SmallerOf
    <2> QED BY <1>0, <2>1, <2>2, NewestIsLast DEF NewestOf
<1>6. OverwriteFits'
    <2>1. Len(odata') <= Capacity - OccupiedBetween(ohead', otail')
        BY <1>0, <1>1, <1>2, <1>3
    <2>2. NewestOf(intended', Capacity) = WindowOf(m_buffer', ohead', otail') \o odata'
        BY <1>0, <1>3, <1>4, <1>5
    <2>3. odone' <= Len(odata') /\ 0 .. odone' - 1 = {}
        BY <1>0, <1>1, <1>2
    <2> QED BY <2>1, <2>2, <2>3 DEF OverwriteFits
<1> QED BY <1>0, <1>2, <1>6 DEF CallInv, MeasuredIsTrue, StoresInOrder

LEMMA MeasureOverwriteSomeInv ==
    ASSUME AnyInv, NEW d \in Argument, MeasureOverwriteSome(d)
    PROVE  CallInv'
<1>0. /\ Len(d) \in 1 .. Capacity - 1
      /\ ostage' = "measured" /\ odata' = d /\ ohead' = m_writeHead
      /\ ooverflow' = IF Len(d) > getFreeSize THEN Len(d) - getFreeSize ELSE 0
      /\ intended' = Contents \o d
      /\ UNCHANGED <<m_buffer, m_writeHead, m_readTail>>
    BY DEF MeasureOverwriteSome, vars, shared
<1>1. getFreeSize' = getFreeSize /\ Contents' = Contents
    BY <1>0 DEF getFreeSize, getOccupiedSize, Contents
<1>2. MeasuredIsTrue'
    BY <1>0, <1>1 DEF MeasuredIsTrue
<1> QED BY <1>0, <1>2 DEF CallInv, OverwriteFits, StoresInOrder

(* The tail moves over as many bytes as do not fit: the rest and the new   *)
(* ones are the newest.                                                    *)
LEMMA StartOverwriteSomeInv ==
    ASSUME AnyInv, MeasuredIsTrue, StartOverwriteSome
    PROVE  CallInv'
<1> DEFINE kept == WindowOf(m_buffer, m_writeHead, otail')
<1>0. /\ ostage = "measured" /\ ostage' = "copy2"
      /\ otail' = Wrap(m_readTail + ooverflow) /\ odone' = 0
      /\ UNCHANGED <<m_buffer, m_writeHead, m_readTail, odata, ohead, ooverflow, intended>>
    BY DEF StartOverwriteSome, vars, shared
<1>1. /\ ohead = m_writeHead
      /\ Len(odata) \in 1 .. Capacity - 1
      /\ ooverflow = IF Len(odata) > getFreeSize THEN Len(odata) - getFreeSize ELSE 0
      /\ intended = Contents \o odata
    BY <1>0 DEF MeasuredIsTrue
<1>2. /\ odata \in Seq(Byte) /\ Len(odata) \in Nat
      /\ Contents \in Seq(Byte) /\ Len(Contents) = getOccupiedSize
      /\ getOccupiedSize \in 0 .. Capacity /\ Capacity \in Nat
      /\ getFreeSize = Capacity - getOccupiedSize
    BY ContentsIsSequence DEF AnyInv, OverwriterTyped, getFreeSize
<1>3. m_buffer \in [Index -> Byte] /\ m_writeHead \in Index /\ m_readTail \in Index
    BY DEF AnyInv, TypeOK
<1>4. ooverflow \in 0 .. getOccupiedSize /\ Len(odata) <= Capacity - (getOccupiedSize - ooverflow)
    BY <1>1, <1>2
<1>5. /\ otail' \in Index
      /\ OccupiedBetween(m_writeHead, otail') = getOccupiedSize - ooverflow
    BY <1>0, <1>3, <1>4, TailMoves DEF getOccupiedSize
<1>6. kept = SubSeq(Contents, ooverflow + 1, Len(Contents))
    <2>1. ooverflow \in 0 .. OccupiedBetween(m_writeHead, m_readTail)
        BY <1>4 DEF getOccupiedSize
    <2>2. kept = SubSeq(WindowOf(m_buffer, m_writeHead, m_readTail), ooverflow + 1,
                        Len(WindowOf(m_buffer, m_writeHead, m_readTail)))
        BY <1>0, <1>3, <2>1, WindowAfterRemoval
    <2> QED BY <2>2 DEF Contents
<1> HIDE DEF kept
<1>7. kept \o odata = NewestOf(Contents \o odata, Capacity)
    <2>1. CASE Len(odata) > getFreeSize
        <3>1. /\ ooverflow = Len(Contents) + Len(odata) - Capacity
              /\ Len(odata) <= Capacity /\ Len(Contents) + Len(odata) >= Capacity
            BY <1>1, <1>2, <2>1
        <3>2. NewestOf(Contents \o odata, Capacity)
                = SubSeq(Contents, Len(Contents) + Len(odata) - Capacity + 1, Len(Contents)) \o odata
            BY <1>2, <3>1, LastOfShort, NewestIsLast
        <3> QED BY <1>6, <3>1, <3>2
    <2>2. CASE ~(Len(odata) > getFreeSize)
        <3>1. ooverflow = 0 /\ ooverflow + 1 = 1 /\ Len(Contents) + Len(odata) <= Capacity
            BY <1>1, <1>2, <2>2
        <3>2. kept = Contents
            BY <1>2, <1>6, <3>1, SubSeqFull
        <3>3. Contents \o odata \in Seq(Byte) /\ Len(Contents \o odata) <= Capacity
            BY <1>2, <3>1, ConcatProperties
        <3>4. NewestOf(Contents \o odata, Capacity) = Contents \o odata
            BY <1>2, <3>3, LastOfAll, NewestIsLast
        <3> QED BY <3>2, <3>4
    <2> QED BY <2>1, <2>2
<1>8. OverwriteFits'
    <2>1. Len(odata') <= Capacity - OccupiedBetween(ohead', otail')
        BY <1>0, <1>1, <1>4, <1>5
    <2>2. NewestOf(intended', Capacity) = WindowOf(m_buffer', ohead', otail') \o odata'
        BY <1>0, <1>1, <1>7 DEF kept
    <2>3. odone' <= Len(odata') /\ 0 .. odone' - 1 = {}
        BY <1>0, <1>2
    <2> QED BY <2>1, <2>2, <2>3 DEF OverwriteFits
<1>9. StoresInOrder'
    <2>1. ooverflow = 0 => otail' = m_readTail
        BY <1>0, <1>3, WrapOfIndex
    <2> QED BY <1>0, <1>1, <2>1 DEF StoresInOrder
<1> QED BY <1>0, <1>8, <1>9 DEF CallInv, MeasuredIsTrue

(* A byte is copied into a cell that will be none of the kept ones'. *)
LEMMA OverwriteCopyInInv ==
    ASSUME AnyInv, CallInv, OverwriteCopyIn
    PROVE  CallInv'
<1> DEFINE cell == CellOf(ohead, odone)
           kept == WindowOf(m_buffer, ohead, otail)
           now  == WindowOf(m_buffer', ohead, otail)
<1>0. /\ ostage \in {"copy1", "copy2"} /\ odone < Len(odata)
      /\ m_buffer' = [m_buffer EXCEPT ![cell] = odata[odone + 1]]
      /\ odone' = odone + 1
      /\ UNCHANGED <<m_writeHead, m_readTail, ostage, odata, ohead, ooverflow, otail, intended>>
    BY DEF OverwriteCopyIn
<1>1. /\ odata \in Seq(Byte) /\ Len(odata) \in Nat /\ odone \in Nat
      /\ ohead \in Index /\ otail \in Index /\ m_buffer \in [Index -> Byte]
      /\ odata[odone + 1] \in Byte
    <2>1. odata \in Seq(Byte) /\ odone \in Nat /\ ohead \in Index /\ otail \in Index
        BY DEF AnyInv, OverwriterTyped
    <2> QED BY <1>0, <2>1 DEF AnyInv, TypeOK
<1>2. /\ Len(odata) <= Capacity - OccupiedBetween(ohead, otail)
      /\ NewestOf(intended, Capacity) = kept \o odata
      /\ \A i \in 0 .. odone - 1 : m_buffer[CellOf(ohead, i)] = odata[i + 1]
    BY <1>0 DEF CallInv, OverwriteFits
<1>3. OccupiedBetween(ohead, otail) \in 0 .. Capacity /\ Capacity = BufferSize - 1 /\ BufferSize \in Nat
    BY <1>1, OccupiedIsBounded, BufferSizeAssumption DEF Capacity
<1>4. odone \in 0 .. BufferSize - 1 /\ odone \in 0 .. Capacity - OccupiedBetween(ohead, otail) - 1
    BY <1>0, <1>1, <1>2, <1>3
<1>5. /\ cell \in Index
      /\ \A j \in 0 .. OccupiedBetween(ohead, otail) - 1 : cell # CellOf(otail, j)
    BY <1>1, <1>4, CellIsIndex, FreeCellIsNotStored
<1>6. now = kept
    <2>1. /\ kept \in Seq(Byte) /\ Len(kept) = OccupiedBetween(ohead, otail)
          /\ BytesAt(m_buffer, otail, kept)
        BY <1>1, WindowIsSequence
    <2>2. m_buffer' \in [Index -> Byte]
        BY <1>0, <1>1
    <2>3. /\ now \in Seq(Byte) /\ Len(now) = OccupiedBetween(ohead, otail)
          /\ BytesAt(m_buffer', otail, now)
        BY <1>1, <2>2, WindowIsSequence, SMTT(30)
    <2>4. SameElsewhere(m_buffer', m_buffer, {cell})
        BY <1>0, <1>1 DEF SameElsewhere
    <2> HIDE DEF kept, now, cell
    <2>5. CellsFrom(otail, Len(kept)) \cap {cell} = {}
        BY <1>5, <2>1 DEF CellsFrom
    <2>6. Len(kept) <= BufferSize
        BY <1>3, <2>1
    <2>7. BytesAt(m_buffer', otail, kept)
        BY <1>1, <2>1, <2>4, <2>5, <2>6, StoredIsKept
    <2> QED BY <2>1, <2>3, <2>7, BlockIsUnique
<1>7. ASSUME NEW i \in 0 .. odone PROVE m_buffer'[CellOf(ohead, i)] = odata[i + 1]
    <2>1. CASE i = odone
        BY <1>0, <1>1, <1>5, <2>1
    <2>2. CASE i # odone
        <3>1. i \in 0 .. odone - 1 /\ i \in 0 .. BufferSize - 1
            BY <1>1, <1>3, <1>4, <2>2
        <3>2. CellOf(ohead, i) \in Index /\ CellOf(ohead, i) # cell
            BY <1>1, <1>4, <2>2, <3>1, CellIsIndex, CellsDiffer
        <3>3. m_buffer[CellOf(ohead, i)] = odata[i + 1]
            BY <1>2, <3>1
        <3> HIDE DEF cell
        <3> QED BY <1>0, <1>1, <3>2, <3>3
    <2> QED BY <2>1, <2>2
<1>8. OverwriteFits'
    <2>1. NewestOf(intended', Capacity) = WindowOf(m_buffer', ohead', otail') \o odata'
        BY <1>0, <1>2, <1>6
    <2>2. Len(odata') <= Capacity - OccupiedBetween(ohead', otail')
        BY <1>0, <1>2
    <2>3. odone' <= Len(odata') /\ odone' - 1 = odone
        BY <1>0, <1>1
    <2>4. \A i \in 0 .. odone' - 1 : m_buffer'[CellOf(ohead', i)] = odata'[i + 1]
        BY <1>0, <1>7, <2>3
    <2> QED BY <2>1, <2>2, <2>3, <2>4 DEF OverwriteFits
<1>9. MeasuredIsTrue' /\ StoresInOrder'
    BY <1>0 DEF CallInv, MeasuredIsTrue, StoresInOrder
<1> QED BY <1>8, <1>9 DEF CallInv

(* Scenario 1 stores the head first. *)
LEMMA StoreHead1Inv ==
    ASSUME AnyInv, CallInv, StoreHead1
    PROVE  CallInv'
<1>0. /\ ostage = "copy1" /\ ostage' = "tail1" /\ odone = Len(odata)
      /\ m_writeHead' = Wrap(ohead + Capacity)
      /\ UNCHANGED <<m_buffer, m_readTail, odata, ohead, ooverflow, otail, odone, intended>>
    BY DEF StoreHead1
<1> QED BY <1>0 DEF CallInv, MeasuredIsTrue, OverwriteFits, StoresInOrder

(* Scenario 2 stores the tail first: otail is m_readTail if nothing is     *)
(* displaced.                                                              *)
LEMMA StoreTail2Inv ==
    ASSUME AnyInv, CallInv, StoreTail2
    PROVE  CallInv'
<1>0. /\ ostage = "copy2" /\ ostage' = "head2" /\ odone = Len(odata)
      /\ m_readTail' = IF ooverflow > 0 THEN otail ELSE m_readTail
      /\ UNCHANGED <<m_buffer, m_writeHead, odata, ohead, ooverflow, otail, odone, intended>>
    BY DEF StoreTail2
<1>1. m_readTail' = otail
    <2>1. ooverflow \in Nat /\ Capacity \in Nat
        BY BufferSizeAssumption DEF AnyInv, OverwriterTyped, Capacity
    <2>2. ~(ooverflow > 0) => ooverflow = 0
        BY <2>1
    <2> QED BY <1>0, <2>2 DEF CallInv, StoresInOrder
<1> QED BY <1>0, <1>1 DEF CallInv, MeasuredIsTrue, OverwriteFits, StoresInOrder

(* The last store makes the call's own bytes visible behind the kept ones. *)
LEMMA LastStoreShowsTheNewest ==
    ASSUME AnyInv, CallInv, StoreTail1 \/ StoreHead2
    PROVE  Contents' = NewestOf(intended, Capacity)
<1> DEFINE kept == WindowOf(m_buffer, ohead, otail)
<1>0. ostage \in {"tail1", "head2"} /\ m_buffer' = m_buffer
    BY DEF StoreTail1, StoreHead2
<1>1. /\ odata \in Seq(Byte) /\ Len(odata) \in Nat /\ ohead \in Index /\ otail \in Index
      /\ m_buffer \in [Index -> Byte] /\ Capacity \in Nat
    BY BufferSizeAssumption DEF AnyInv, OverwriterTyped, TypeOK, Capacity
<1>2. /\ Len(odata) <= Capacity - OccupiedBetween(ohead, otail)
      /\ NewestOf(intended, Capacity) = kept \o odata
      /\ odone = Len(odata)
      /\ BytesAt(m_buffer, ohead, odata)
    BY <1>0 DEF CallInv, OverwriteFits, StoresInOrder, BytesAt
<1>3. /\ kept \in Seq(Byte) /\ Len(kept) = OccupiedBetween(ohead, otail)
      /\ BytesAt(m_buffer, otail, kept)
    BY <1>1, WindowIsSequence
<1> HIDE DEF kept
<1>4. WindowOf(m_buffer, Wrap(ohead + Len(odata)), otail) = kept \o odata
    <2>1. Len(odata) <= Capacity - Len(kept)
        BY <1>2, <1>3
    <2>2. /\ m_buffer \in [Index -> Byte] /\ ohead \in Index /\ otail \in Index
          /\ kept \in Seq(Byte) /\ Len(kept) = OccupiedBetween(ohead, otail)
          /\ BytesAt(m_buffer, otail, kept)
          /\ odata \in Seq(Byte) /\ BytesAt(m_buffer, ohead, odata)
        BY <1>1, <1>2, <1>3
    <2>3. /\ Wrap(ohead + Len(odata)) \in Index
          /\ WindowOf(m_buffer, Wrap(ohead + Len(odata)), otail) = kept \o odata
        BY <2>1, <2>2, WindowAfterHeadMoves
    <2> QED BY <2>3
<1>5. m_writeHead' = Wrap(ohead + Len(odata)) /\ m_readTail' = otail
    <2>1. CASE StoreTail1
        BY <2>1 DEF StoreTail1, CallInv, StoresInOrder
    <2>2. CASE StoreHead2
        BY <2>2 DEF StoreHead2, CallInv, StoresInOrder
    <2> QED BY <2>1, <2>2
<1> QED BY <1>0, <1>2, <1>4, <1>5 DEF Contents

LEMMA OverwriterApart ==
    ASSUME OInv, Overwriter, UNCHANGED overwrites, overwrites # "preempting"
    PROVE  ApartInv'
<1>0. AnyInv /\ FInv /\ CallInv /\ AnyInv'
    BY OverwriterAny DEF OInv, ApartInv
<1>1. FInv'
    BY <1>0, OverwriterIsAlone, QuietFInv DEF AnyInv
<1>2. CallInv'
    <2>1. ASSUME NEW d \in Argument, StartOverwriteAll(d) PROVE CallInv'
        BY <1>0, <2>1, StartOverwriteAllInv
    <2>2. ASSUME NEW d \in Argument, MeasureOverwriteSome(d) PROVE CallInv'
        BY <1>0, <2>2, MeasureOverwriteSomeInv
    <2>3. CASE StartOverwriteSome
        BY <1>0, <2>3, StartOverwriteSomeInv DEF CallInv
    <2>4. CASE OverwriteCopyIn
        BY <1>0, <2>4, OverwriteCopyInInv
    <2>5. CASE StoreHead1
        BY <1>0, <2>5, StoreHead1Inv
    <2>6. CASE StoreTail2
        BY <1>0, <2>6, StoreTail2Inv
    <2>7. CASE StoreTail1 \/ StoreHead2
        <3>1. ostage' = "none"
            BY <2>7 DEF StoreTail1, StoreHead2, OverwriteEnds
        <3> QED BY <3>1 DEF CallInv, MeasuredIsTrue, OverwriteFits, StoresInOrder
    <2> QED BY <2>1, <2>2, <2>3, <2>4, <2>5, <2>6, <2>7 DEF Overwriter
<1> QED BY <1>1, <1>2 DEF ApartInv

(* While no call is under way, a step of the others is one of the queue.   *)
LEMMA OthersApart ==
    ASSUME OInv, ostage = "none", Producer \/ Consumer, UNCHANGED <<overwriter, overwrites>>
    PROVE  /\ AnyInv'
           /\ overwrites # "preempting" => ApartInv' /\ [Fifo!Next]_(Fifo!fifoVars)
<1>1. AnyInv'
    BY ProducerAny, ConsumerAny DEF OInv
<1>2. ASSUME overwrites # "preempting" PROVE ApartInv' /\ [Fifo!Next]_(Fifo!fifoVars)
    <2>1. FInv' /\ [Fifo!Next]_(Fifo!fifoVars)
        BY <1>2, StepMapped DEF OInv, ApartInv
    <2>2. ostage' = "none"
        BY DEF overwriter
    <2>3. CallInv'
        BY <2>2 DEF CallInv, MeasuredIsTrue, OverwriteFits, StoresInOrder
    <2> QED BY <2>1, <2>3 DEF ApartInv
<1> QED BY <1>1, <1>2

LEMMA UnchangedOInv ==
    ASSUME OInv, UNCHANGED allVars
    PROVE  OInv' /\ UNCHANGED Fifo!fifoVars
<1>0. /\ UNCHANGED <<m_buffer, m_writeHead, m_readTail, wdata, whead, wdone>>
      /\ UNCHANGED <<rop, rsize, rtail, dest>>
      /\ UNCHANGED <<ostage, odata, ohead, ooverflow, otail, odone, intended, overwrites>>
    BY DEF allVars, vars, shared, producer, consumer, overwriter
<1>1. AnyInv' = AnyInv
    BY <1>0 DEF AnyInv, TypeOK, OverwriterTyped, BlocksFit, CallsApart
<1>2. FInv' = FInv
    BY <1>0 DEF FInv, IInv, TypeOK, PushFits, ReadFits, DestIsStored, PushIsStored, ReadIsReal,
                getFreeSize, getOccupiedSize
<1>3. CallInv' = CallInv
    BY <1>0 DEF CallInv, MeasuredIsTrue, OverwriteFits, StoresInOrder, getFreeSize,
                getOccupiedSize, Contents
<1>4. UNCHANGED Fifo!fifoVars
    BY <1>0 DEF Fifo!fifoVars, Contents
<1> QED BY <1>0, <1>1, <1>2, <1>3, <1>4 DEF OInv, ApartInv
-----------------------------------------------------------------------------
(* If reads and overwrites are kept apart, a read begins, and ends, with   *)
(* no call under way.                                                      *)
LEMMA ReadsAreAlone ==
    ASSUME OInv, overwrites # "preempting",
           overwrites = "exclusive" => ostage = "none"
    PROVE  ostage = "none"
<1>1. overwrites = "never" \/ overwrites = "exclusive"
    BY UsageAssumption DEF OInv, AnyInv, OverwriterTyped
<1> QED BY <1>1 DEF OInv, AnyInv, CallsApart

LEMMA OverwriteNextOInv ==
    ASSUME OInv, OverwriteNext
    PROVE  OInv'
<1>1. CASE ostage = "none" /\ Producer /\ UNCHANGED overwriter
    BY <1>1, OthersApart DEF OInv, OverwriteNext
<1>2. CASE (overwrites = "exclusive" => ostage = "none") /\ Consumer /\ UNCHANGED overwriter
    <2>1. AnyInv' /\ UNCHANGED overwrites
        BY <1>2, ConsumerAny DEF OInv, OverwriteNext
    <2>2. overwrites # "preempting" => ApartInv'
        BY <1>2, <2>1, ReadsAreAlone, OthersApart
    <2> QED BY <2>1, <2>2 DEF OInv
<1>3. CASE Overwriter
    BY <1>3, OverwriterAny, OverwriterApart DEF OInv, OverwriteNext
<1> QED BY <1>1, <1>2, <1>3 DEF OverwriteNext

THEOREM OverwriteInvariance == OverwriteSpec => []OInv
<1>1. OverwriteInit => OInv
    BY InitOInv
<1>2. OInv /\ [OverwriteNext]_allVars => OInv'
    BY OverwriteNextOInv, UnchangedOInv
<1> QED BY <1>1, <1>2, PTL DEF OverwriteSpec

(* However pushOverwrite is called, preempting reads too: the indexes stay *)
(* inside the array, and no call copies to or from beyond its end.         *)
THEOREM OverwriteStaysInside == OverwriteSpec => []TypeOK
<1>1. OInv => TypeOK
    BY DEF OInv, AnyInv
<1> QED BY <1>1, OverwriteInvariance, PTL

(* A producer that never calls pushOverwrite, and one that does but keeps  *)
(* it and the reads apart: what MemcpysNeverMeet and ReadsAreStable say.   *)
THEOREM ApartMemcpysNeverMeet ==
    OverwriteSpec => [](overwrites # "preempting" => NoOverlap)
<1>1. OInv => (overwrites # "preempting" => NoOverlap)
    BY NoOverlapHolds DEF OInv, ApartInv, FInv
<1> QED BY <1>1, OverwriteInvariance, PTL

THEOREM ApartReadsAreStable ==
    OverwriteSpec => [](overwrites # "preempting" => ReadsWhatIsStored)
<1>1. OInv => (overwrites # "preempting" => ReadsWhatIsStored)
    BY ReadsHold DEF OInv, ApartInv, FInv
<1> QED BY <1>1, OverwriteInvariance, PTL

(* When pushOverwrite returns, the buffer holds the newest bytes, as many  *)
(* as fit: only the oldest unread ones made room.                          *)
THEOREM OverwriteIsComplete == OverwriteSpec => OverwriteKeepsNewest
<1>1. OInv /\ [OverwriteNext]_allVars =>
         (overwrites # "preempting" /\ ostage # "none" /\ ostage' = "none" =>
             Contents' = NewestOf(intended, Capacity))
    <2> SUFFICES ASSUME OInv, [OverwriteNext]_allVars, overwrites # "preempting",
                        ostage # "none", ostage' = "none"
                 PROVE  Contents' = NewestOf(intended, Capacity)
        OBVIOUS
    <2>1. StoreTail1 \/ StoreHead2
        BY DEF OverwriteNext, allVars, overwriter, Overwriter, StartOverwriteAll,
           MeasureOverwriteSome, StartOverwriteSome, OverwriteCopyIn, StoreHead1, StoreTail2
    <2> QED BY <2>1, LastStoreShowsTheNewest DEF OInv, ApartInv
<1> QED BY <1>1, OverwriteInvariance, PTL DEF OverwriteSpec, OverwriteKeepsNewest

(* A pop that ends takes out of the buffer just the bytes that it returned.*)
THEOREM PopTakesItsBytes == OverwriteSpec => PopRemovesOnlyWhatItReturned
<1>1. OInv /\ [OverwriteNext]_allVars =>
         (overwrites # "preempting" /\ rop = "pop" /\ rop' = "none" /\ ostage = "none" =>
             \E displaced \in 0 .. Len(dest) :
                 Contents = SubSeq(dest, displaced + 1, Len(dest)) \o Contents')
    <2> SUFFICES ASSUME OInv, [OverwriteNext]_allVars, overwrites # "preempting",
                        rop = "pop", rop' = "none"
                 PROVE  \E displaced \in 0 .. Len(dest) :
                           Contents = SubSeq(dest, displaced + 1, Len(dest)) \o Contents'
        OBVIOUS
    <2>1. StoreTail
        BY DEF OverwriteNext, allVars, vars, shared, producer, consumer, overwriter, Producer,
           StartPush, CopyIn, StoreHead, Consumer, StartRead, CopyOut, EndPeek, Overwriter,
           StartOverwriteAll, MeasureOverwriteSome, StartOverwriteSome, OverwriteCopyIn,
           StoreHead1, StoreTail1, StoreTail2, StoreHead2
    <2>2. FInv
        BY DEF OInv, ApartInv
    <2>3. /\ dest = SubSeq(Contents, 1, Len(dest)) /\ Len(dest) = rsize
          /\ rtail = m_readTail /\ rsize \in 0 .. OccupiedBetween(m_writeHead, m_readTail)
          /\ m_readTail' = Wrap(m_readTail + rsize) /\ UNCHANGED <<m_buffer, m_writeHead>>
        BY <2>1, <2>2, SizesAreNumbers, DestIsTheOldest
        DEF StoreTail, FInv, IInv, ReadFits, TypeOK, getOccupiedSize
    <2>4. Contents' = SubSeq(Contents, rsize + 1, Len(Contents))
        <3>1. m_buffer \in [Index -> Byte] /\ m_writeHead \in Index /\ m_readTail \in Index
            BY <2>2 DEF FInv, IInv, TypeOK
        <3>2. WindowOf(m_buffer, m_writeHead, Wrap(m_readTail + rsize))
                 = SubSeq(WindowOf(m_buffer, m_writeHead, m_readTail), rsize + 1,
                          Len(WindowOf(m_buffer, m_writeHead, m_readTail)))
            BY <2>3, <3>1, WindowAfterRemoval
        <3> QED BY <2>3, <3>2 DEF Contents
    <2>5. /\ Contents \in Seq(Byte) /\ Len(Contents) = OccupiedBetween(m_writeHead, m_readTail)
          /\ Len(Contents) \in Nat /\ dest \in Seq(Byte) /\ rsize \in Nat
        BY <2>2, ContentsIsSequence DEF FInv, IInv, TypeOK, getOccupiedSize
    <2>6. SubSeq(dest, 0 + 1, Len(dest)) = dest
        <3>1. SubSeq(dest, 1, Len(dest)) = dest
            BY <2>5, SubSeqFull
        <3> QED BY <3>1
    <2>7. Contents = dest \o Contents'
        <3> DEFINE w == Contents
        <3>1. SubSeq(w, 1, Len(w)) = w
            BY <2>5, SubSeqFull
        <3>2. /\ w \in Seq(Byte) /\ 1 \in 1 .. Len(w) + 1 /\ rsize \in 1 - 1 .. Len(w)
              /\ Len(w) \in rsize .. Len(w)
            BY <2>3, <2>5
        <3> HIDE DEF w
        <3>3. SubSeq(w, 1, rsize) \o SubSeq(w, rsize + 1, Len(w)) = SubSeq(w, 1, Len(w))
            BY <3>2, ConcatAdjacentSubSeq
        <3> QED BY <2>3, <2>4, <3>1, <3>3 DEF w
    <2>8. 0 \in 0 .. Len(dest)
        BY <2>5
    <2>9. Contents = SubSeq(dest, 0 + 1, Len(dest)) \o Contents'
        BY <2>6, <2>7, Zenon
    <2> QED BY <2>8, <2>9, Zenon
<1> QED BY <1>1, OverwriteInvariance, PTL DEF OverwriteSpec, PopRemovesOnlyWhatItReturned

(* IsAFifo, of the producer that never calls pushOverwrite. *)
THEOREM IsAFifoUnlessDisplaced == OverwriteSpec => ImplementsFifoUnlessDisplaced
<1>1. OverwriteInit => Fifo!Init
    BY InitFInv DEF OverwriteInit
<1>2. OInv /\ [OverwriteNext]_allVars =>
         (overwrites = "never" => [Fifo!Next]_(Fifo!fifoVars))
    <2> SUFFICES ASSUME OInv, [OverwriteNext]_allVars, overwrites = "never"
                 PROVE  [Fifo!Next]_(Fifo!fifoVars)
        OBVIOUS
    <2>1. ostage = "none"
        BY DEF OInv, AnyInv, CallsApart
    <2>2. CASE UNCHANGED allVars
        BY <2>2, UnchangedOInv
    <2>3. CASE OverwriteNext
        <3>1. ~Overwriter
            BY <2>1 DEF Overwriter, StartOverwriteAll, MeasureOverwriteSome, MayStartOverwrite,
               StartOverwriteSome, OverwriteCopyIn, StoreHead1, StoreTail1, StoreTail2, StoreHead2
        <3>2. (Producer \/ Consumer) /\ UNCHANGED <<overwriter, overwrites>>
            BY <2>3, <3>1 DEF OverwriteNext
        <3> QED BY <2>1, <3>2, OthersApart
    <2> QED BY <2>2, <2>3
<1> QED BY <1>1, <1>2, OverwriteInvariance, PTL DEF OverwriteSpec, ImplementsFifoUnlessDisplaced
=============================================================================

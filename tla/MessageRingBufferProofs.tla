---------------------- MODULE MessageRingBufferProofs ----------------------
(***************************************************************************)
(* Proofs about MessageRingBuffer for every buffer size, every set of      *)
(* messages and any number of words in one.                                *)
(***************************************************************************)
EXTENDS MessageRingBuffer, RingIndexProofs, TLAPS

Copying == wop \in {"push", "pushOverwrite"}

(* The tail has been moved on since the consumer loaded it. *)
Overtaken == rop # "none" /\ rtail # -1 /\ rtail # m_readTail

TypeInv == TypeOK /\ (wop # "none" => wmessage \in Message)

(* What the producer copied is in the cell behind the stored messages.     *)
MessageIsIn ==
    /\ wop # "none" => whead = m_writeHead
    /\ Copying => getOccupiedSize < Capacity
    /\ ~Copying => wdone = 0
    /\ \A i \in 1 .. wdone : m_buffer[whead][i] = wmessage

(* A read that meets a pushOverwrite asks for one message and meets no     *)
(* second one; overlapped counts that.                                     *)
MeetsAtMostOne ==
    /\ rop = "none" => overlapped.read = 0
    /\ ~Overwriting => overlapped.write = 0
    /\ overlapped.read <= 1 /\ overlapped.write <= 1
    /\ Overwriting /\ rop # "none" => rcount = 1 /\ overlapped = [read |-> 1, write |-> 1]

(* Until the oldest message is displaced, the queue is full, but for the   *)
(* message that a read has removed meanwhile.                              *)
DisplacesFromFull ==
    /\ wop \in {"full", "displace"} =>
        \/ getOccupiedSize = Capacity
        \/ getOccupiedSize = Capacity - 1 /\ rop = "none" /\ overlapped.write = 1
    /\ wop = "displace" =>
        \/ wtail = Wrap(m_readTail + 1)
        \/ wtail = m_readTail /\ getOccupiedSize = Capacity - 1

(* The messages a read is about to remove are stored; or it reads the one  *)
(* that was displaced, whose cell is not written before the read is over.  *)
ReadIsOfTheOldest ==
    /\ rop = "none" <=> rcount = 0
    /\ rop = "none" => rtail = -1
    /\ rop \in {"pop", "peek"} => rcount = 1
    /\ rop # "none" /\ ~Overtaken => rcount <= getOccupiedSize
    /\ Overtaken =>
        /\ m_readTail = Wrap(rtail + 1) /\ rcount = 1
        /\ overlapped.read = 1
        /\ displaced = <<m_buffer[rtail]>>
        /\ \/ wop = "pushOverwrite" /\ getOccupiedSize = Capacity - 1
           \/ wop = "none" /\ getOccupiedSize = Capacity

DestIsRead ==
    /\ rop = "drop" => dest = << >>
    /\ rop # "none" /\ rtail = -1 => dest = << >>
    /\ rop \in {"pop", "peek"} => \A i \in 1 .. Len(dest) : dest[i] = m_buffer[rtail][i]

IInv ==
    /\ TypeInv
    /\ MessageIsIn /\ MeetsAtMostOne /\ DisplacesFromFull
    /\ ReadIsOfTheOldest /\ DestIsRead
-----------------------------------------------------------------------------
LEMMA DestIsSequence ==
    ASSUME WordsAssumption
    PROVE  dest \in UNION {[1 .. n -> Message] : n \in 0 .. Words}
             <=> dest \in Seq(Message) /\ Len(dest) <= Words
<1>1. ASSUME NEW n \in 0 .. Words, dest \in [1 .. n -> Message]
      PROVE  dest \in Seq(Message) /\ Len(dest) <= Words
    <2>1. n \in Nat /\ n <= Words
        BY WordsAssumption
    <2>2. dest \in Seq(Message)
        BY <1>1, <2>1
    <2>3. Len(dest) = n
        BY <1>1, <2>1, <2>2
    <2> QED BY <2>1, <2>2, <2>3
<1>2. ASSUME dest \in Seq(Message), Len(dest) <= Words
      PROVE  \E n \in 0 .. Words : dest \in [1 .. n -> Message]
    <2>1. Len(dest) \in 0 .. Words
        BY <1>2, WordsAssumption
    <2>2. dest \in [1 .. Len(dest) -> Message]
        BY <1>2
    <2> QED BY <2>1, <2>2
<1> QED BY <1>1, <1>2

(* The steps of the consumer keep what they leave alone. *)
ReaderTyped ==
    /\ rop \in {"none", "pop", "peek", "drop"}
    /\ rcount \in 0 .. Capacity /\ rtail \in Index \cup {-1}
    /\ dest \in Seq(Message) /\ Len(dest) <= Words

WriterTyped ==
    /\ wop \in {"none", "push", "full", "displace", "pushOverwrite"}
    /\ wmessage \in Message \cup {NoMessage}
    /\ whead \in Index /\ wtail \in Index /\ wdone \in 0 .. Words
    /\ wop # "none" => wmessage \in Message

SharedTyped ==
    /\ m_buffer \in [Index -> [1 .. Words -> Message]]
    /\ m_writeHead \in Index /\ m_readTail \in Index
    /\ overlapped \in [read : Nat, write : Nat]

LEMMA TypeParts == TypeInv <=> ReaderTyped /\ WriterTyped /\ SharedTyped
BY DestIsSequence, WordsAssumption DEF TypeInv, TypeOK, ReaderTyped, WriterTyped, SharedTyped

LEMMA InitTyped == Init => TypeInv
<1> SUFFICES ASSUME Init PROVE TypeInv
    OBVIOUS
<1>1. 0 \in Index /\ 0 \in 0 .. Capacity /\ 0 \in 0 .. Words
    BY BufferSizeAssumption, WordsAssumption DEF Index, Capacity
<1>2. ReaderTyped /\ WriterTyped
    BY <1>1, WordsAssumption DEF Init, ReaderTyped, WriterTyped
<1>3. \A m \in Message : WordsOf(m) \in [1 .. Words -> Message]
    BY DEF WordsOf
<1>4. m_buffer \in [Index -> [1 .. Words -> Message]]
    BY <1>3 DEF Init
<1>5. SharedTyped
    BY <1>1, <1>4 DEF Init, SharedTyped
<1> QED BY <1>2, <1>5, TypeParts

LEMMA ProducerTyped ==
    ASSUME TypeInv, Producer
    PROVE  TypeInv'
<1> USE DEF shared, producer, consumer, history
<1>1. ReaderTyped /\ WriterTyped /\ SharedTyped
    BY TypeParts
<1>2. ReaderTyped'
    BY <1>1 DEF ReaderTyped, Producer, StartPush, StartPushOverwrite, LoadTail, DisplaceOldest,
                CopyIn, StoreHead
<1> SUFFICES WriterTyped' /\ SharedTyped'
    BY <1>2, TypeParts, PTL
<1>3. overlapped' \in [read : Nat, write : Nat]
    BY <1>1 DEF SharedTyped, ReaderTyped, Producer, StartPush, StartPushOverwrite, LoadTail,
                DisplaceOldest, CopyIn, StoreHead
<1>4. ASSUME NEW m \in Message, StartPush(m) \/ StartPushOverwrite(m)
      PROVE  WriterTyped' /\ SharedTyped'
    BY <1>1, <1>3, <1>4 DEF WriterTyped, SharedTyped, StartPush, StartPushOverwrite
<1>5. CASE LoadTail
    <2>1. Wrap(m_readTail + 1) \in Index
        BY <1>1, BufferSizeAssumption, WrapIsIndex DEF SharedTyped, Index
    <2> QED BY <1>1, <1>3, <1>5, <2>1 DEF WriterTyped, SharedTyped, LoadTail
<1>6. CASE DisplaceOldest
    <2>1. 0 \in Index
        BY BufferSizeAssumption DEF Index
    <2> QED BY <1>1, <1>3, <1>6, <2>1 DEF WriterTyped, SharedTyped, DisplaceOldest
<1>7. CASE CopyIn
    <2>1. wmessage \in Message /\ whead \in Index /\ wdone + 1 \in 1 .. Words
        BY <1>1, <1>7, WordsAssumption DEF WriterTyped, CopyIn
    <2>2. m_buffer' = [m_buffer EXCEPT ![whead] = [m_buffer[whead] EXCEPT ![wdone + 1] = wmessage]]
        BY <1>7 DEF CopyIn
    <2>3. [m_buffer[whead] EXCEPT ![wdone + 1] = wmessage] \in [1 .. Words -> Message]
        BY <1>1, <2>1 DEF SharedTyped
    <2>4. m_buffer' \in [Index -> [1 .. Words -> Message]]
        BY <1>1, <2>1, <2>2, <2>3 DEF SharedTyped
    <2> QED BY <1>1, <1>3, <1>7, <2>1, <2>4 DEF WriterTyped, SharedTyped, CopyIn
<1>8. CASE StoreHead
    <2>1. Wrap(whead + 1) \in Index /\ 0 \in Index /\ 0 \in 0 .. Words
        BY <1>1, BufferSizeAssumption, WordsAssumption, WrapIsIndex DEF WriterTyped, Index
    <2> QED BY <1>1, <1>3, <1>8, <2>1 DEF WriterTyped, SharedTyped, StoreHead
<1> QED BY <1>4, <1>5, <1>6, <1>7, <1>8 DEF Producer

LEMMA ConsumerTyped ==
    ASSUME TypeInv, Consumer \/ Clear
    PROVE  TypeInv'
<1> USE DEF shared, producer, consumer, history
<1>1. ReaderTyped /\ WriterTyped /\ SharedTyped
    BY TypeParts
<1>2. WriterTyped'
    BY <1>1 DEF WriterTyped, Consumer, Clear, StartRead, LoadReadTail, CopyOut, StoreTail, EndPeek
<1> SUFFICES ReaderTyped' /\ SharedTyped'
    BY <1>2, TypeParts, PTL
<1>3. 0 \in 0 .. Capacity /\ 0 \in Index
    BY BufferSizeAssumption DEF Capacity, Index
<1>4. ASSUME NEW op \in {"pop", "peek", "drop"}, NEW count \in Nat, StartRead(op, count)
      PROVE  ReaderTyped' /\ SharedTyped'
    <2>1. getOccupiedSize \in 0 .. Capacity
        BY <1>1, OccupiedIsBounded DEF getOccupiedSize, SharedTyped
    <2>2. rcount' \in 0 .. Capacity
        BY <1>4, <2>1, BufferSizeAssumption DEF StartRead, SmallerOf, Capacity
    <2>3. overlapped' \in [read : Nat, write : Nat]
        <3>1. CASE ~Overwriting
            BY <1>1, <1>4, <3>1 DEF StartRead, SharedTyped
        <3>2. CASE Overwriting
            <4>1. overlapped' = [write |-> overlapped.write + rcount', read |-> 1]
                BY <1>4, <3>2 DEF StartRead
            <4>2. overlapped.write + rcount' \in Nat
                BY <1>1, <2>2, BufferSizeAssumption DEF SharedTyped, Capacity
            <4> QED BY <4>1, <4>2
        <3> QED BY <3>1, <3>2
    <2>4. dest' \in Seq(Message) /\ Len(dest') <= Words
        BY <1>4, WordsAssumption DEF StartRead
    <2> QED BY <1>1, <1>4, <2>2, <2>3, <2>4 DEF StartRead, ReaderTyped, SharedTyped
<1>5. CASE LoadReadTail
    BY <1>1, <1>5 DEF LoadReadTail, ReaderTyped, SharedTyped
<1>6. CASE CopyOut
    <2>1. Len(dest) \in Nat /\ Len(dest) + 1 \in 1 .. Words /\ rtail \in Index
        BY <1>1, <1>6, WordsAssumption DEF CopyOut, ReaderTyped
    <2>2. m_buffer[rtail][Len(dest) + 1] \in Message
        BY <1>1, <2>1 DEF SharedTyped
    <2>3. dest' \in Seq(Message) /\ Len(dest') = Len(dest) + 1
        BY <1>1, <1>6, <2>2 DEF CopyOut, ReaderTyped
    <2> QED BY <1>1, <1>6, <2>1, <2>3, WordsAssumption DEF CopyOut, ReaderTyped, SharedTyped
<1>7. CASE StoreTail
    <2>1. Wrap(rtail + rcount) \in Index
        BY <1>1, <1>7, BufferSizeAssumption, WrapIsIndex DEF StoreTail, ReaderTyped, Index, Capacity
    <2> QED BY <1>1, <1>3, <1>7, <2>1 DEF StoreTail, ReadEnds, ReaderTyped, SharedTyped
<1>8. CASE EndPeek
    BY <1>1, <1>3, <1>8 DEF EndPeek, ReadEnds, ReaderTyped, SharedTyped
<1>9. CASE Clear
    BY <1>1, <1>3, <1>9 DEF Clear, ReaderTyped, SharedTyped
<1>10. ASSUME NEW count \in 1 .. MaxCount, StartRead("drop", count)
      PROVE  ReaderTyped' /\ SharedTyped'
    BY <1>4, <1>10, MaxCountAssumption
<1> QED BY <1>4, <1>5, <1>6, <1>7, <1>8, <1>9, <1>10 DEF Consumer

(* However many calls of the two sides meet: the indexes stay inside the   *)
(* array, and neither side copies beyond the end of a message.             *)
THEOREM TypeCorrect == Spec => []TypeOK
<1>1. Init => TypeInv
    BY InitTyped
<1>2. TypeInv /\ [Next]_vars => TypeInv'
    <2> SUFFICES ASSUME TypeInv, [Next]_vars PROVE TypeInv'
        OBVIOUS
    <2>1. CASE Next
        BY <2>1, ProducerTyped, ConsumerTyped DEF Next
    <2>2. CASE UNCHANGED vars
        BY <2>2 DEF vars, shared, producer, consumer, history, TypeInv, TypeOK
    <2> QED BY <2>1, <2>2
<1>3. TypeInv => TypeOK
    BY DEF TypeInv
<1> QED BY <1>1, <1>2, <1>3, PTL DEF Spec
-----------------------------------------------------------------------------
(* What the refinement asks for beside the assumptions of the modules: a   *)
(* call meets at most one of the other side, and there is room for more    *)
(* than one message.                                                       *)
AtMostOne == MaxOverlap <= 1 /\ BufferSize >= 3

Cell == [1 .. Words -> Message]

LEMMA ContentsIsSequence ==
    ASSUME TypeInv
    PROVE  /\ m_buffer \in [Index -> Cell] /\ m_writeHead \in Index /\ m_readTail \in Index
           /\ Contents \in Seq(Cell) /\ Len(Contents) = getOccupiedSize
           /\ getOccupiedSize \in 0 .. Capacity
           /\ BytesAt(m_buffer, m_readTail, Contents)
<1>1. m_buffer \in [Index -> Cell] /\ m_writeHead \in Index /\ m_readTail \in Index
    BY DEF TypeInv, TypeOK, Cell
<1> QED BY <1>1, WindowIsSequence, OccupiedIsBounded DEF Contents, getOccupiedSize

(* The numbers of the two calls. *)
LEMMA Numbers ==
    ASSUME TypeInv
    PROVE  /\ BufferSize \in Nat /\ BufferSize >= 2 /\ Words \in Nat /\ Words >= 1
           /\ Capacity = BufferSize - 1
           /\ getOccupiedSize \in 0 .. Capacity /\ getFreeSize = Capacity - getOccupiedSize
           /\ rcount \in 0 .. Capacity /\ wdone \in 0 .. Words
           /\ overlapped.read \in Nat /\ overlapped.write \in Nat
           /\ overlapped = [read |-> overlapped.read, write |-> overlapped.write]
           /\ dest \in Seq(Message) /\ Len(dest) \in 0 .. Words
<1>1. ReaderTyped /\ WriterTyped /\ SharedTyped
    BY TypeParts
<1>2. getOccupiedSize \in 0 .. Capacity
    BY ContentsIsSequence
<1>3. Len(dest) \in 0 .. Words
    BY <1>1, WordsAssumption DEF ReaderTyped
<1> QED BY <1>1, <1>2, <1>3, BufferSizeAssumption, WordsAssumption
        DEF ReaderTyped, WriterTyped, SharedTyped, Capacity, getFreeSize

LEMMA InitMapped == Init => IInv /\ Fifo!Init
<1> SUFFICES ASSUME Init PROVE IInv /\ Fifo!Init
    OBVIOUS
<1>1. TypeInv
    BY InitTyped
<1>2. getOccupiedSize = 0 /\ getOccupiedSize < Capacity
    BY BufferSizeAssumption DEF Init, getOccupiedSize, OccupiedBetween, Wrap, Capacity
<1>3. Contents = << >>
    BY <1>1, <1>2, ContentsIsSequence
<1>4. MessageIsIn /\ MeetsAtMostOne /\ DisplacesFromFull
    BY <1>2 DEF Init, MessageIsIn, Copying, MeetsAtMostOne, Overwriting, DisplacesFromFull
<1>5. ReadIsOfTheOldest /\ DestIsRead
    BY DEF Init, ReadIsOfTheOldest, Overtaken, DestIsRead
<1>6. Fifo!Init
    BY <1>3, WordsAssumption DEF Init, Fifo!Init
<1> QED BY <1>1, <1>4, <1>5, <1>6 DEF IInv

LEMMA StartPushMapped ==
    ASSUME IInv, NEW m \in Message, StartPush(m)
    PROVE  IInv' /\ UNCHANGED Fifo!lossyVars
<1>0. /\ wop = "none" /\ getFreeSize # 0
      /\ wop' = "push" /\ wmessage' = m /\ whead' = m_writeHead
      /\ UNCHANGED <<m_buffer, m_writeHead, m_readTail, wtail, wdone>>
      /\ UNCHANGED <<rop, rcount, rtail, dest, overlapped, displaced>>
    BY DEF StartPush, shared, consumer, history
<1>1. TypeInv'
    BY ProducerTyped DEF IInv, Producer
<1>2. getOccupiedSize' = getOccupiedSize /\ getOccupiedSize < Capacity
    BY <1>0, Numbers DEF IInv, getOccupiedSize
<1>3. MessageIsIn'
    BY <1>0, <1>2 DEF IInv, MessageIsIn, Copying
<1>4. MeetsAtMostOne' /\ DisplacesFromFull'
    BY <1>0 DEF IInv, MeetsAtMostOne, Overwriting, DisplacesFromFull
<1>5. ReadIsOfTheOldest' /\ DestIsRead'
    BY <1>0, <1>2, Numbers DEF IInv, ReadIsOfTheOldest, Overtaken, DestIsRead
<1>6. UNCHANGED Fifo!lossyVars
    BY <1>0 DEF Fifo!lossyVars, Contents
<1> QED BY <1>1, <1>3, <1>4, <1>5, <1>6 DEF IInv

LEMMA StartPushOverwriteMapped ==
    ASSUME IInv, AtMostOne, NEW m \in Message, StartPushOverwrite(m)
    PROVE  IInv' /\ [Fifo!Next]_(Fifo!lossyVars)
<1>0. /\ wop = "none" /\ wop' = IF getFreeSize = 0 THEN "full" ELSE "pushOverwrite"
      /\ wmessage' = m /\ whead' = m_writeHead
      /\ rop = "none" => overlapped' = overlapped
      /\ rop # "none" => /\ overlapped.read < MaxOverlap /\ rcount <= MaxOverlap
                         /\ overlapped' = [read |-> overlapped.read + 1, write |-> rcount]
      /\ UNCHANGED <<m_buffer, m_writeHead, m_readTail, wtail, wdone>>
      /\ UNCHANGED <<rop, rcount, rtail, dest, displaced>>
    BY DEF StartPushOverwrite, shared, consumer
<1>1. TypeInv'
    BY ProducerTyped DEF IInv, Producer
<1>2. getOccupiedSize' = getOccupiedSize /\ (wop' = "full" <=> getOccupiedSize = Capacity)
    BY <1>0, Numbers DEF IInv, getOccupiedSize
<1>3. rop # "none" => overlapped.read = 0 /\ rcount = 1 /\ overlapped' = [read |-> 1, write |-> 1]
    BY <1>0, Numbers, MaxOverlapAssumption DEF IInv, AtMostOne, ReadIsOfTheOldest
<1>4. MessageIsIn'
    BY <1>0, <1>2, Numbers DEF IInv, MessageIsIn, Copying
<1>5. MeetsAtMostOne' /\ DisplacesFromFull'
    BY <1>0, <1>2, <1>3 DEF IInv, MeetsAtMostOne, Overwriting, DisplacesFromFull
<1>6. ~Overtaken
    BY <1>3 DEF IInv, Overtaken, ReadIsOfTheOldest
<1>7. ReadIsOfTheOldest' /\ DestIsRead'
    BY <1>0, <1>2, <1>6 DEF IInv, ReadIsOfTheOldest, Overtaken, DestIsRead
<1>8. CASE getOccupiedSize = Capacity
    <2>1. Len(Contents) = Capacity
        BY <1>8, ContentsIsSequence DEF IInv
    <2>2. Fifo!FindFull
        BY <1>0, <1>2, <1>8, <2>1 DEF Fifo!FindFull, Contents
    <2> QED BY <1>1, <1>4, <1>5, <1>7, <2>2 DEF IInv, Fifo!Next
<1>9. CASE getOccupiedSize # Capacity
    <2>1. UNCHANGED Fifo!lossyVars
        BY <1>0, <1>2, <1>9 DEF Fifo!lossyVars, Contents
    <2> QED BY <1>1, <1>4, <1>5, <1>7, <2>1 DEF IInv
<1> QED BY <1>8, <1>9

LEMMA LoadTailMapped ==
    ASSUME IInv, LoadTail
    PROVE  IInv' /\ UNCHANGED Fifo!lossyVars
<1>0. /\ wop = "full" /\ wop' = "displace" /\ wtail' = Wrap(m_readTail + 1)
      /\ UNCHANGED <<m_buffer, m_writeHead, m_readTail, wmessage, whead, wdone>>
      /\ UNCHANGED <<rop, rcount, rtail, dest, overlapped, displaced>>
    BY DEF LoadTail, shared, consumer, history
<1>1. TypeInv'
    BY ProducerTyped DEF IInv, Producer
<1>2. getOccupiedSize' = getOccupiedSize
    BY <1>0 DEF getOccupiedSize
<1>3. MessageIsIn' /\ MeetsAtMostOne' /\ DisplacesFromFull'
    BY <1>0, <1>2 DEF IInv, MessageIsIn, Copying, MeetsAtMostOne, Overwriting, DisplacesFromFull
<1>4. ReadIsOfTheOldest' /\ DestIsRead'
    BY <1>0, <1>2 DEF IInv, ReadIsOfTheOldest, Overtaken, DestIsRead
<1>5. UNCHANGED Fifo!lossyVars
    BY <1>0 DEF Fifo!lossyVars, Contents
<1> QED BY <1>1, <1>3, <1>4, <1>5 DEF IInv

(* The first of the stored messages, and the queue without it. *)
LEMMA OldestIsHead ==
    ASSUME TypeInv, getOccupiedSize > 0
    PROVE  /\ Contents # << >> /\ Head(Contents) = m_buffer[m_readTail]
           /\ WindowOf(m_buffer, m_writeHead, Wrap(m_readTail + 1)) = Tail(Contents)
           /\ OccupiedBetween(m_writeHead, Wrap(m_readTail + 1)) = getOccupiedSize - 1
           /\ Wrap(m_readTail + 1) # m_readTail
<1>1. /\ m_buffer \in [Index -> Cell] /\ m_writeHead \in Index /\ m_readTail \in Index
      /\ Contents \in Seq(Cell) /\ Len(Contents) = getOccupiedSize
      /\ getOccupiedSize \in 0 .. Capacity
      /\ BytesAt(m_buffer, m_readTail, Contents)
    BY ContentsIsSequence
<1>2. CellOf(m_readTail, 0) = m_readTail /\ Wrap(m_readTail + 1) # m_readTail
    BY <1>1, BufferSizeAssumption DEF CellOf, Wrap, Index
<1>3. 0 \in 0 .. Len(Contents) - 1 /\ 1 \in 0 .. OccupiedBetween(m_writeHead, m_readTail)
    BY <1>1 DEF getOccupiedSize
<1>4. m_buffer[CellOf(m_readTail, 0)] = Contents[0 + 1]
    BY <1>1, <1>3 DEF BytesAt
<1>5. Contents # << >> /\ Head(Contents) = Contents[1]
    BY <1>1, <1>3
<1>6. WindowOf(m_buffer, m_writeHead, Wrap(m_readTail + 1)) = SubSeq(Contents, 2, Len(Contents))
    <2>1. 1 + 1 = 2
        OBVIOUS
    <2> QED BY <1>1, <1>3, <2>1, WindowAfterRemoval DEF Contents
<1>7. SubSeq(Contents, 2, Len(Contents)) = Tail(Contents)
    BY <1>1, <1>5
<1>8. OccupiedBetween(m_writeHead, Wrap(m_readTail + 1)) = getOccupiedSize - 1
    BY <1>1, <1>3, TailMoves DEF getOccupiedSize
<1> QED BY <1>2, <1>4, <1>5, <1>6, <1>7, <1>8

LEMMA DisplaceOldestMapped ==
    ASSUME IInv, AtMostOne, DisplaceOldest
    PROVE  IInv' /\ Fifo!Next
<1>0. /\ wop = "displace" /\ wop' = "pushOverwrite"
      /\ m_readTail' = wtail
      /\ displaced' = IF wtail = m_readTail THEN displaced ELSE <<m_buffer[m_readTail]>>
      /\ UNCHANGED <<m_buffer, m_writeHead, wmessage, whead, wdone>>
      /\ UNCHANGED <<rop, rcount, rtail, dest, overlapped>>
    BY DEF DisplaceOldest, consumer
<1>1. TypeInv'
    BY ProducerTyped DEF IInv, Producer
<1>2. /\ Capacity >= 2 /\ Capacity \in Nat
      /\ getOccupiedSize \in Nat /\ getOccupiedSize <= Capacity /\ getOccupiedSize > 0
    <2>1. /\ BufferSize \in Nat /\ Capacity = BufferSize - 1
          /\ getOccupiedSize \in 0 .. Capacity
        BY Numbers DEF IInv
    <2>2. getOccupiedSize = Capacity \/ getOccupiedSize = Capacity - 1
        BY <1>0 DEF IInv, DisplacesFromFull
    <2> QED BY <2>1, <2>2 DEF AtMostOne
<1>3. /\ Head(Contents) = m_buffer[m_readTail] /\ Contents # << >>
      /\ WindowOf(m_buffer, m_writeHead, Wrap(m_readTail + 1)) = Tail(Contents)
      /\ OccupiedBetween(m_writeHead, Wrap(m_readTail + 1)) = getOccupiedSize - 1
      /\ Wrap(m_readTail + 1) # m_readTail
    BY <1>2, OldestIsHead DEF IInv
<1>4. ~Overtaken
    BY <1>0 DEF IInv, ReadIsOfTheOldest
<1>5. MeetsAtMostOne' /\ DisplacesFromFull'
    BY <1>0 DEF IInv, MeetsAtMostOne, Overwriting, DisplacesFromFull
<1>6. DestIsRead'
    BY <1>0 DEF IInv, DestIsRead
<1>7. CASE wtail = m_readTail
    <2>1. getOccupiedSize = Capacity - 1 /\ getOccupiedSize' = getOccupiedSize /\ rop = "none"
        BY <1>0, <1>2, <1>3, <1>7 DEF IInv, DisplacesFromFull, getOccupiedSize
    <2>2. MessageIsIn' /\ ReadIsOfTheOldest'
        BY <1>0, <1>2, <2>1 DEF IInv, MessageIsIn, Copying, ReadIsOfTheOldest, Overtaken
    <2>3. Len(Contents) < Capacity /\ Contents' = Contents
        BY <1>0, <1>2, <1>7, <2>1, ContentsIsSequence DEF IInv, Contents
    <2>4. Fifo!FindRoomMade
        BY <1>0, <1>7, <2>3 DEF Fifo!FindRoomMade
    <2> QED BY <1>1, <1>5, <1>6, <2>2, <2>4 DEF IInv, Fifo!Next
<1>8. CASE wtail # m_readTail
    <2>1. m_readTail' = Wrap(m_readTail + 1) /\ getOccupiedSize' = getOccupiedSize - 1
        BY <1>0, <1>3, <1>8 DEF IInv, DisplacesFromFull, getOccupiedSize
    <2>2. MessageIsIn'
        BY <1>0, <1>2, <2>1 DEF IInv, MessageIsIn, Copying
    <2>3. rop # "none" => getOccupiedSize = Capacity /\ rcount = 1 /\ overlapped.read = 1
        BY <1>0 DEF IInv, DisplacesFromFull, MeetsAtMostOne, Overwriting
    <2>4. ReadIsOfTheOldest'
        <3>1. rop # "none" => rtail = -1 \/ rtail = m_readTail
            BY <1>4 DEF Overtaken
        <3>2. rop # "none" /\ ~Overtaken' => rcount <= getOccupiedSize'
            BY <1>2, <2>1, <2>3
        <3>3. Overtaken' => rtail = m_readTail /\ rop # "none"
            BY <1>0, <3>1 DEF Overtaken
        <3>4. Overtaken' => getOccupiedSize' = Capacity - 1
            BY <2>1, <2>3, <3>3
        <3> QED BY <1>0, <1>8, <2>1, <2>3, <3>2, <3>3, <3>4 DEF IInv, ReadIsOfTheOldest
    <2>5. Contents' = Tail(Contents)
        BY <1>0, <1>3, <2>1 DEF Contents
    <2>6. Fifo!Displace
        BY <1>0, <1>3, <1>8, <2>5 DEF Fifo!Displace
    <2> QED BY <1>1, <1>5, <1>6, <2>2, <2>4, <2>6 DEF IInv, Fifo!Next
<1> QED BY <1>7, <1>8

(* The cell that the producer writes is no stored one, nor the one that    *)
(* the consumer reads.                                                     *)
LEMMA WrittenCellIsFree ==
    ASSUME IInv, Copying
    PROVE  /\ whead \in Index /\ whead = m_writeHead
           /\ \A i \in 0 .. getOccupiedSize - 1 : whead # CellOf(m_readTail, i)
           /\ rop # "none" /\ rtail # -1 => rtail # whead
<1>1. /\ m_writeHead \in Index /\ m_readTail \in Index /\ rtail \in Index \cup {-1}
      /\ getOccupiedSize < Capacity /\ whead = m_writeHead
    BY DEF IInv, TypeInv, TypeOK, MessageIsIn, Copying
<1>2. /\ CellOf(m_writeHead, 0) = m_writeHead /\ CellOf(m_readTail, 0) = m_readTail
      /\ getOccupiedSize \in 0 .. Capacity /\ Capacity \in Nat
    BY <1>1, Numbers, BufferSizeAssumption DEF IInv, CellOf, Index
<1>3. 0 \in 0 .. Capacity - OccupiedBetween(m_writeHead, m_readTail) - 1
    BY <1>1, <1>2 DEF getOccupiedSize
<1>4. \A i \in 0 .. getOccupiedSize - 1 : m_writeHead # CellOf(m_readTail, i)
    BY <1>1, <1>2, <1>3, FreeCellIsNotStored DEF getOccupiedSize
<1>5. ASSUME rop # "none", rtail # -1 PROVE rtail # whead
    <2>1. CASE Overtaken
        <3>1. m_readTail = Wrap(rtail + 1) /\ OccupiedBetween(m_writeHead, m_readTail) = Capacity - 1
            BY <2>1 DEF IInv, ReadIsOfTheOldest, Copying, getOccupiedSize
        <3> QED BY <1>1, <1>5, <3>1, BufferSizeAssumption DEF OccupiedBetween, Wrap, Index, Capacity
    <2>2. CASE ~Overtaken
        <3>1. rtail = m_readTail /\ getOccupiedSize > 0
            BY <1>2, <1>5, <2>2, Numbers DEF IInv, Overtaken, ReadIsOfTheOldest
        <3>2. 0 \in 0 .. getOccupiedSize - 1
            BY <1>2, <3>1
        <3> QED BY <1>1, <1>2, <1>4, <3>1, <3>2
    <2> QED BY <2>1, <2>2
<1> QED BY <1>1, <1>4, <1>5

LEMMA CopyInMapped ==
    ASSUME IInv, CopyIn
    PROVE  IInv' /\ UNCHANGED Fifo!lossyVars
<1>0. /\ Copying /\ wdone < Words /\ wdone' = wdone + 1
      /\ m_buffer' = [m_buffer EXCEPT ![whead] = [m_buffer[whead] EXCEPT ![wdone + 1] = wmessage]]
      /\ UNCHANGED <<m_writeHead, m_readTail, wop, wmessage, whead, wtail>>
      /\ UNCHANGED <<rop, rcount, rtail, dest, overlapped, displaced>>
    BY DEF CopyIn, Copying, consumer, history
<1>1. TypeInv'
    BY ProducerTyped DEF IInv, Producer
<1>2. /\ whead \in Index /\ whead = m_writeHead
      /\ \A i \in 0 .. getOccupiedSize - 1 : whead # CellOf(m_readTail, i)
      /\ rop # "none" /\ rtail # -1 => rtail # whead
    BY <1>0, WrittenCellIsFree
<1>3. /\ m_buffer \in [Index -> Cell] /\ m_readTail \in Index /\ rtail \in Index \cup {-1}
      /\ wdone \in 0 .. Words /\ Words \in Nat
    BY WordsAssumption DEF IInv, TypeInv, TypeOK, Cell
<1>4. /\ SameElsewhere(m_buffer', m_buffer, {whead})
      /\ m_buffer'[whead] = [m_buffer[whead] EXCEPT ![wdone + 1] = wmessage]
    BY <1>0, <1>2, <1>3 DEF SameElsewhere
<1>5. getOccupiedSize' = getOccupiedSize
    BY <1>0 DEF getOccupiedSize
<1>6. MessageIsIn'
    <2>1. ASSUME NEW i \in 1 .. wdone + 1 PROVE m_buffer'[whead][i] = wmessage
        <3>1. m_buffer[whead] \in [1 .. Words -> Message] /\ i \in 1 .. Words
            BY <1>0, <1>2, <1>3 DEF Cell
        <3>2. i # wdone + 1 => i \in 1 .. wdone /\ m_buffer[whead][i] = wmessage
            BY <1>3 DEF IInv, MessageIsIn
        <3> QED BY <1>4, <3>1, <3>2
    <2> QED BY <1>0, <1>5, <2>1 DEF IInv, MessageIsIn, Copying
<1>7. MeetsAtMostOne' /\ DisplacesFromFull'
    BY <1>0, <1>5 DEF IInv, MeetsAtMostOne, Overwriting, DisplacesFromFull
<1>8. rop # "none" /\ rtail # -1 => m_buffer'[rtail] = m_buffer[rtail]
    BY <1>2, <1>3, <1>4 DEF SameElsewhere
<1>9. ReadIsOfTheOldest'
    BY <1>0, <1>5, <1>8 DEF IInv, ReadIsOfTheOldest, Overtaken
<1>10. DestIsRead'
    <2>1. CASE rtail = -1
        <3>1. rop # "none" => dest' = << >>
            BY <1>0, <2>1 DEF IInv, DestIsRead
        <3> QED BY <1>0, <3>1 DEF IInv, DestIsRead
    <2>2. CASE rtail # -1
        BY <1>0, <1>8, <2>2 DEF IInv, DestIsRead
    <2> QED BY <2>1, <2>2
<1>11. Contents' = Contents
    <2> DEFINE w == Contents
    <2>1. /\ w \in Seq(Cell) /\ Len(w) = getOccupiedSize /\ getOccupiedSize \in 0 .. Capacity
          /\ BytesAt(m_buffer, m_readTail, w)
        BY ContentsIsSequence DEF IInv
    <2>2. /\ Contents' \in Seq(Cell) /\ Len(Contents') = getOccupiedSize'
          /\ BytesAt(m_buffer', m_readTail', Contents')
        <3>1. /\ m_buffer' \in [Index -> Cell] /\ m_writeHead' \in Index /\ m_readTail' \in Index
            BY <1>1 DEF TypeInv, TypeOK, Cell
        <3> QED BY <3>1, WindowIsSequence DEF Contents, getOccupiedSize
    <2> HIDE DEF w
    <2>3. BytesAt(m_buffer', m_readTail, w)
        <3>1. CellsFrom(m_readTail, Len(w)) \cap {whead} = {}
            BY <1>2, <2>1 DEF CellsFrom
        <3>2. Len(w) <= BufferSize
            BY <2>1, BufferSizeAssumption DEF Capacity
        <3> QED BY <1>3, <1>4, <2>1, <3>1, <3>2, StoredIsKept
    <2>4. Contents' = w
        BY <1>0, <1>5, <2>1, <2>2, <2>3, BlockIsUnique
    <2> QED BY <2>4 DEF w
<1>12. UNCHANGED Fifo!lossyVars
    BY <1>0, <1>11 DEF Fifo!lossyVars
<1> QED BY <1>1, <1>6, <1>7, <1>9, <1>10, <1>12 DEF IInv

LEMMA StoreHeadMapped ==
    ASSUME IInv, AtMostOne, StoreHead
    PROVE  IInv' /\ Fifo!Next
<1>0. /\ Copying /\ wdone = Words
      /\ m_writeHead' = Wrap(whead + 1)
      /\ wop' = "none" /\ wdone' = 0 /\ whead' = 0
      /\ overlapped' = [overlapped EXCEPT !.write = 0]
      /\ UNCHANGED <<m_buffer, m_readTail, wtail, rop, rcount, rtail, dest, displaced>>
    BY DEF StoreHead, Copying, consumer
<1>1. TypeInv'
    BY ProducerTyped DEF IInv, Producer
<1>2. /\ Contents \in Seq(Cell) /\ Len(Contents) = getOccupiedSize
      /\ getOccupiedSize \in Nat /\ Capacity \in Nat /\ getOccupiedSize < Capacity
      /\ m_buffer \in [Index -> Cell] /\ m_writeHead \in Index /\ m_readTail \in Index
      /\ BytesAt(m_buffer, m_readTail, Contents) /\ whead = m_writeHead
    <2>1. getOccupiedSize < Capacity /\ whead = m_writeHead
        BY <1>0 DEF IInv, MessageIsIn, Copying
    <2>2. Capacity \in Nat
        BY BufferSizeAssumption DEF Capacity
    <2> QED BY <2>1, <2>2, ContentsIsSequence DEF IInv
<1>3. m_buffer[m_writeHead] = WordsOf(wmessage) /\ wmessage \in Message
    <2>1. m_buffer[m_writeHead] \in [1 .. Words -> Message]
        BY <1>2 DEF Cell
    <2>2. /\ \A i \in 1 .. Words : m_buffer[m_writeHead][i] = wmessage
          /\ wmessage \in Message
        BY <1>0, <1>2 DEF IInv, TypeInv, MessageIsIn, Copying
    <2> QED BY <2>1, <2>2 DEF WordsOf
<1>4. /\ getOccupiedSize' = getOccupiedSize + 1
      /\ Contents' = Contents \o <<WordsOf(wmessage)>>
    <2> DEFINE d == <<WordsOf(wmessage)>>
    <2>1. d \in Seq(Cell) /\ Len(d) = 1 /\ d[1] = WordsOf(wmessage)
        BY <1>3 DEF WordsOf, Cell
    <2>2. CellOf(m_writeHead, 0) = m_writeHead
        BY <1>2, BufferSizeAssumption DEF CellOf, Index
    <2>3. BytesAt(m_buffer, m_writeHead, d)
        <3> SUFFICES ASSUME NEW i \in 0 .. Len(d) - 1
                     PROVE  m_buffer[CellOf(m_writeHead, i)] = d[i + 1]
            BY DEF BytesAt
        <3>1. i = 0
            BY <2>1
        <3> QED BY <1>3, <2>1, <2>2, <3>1
    <2> HIDE DEF d
    <2>4. Len(d) <= Capacity - Len(Contents)
        BY <1>2, <2>1
    <2>5. WindowOf(m_buffer, Wrap(m_writeHead + Len(d)), m_readTail) = Contents \o d
        <3>1. Len(Contents) = OccupiedBetween(m_writeHead, m_readTail)
            BY <1>2 DEF getOccupiedSize
        <3>2. d \in Seq(Cell) /\ Contents \in Seq(Cell) /\ m_buffer \in [Index -> Cell]
              /\ m_writeHead \in Index /\ m_readTail \in Index
              /\ BytesAt(m_buffer, m_readTail, Contents)
            BY <1>2, <2>1
        <3> HIDE DEF Contents
        <3> QED BY <2>3, <2>4, <3>1, <3>2, WindowAfterHeadMoves, SMTT(30)
    <2>6. Contents' = Contents \o d
        BY <1>0, <1>2, <2>1, <2>5 DEF Contents
    <2>7. 1 \in 0 .. Capacity - OccupiedBetween(m_writeHead, m_readTail)
        BY <1>2 DEF getOccupiedSize
    <2>8. getOccupiedSize' = getOccupiedSize + 1
        BY <1>0, <1>2, <2>7, HeadMoves DEF getOccupiedSize
    <2> QED BY <2>6, <2>8 DEF d
<1>5. Contents' = Append(Contents, WordsOf(wmessage))
    BY <1>2, <1>4
<1>6. MessageIsIn' /\ DisplacesFromFull'
    BY <1>0 DEF MessageIsIn, Copying, DisplacesFromFull
<1>7. overlapped'.read = overlapped.read /\ overlapped'.write = 0
    BY <1>0, Numbers DEF IInv
<1>8. MeetsAtMostOne'
    BY <1>0, <1>7 DEF IInv, MeetsAtMostOne, Overwriting
<1>9. ReadIsOfTheOldest'
    <2>1. Overtaken' <=> Overtaken
        BY <1>0 DEF Overtaken
    <2>2. Overtaken => getOccupiedSize' = Capacity
        BY <1>0, <1>2, <1>4 DEF IInv, ReadIsOfTheOldest, Copying
    <2>3. rcount \in Nat
        BY Numbers DEF IInv
    <2> QED BY <1>0, <1>2, <1>4, <1>7, <2>1, <2>2, <2>3 DEF IInv, ReadIsOfTheOldest
<1>10. DestIsRead'
    BY <1>0 DEF IInv, DestIsRead
<1>11. Fifo!Store(WordsOf(wmessage))
    BY <1>0, <1>2, <1>5 DEF Fifo!Store, Copying
<1>12. Fifo!Next
    BY <1>3, <1>11 DEF Fifo!Next
<1> QED BY <1>1, <1>6, <1>8, <1>9, <1>10, <1>12 DEF IInv

LEMMA StartReadMapped ==
    ASSUME IInv, AtMostOne, NEW op \in {"pop", "peek", "drop"}, NEW count \in Nat \ {0},
           op \in {"pop", "peek"} => count = 1, StartRead(op, count), TypeInv'
    PROVE  IInv' /\ Fifo!Next
<1>0. /\ rop = "none" /\ getOccupiedSize > 0 /\ rcount' = SmallerOf(getOccupiedSize, count)
      /\ ~Overwriting => overlapped' = overlapped
      /\ Overwriting => /\ overlapped.write + rcount' <= MaxOverlap
                        /\ overlapped' = [write |-> overlapped.write + rcount', read |-> 1]
      /\ rop' = op /\ dest' = << >>
      /\ UNCHANGED <<m_buffer, m_writeHead, m_readTail, rtail, displaced>>
      /\ UNCHANGED <<wop, wmessage, whead, wtail, wdone>>
    BY DEF StartRead, shared, producer
<1>1. getOccupiedSize' = getOccupiedSize /\ getOccupiedSize \in Nat
    BY <1>0, Numbers DEF IInv, getOccupiedSize
<1>2. /\ rcount' \in Nat /\ rcount' >= 1 /\ rcount' <= getOccupiedSize
      /\ op \in {"pop", "peek"} => rcount' = 1
    BY <1>0, <1>1 DEF SmallerOf
<1>3. rtail = -1 /\ rtail' = -1
    BY <1>0 DEF IInv, ReadIsOfTheOldest
<1>4. Overwriting => overlapped.write = 0 /\ rcount' = 1 /\ overlapped' = [read |-> 1, write |-> 1]
    BY <1>0, <1>2, Numbers, MaxOverlapAssumption DEF IInv, AtMostOne
<1>5. MessageIsIn'
    BY <1>0, <1>1 DEF IInv, MessageIsIn, Copying
<1>6. MeetsAtMostOne'
    BY <1>0, <1>4 DEF IInv, MeetsAtMostOne, Overwriting
<1>7. DisplacesFromFull'
    <2>1. wop \in {"full", "displace"} => getOccupiedSize = Capacity
        BY <1>4 DEF IInv, DisplacesFromFull, Overwriting
    <2> QED BY <1>0, <1>1, <2>1 DEF IInv, DisplacesFromFull
<1>8. ReadIsOfTheOldest' /\ DestIsRead'
    <2>1. ReadIsOfTheOldest'
        BY <1>0, <1>1, <1>2, <1>3 DEF ReadIsOfTheOldest, Overtaken
    <2>2. DestIsRead'
        BY <1>0 DEF DestIsRead
    <2> QED BY <2>1, <2>2
<1>9. Fifo!StartRead
    BY <1>0, WordsAssumption DEF Fifo!StartRead, Contents
<1> QED BY <1>5, <1>6, <1>7, <1>8, <1>9 DEF IInv, Fifo!Next

LEMMA LoadReadTailMapped ==
    ASSUME IInv, LoadReadTail
    PROVE  IInv' /\ UNCHANGED Fifo!lossyVars
<1>0. /\ rop # "none" /\ rtail = -1 /\ rtail' = m_readTail
      /\ UNCHANGED <<m_buffer, m_writeHead, m_readTail, rop, rcount, dest>>
      /\ UNCHANGED <<wop, wmessage, whead, wtail, wdone, overlapped, displaced>>
    BY DEF LoadReadTail, shared, producer, history
<1>1. TypeInv'
    BY ConsumerTyped DEF IInv, Consumer
<1>2. getOccupiedSize' = getOccupiedSize
    BY <1>0 DEF getOccupiedSize
<1>3. MessageIsIn' /\ MeetsAtMostOne' /\ DisplacesFromFull'
    BY <1>0, <1>2 DEF IInv, MessageIsIn, Copying, MeetsAtMostOne, Overwriting, DisplacesFromFull
<1>4. ReadIsOfTheOldest' /\ DestIsRead'
    BY <1>0, <1>2 DEF IInv, ReadIsOfTheOldest, Overtaken, DestIsRead
<1>5. UNCHANGED Fifo!lossyVars
    BY <1>0 DEF Fifo!lossyVars, Contents
<1> QED BY <1>1, <1>3, <1>4, <1>5 DEF IInv

LEMMA CopyOutMapped ==
    ASSUME IInv, CopyOut
    PROVE  IInv' /\ UNCHANGED Fifo!lossyVars
<1>0. /\ rop \in {"pop", "peek"} /\ rtail # -1 /\ Len(dest) < Words
      /\ dest' = Append(dest, m_buffer[rtail][Len(dest) + 1])
      /\ UNCHANGED <<m_buffer, m_writeHead, m_readTail, rop, rcount, rtail>>
      /\ UNCHANGED <<wop, wmessage, whead, wtail, wdone, overlapped, displaced>>
    BY DEF CopyOut, shared, producer, history
<1>1. TypeInv'
    BY ConsumerTyped DEF IInv, Consumer
<1>2. getOccupiedSize' = getOccupiedSize
    BY <1>0 DEF getOccupiedSize
<1>3. MessageIsIn' /\ MeetsAtMostOne' /\ DisplacesFromFull'
    BY <1>0, <1>2 DEF IInv, MessageIsIn, Copying, MeetsAtMostOne, Overwriting, DisplacesFromFull
<1>4. ReadIsOfTheOldest'
    BY <1>0, <1>2 DEF IInv, ReadIsOfTheOldest, Overtaken
<1>5. DestIsRead'
    <2>1. dest \in Seq(Message) /\ Len(dest) \in Nat
        BY Numbers DEF IInv
    <2>2. Len(dest') = Len(dest) + 1
        BY <1>0, <2>1
    <2>3. ASSUME NEW i \in 1 .. Len(dest) + 1 PROVE dest'[i] = m_buffer[rtail][i]
        <3>1. i # Len(dest) + 1 => i \in 1 .. Len(dest) /\ dest[i] = m_buffer[rtail][i]
            BY <1>0, <2>1 DEF IInv, DestIsRead
        <3> QED BY <1>0, <2>1, <3>1
    <2> QED BY <1>0, <2>2, <2>3 DEF DestIsRead
<1>6. UNCHANGED Fifo!lossyVars
    BY <1>0 DEF Fifo!lossyVars, Contents
<1> QED BY <1>1, <1>3, <1>4, <1>5, <1>6 DEF IInv

(* A message that was copied out to its end is the one in the cell.        *)
LEMMA DestIsTheMessage ==
    ASSUME IInv, rop \in {"pop", "peek"}, rtail # -1, Len(dest) = Words
    PROVE  /\ dest = m_buffer[rtail]
           /\ Overtaken => displaced = <<dest>>
           /\ ~Overtaken => Contents # << >> /\ Head(Contents) = dest
<1>1. m_buffer \in [Index -> [1 .. Words -> Message]] /\ rtail \in Index /\ Words \in Nat
    BY WordsAssumption DEF IInv, TypeInv, TypeOK
<1>2. dest \in [1 .. Words -> Message]
    BY Numbers DEF IInv
<1>3. \A i \in 1 .. Words : dest[i] = m_buffer[rtail][i]
    BY DEF IInv, DestIsRead
<1>4. dest = m_buffer[rtail]
    <2>1. m_buffer[rtail] \in [1 .. Words -> Message]
        BY <1>1
    <2> QED BY <1>2, <1>3, <2>1
<1>5. Overtaken => displaced = <<dest>>
    BY <1>4 DEF IInv, ReadIsOfTheOldest
<1>6. ASSUME ~Overtaken PROVE Contents # << >> /\ Head(Contents) = dest
    <2>1. rtail = m_readTail
        BY <1>6 DEF Overtaken
    <2>2. rcount = 1 /\ rcount <= getOccupiedSize
        BY <1>6 DEF IInv, ReadIsOfTheOldest
    <2>3. getOccupiedSize > 0
        BY <2>2, Numbers DEF IInv
    <2> QED BY <1>4, <2>1, <2>3, OldestIsHead DEF IInv
<1> QED BY <1>4, <1>5, <1>6

LEMMA StoreTailMapped ==
    ASSUME IInv, StoreTail
    PROVE  IInv' /\ [Fifo!Next]_(Fifo!lossyVars)
<1>0. /\ rop \in {"pop", "drop"} /\ rtail # -1 /\ (rop = "pop" => Len(dest) = Words)
      /\ m_readTail' = Wrap(rtail + rcount)
      /\ rop' = "none" /\ rcount' = 0 /\ rtail' = -1
      /\ overlapped' = [overlapped EXCEPT !.read = 0]
      /\ UNCHANGED <<m_buffer, m_writeHead, dest, displaced>>
      /\ UNCHANGED <<wop, wmessage, whead, wtail, wdone>>
    BY DEF StoreTail, ReadEnds, producer
<1>1. TypeInv'
    BY ConsumerTyped DEF IInv, Consumer
<1>2. overlapped'.read = 0 /\ overlapped'.write = overlapped.write
    BY <1>0, Numbers DEF IInv
<1>3. MeetsAtMostOne'
    BY <1>0, <1>2 DEF IInv, MeetsAtMostOne, Overwriting
<1>4. ReadIsOfTheOldest' /\ DestIsRead'
    BY <1>0 DEF ReadIsOfTheOldest, Overtaken, DestIsRead
<1>5. rop = "drop" => dest = << >> /\ Len(dest) # Words
    BY WordsAssumption DEF IInv, DestIsRead
<1>6. CASE Overtaken
    <2>1. m_readTail' = m_readTail /\ wop \in {"pushOverwrite", "none"}
        BY <1>0, <1>6 DEF IInv, ReadIsOfTheOldest
    <2>2. getOccupiedSize' = getOccupiedSize /\ Contents' = Contents
        BY <1>0, <2>1 DEF getOccupiedSize, Contents
    <2>3. MessageIsIn' /\ DisplacesFromFull'
        BY <1>0, <2>1, <2>2 DEF IInv, MessageIsIn, Copying, DisplacesFromFull
    <2>4. CASE rop = "pop"
        <3>1. displaced = <<dest>>
            BY <1>0, <1>6, <2>4, DestIsTheMessage
        <3>2. Fifo!TakeDisplaced
            BY <1>0, <2>2, <2>4, <3>1 DEF Fifo!TakeDisplaced
        <3> QED BY <1>1, <1>3, <1>4, <2>3, <3>2 DEF IInv, Fifo!Next
    <2>5. CASE rop = "drop"
        <3>1. UNCHANGED Fifo!lossyVars
            BY <1>0, <1>5, <2>2, <2>5 DEF Fifo!lossyVars
        <3> QED BY <1>1, <1>3, <1>4, <2>3, <3>1 DEF IInv
    <2> QED BY <1>0, <2>4, <2>5
<1>7. CASE ~Overtaken
    <2>1. rtail = m_readTail /\ rcount # 0 /\ rcount <= getOccupiedSize
        BY <1>0, <1>7 DEF IInv, Overtaken, ReadIsOfTheOldest
    <2>2. /\ rcount \in 0 .. OccupiedBetween(m_writeHead, m_readTail)
          /\ rcount \in 0 .. Capacity /\ rcount \in Nat /\ Capacity \in Nat
          /\ getOccupiedSize \in 0 .. Capacity
        BY <2>1, Numbers DEF IInv, getOccupiedSize
    <2>3. getOccupiedSize' = getOccupiedSize - rcount
        BY <1>0, <2>1, <2>2, TailMoves, ContentsIsSequence DEF IInv, getOccupiedSize
    <2>4. Contents' = SubSeq(Contents, rcount + 1, Len(Contents))
        BY <1>0, <2>1, <2>2, WindowAfterRemoval, ContentsIsSequence DEF IInv, Contents
    <2>5. MessageIsIn'
        BY <1>0, <2>2, <2>3 DEF IInv, MessageIsIn, Copying
    <2>6. DisplacesFromFull'
        <3> SUFFICES ASSUME wop \in {"full", "displace"} PROVE DisplacesFromFull'
            BY <1>0 DEF DisplacesFromFull
        <3>1. rcount = 1 /\ overlapped.write = 1 /\ getOccupiedSize = Capacity
            BY <1>0 DEF IInv, MeetsAtMostOne, Overwriting, DisplacesFromFull
        <3>2. getOccupiedSize' = Capacity - 1 /\ overlapped'.write = 1
            BY <1>2, <2>3, <3>1
        <3>3. wop = "displace" => wtail = Wrap(m_readTail + 1)
            BY <2>2, <3>1 DEF IInv, DisplacesFromFull
        <3> QED BY <1>0, <2>1, <3>1, <3>2, <3>3 DEF DisplacesFromFull
    <2>7. CASE rop = "pop"
        <3>1. Contents # << >> /\ Head(Contents) = dest /\ rcount = 1
            BY <1>0, <1>7, <2>7, DestIsTheMessage DEF IInv, ReadIsOfTheOldest
        <3>2. Contents' = Tail(Contents)
            BY <2>4, <3>1, ContentsIsSequence, TailIsSubSeq DEF IInv
        <3>3. Fifo!Take
            BY <1>0, <2>7, <3>1, <3>2 DEF Fifo!Take
        <3> QED BY <1>1, <1>3, <1>4, <2>5, <2>6, <3>3 DEF IInv, Fifo!Next
    <2>8. CASE rop = "drop"
        <3>1. Fifo!Drop(rcount)
            BY <1>0, <1>5, <2>4, <2>8 DEF Fifo!Drop
        <3>2. Fifo!Next
            BY <2>2, <3>1 DEF Fifo!Next
        <3> QED BY <1>1, <1>3, <1>4, <2>5, <2>6, <3>2 DEF IInv
    <2> QED BY <1>0, <2>7, <2>8
<1> QED BY <1>6, <1>7

LEMMA EndPeekMapped ==
    ASSUME IInv, EndPeek
    PROVE  IInv' /\ Fifo!Next
<1>0. /\ rop = "peek" /\ Len(dest) = Words
      /\ rop' = "none" /\ rcount' = 0 /\ rtail' = -1
      /\ overlapped' = [overlapped EXCEPT !.read = 0]
      /\ UNCHANGED <<m_buffer, m_writeHead, m_readTail, dest, displaced>>
      /\ UNCHANGED <<wop, wmessage, whead, wtail, wdone>>
    BY DEF EndPeek, ReadEnds, shared, producer
<1>1. TypeInv'
    BY ConsumerTyped DEF IInv, Consumer
<1>2. overlapped'.read = 0 /\ overlapped'.write = overlapped.write
    BY <1>0, Numbers DEF IInv
<1>3. MeetsAtMostOne'
    BY <1>0, <1>2 DEF IInv, MeetsAtMostOne, Overwriting
<1>4. ReadIsOfTheOldest' /\ DestIsRead'
    BY <1>0 DEF ReadIsOfTheOldest, Overtaken, DestIsRead
<1>5. getOccupiedSize' = getOccupiedSize /\ Contents' = Contents
    BY <1>0 DEF getOccupiedSize, Contents
<1>6. MessageIsIn' /\ DisplacesFromFull'
    BY <1>0, <1>2, <1>5 DEF IInv, MessageIsIn, Copying, DisplacesFromFull
<1>7. rtail # -1
    BY <1>0, WordsAssumption DEF IInv, DestIsRead
<1>8. CASE Overtaken
    <2>1. displaced = <<dest>>
        BY <1>0, <1>7, <1>8, DestIsTheMessage
    <2>2. Fifo!TakeDisplaced
        BY <1>0, <1>5, <2>1 DEF Fifo!TakeDisplaced
    <2> QED BY <1>1, <1>3, <1>4, <1>6, <2>2 DEF IInv, Fifo!Next
<1>9. CASE ~Overtaken
    <2>1. Contents # << >> /\ Head(Contents) = dest
        BY <1>0, <1>7, <1>9, DestIsTheMessage
    <2>2. Fifo!Look
        BY <1>0, <1>5, <2>1 DEF Fifo!Look
    <2> QED BY <1>1, <1>3, <1>4, <1>6, <2>2 DEF IInv, Fifo!Next
<1> QED BY <1>8, <1>9

LEMMA ClearMapped ==
    ASSUME IInv, Clear
    PROVE  IInv' /\ Fifo!Next
<1>0. /\ wop = "none" /\ rop = "none" /\ m_readTail' = 0 /\ m_writeHead' = 0
      /\ UNCHANGED <<m_buffer, wop, wmessage, whead, wtail, wdone>>
      /\ UNCHANGED <<rop, rcount, rtail, dest, overlapped, displaced>>
    BY DEF Clear, producer, consumer, history
<1>1. TypeInv'
    BY ConsumerTyped DEF IInv
<1>2. MessageIsIn' /\ MeetsAtMostOne' /\ DisplacesFromFull'
    BY <1>0 DEF IInv, MessageIsIn, Copying, MeetsAtMostOne, Overwriting, DisplacesFromFull
<1>3. ReadIsOfTheOldest' /\ DestIsRead'
    BY <1>0 DEF IInv, ReadIsOfTheOldest, Overtaken, DestIsRead
<1>4. Contents' = << >>
    <2>1. m_buffer' \in [Index -> Cell] /\ 0 \in Index /\ OccupiedBetween(0, 0) = 0
        BY <1>0, ContentsIsSequence, BufferSizeAssumption DEF IInv, Index, OccupiedBetween, Wrap
    <2>2. Contents' = WindowOf(m_buffer', 0, 0)
        BY <1>0 DEF Contents
    <2>3. Contents' \in Seq(Cell) /\ Len(Contents') = 0
        BY <2>1, <2>2, WindowIsSequence
    <2> QED BY <2>3
<1>5. Len(Contents) \in 0 .. Capacity /\ Contents \in Seq(Cell)
    BY ContentsIsSequence DEF IInv
<1>6. SubSeq(Contents, Len(Contents) + 1, Len(Contents)) = << >>
    BY <1>5
<1>7. Fifo!Drop(Len(Contents))
    BY <1>0, <1>4, <1>6 DEF Fifo!Drop
<1> QED BY <1>1, <1>2, <1>3, <1>5, <1>7 DEF IInv, Fifo!Next

(* Every step of the two is a step of the queue or none. *)
LEMMA StepMapped ==
    ASSUME IInv, AtMostOne, Next
    PROVE  IInv' /\ [Fifo!Next]_(Fifo!lossyVars)
<1>1. ASSUME NEW m \in Message, StartPush(m) \/ StartPushOverwrite(m)
      PROVE  IInv' /\ [Fifo!Next]_(Fifo!lossyVars)
    BY <1>1, StartPushMapped, StartPushOverwriteMapped
<1>2. CASE LoadTail \/ DisplaceOldest
    BY <1>2, LoadTailMapped, DisplaceOldestMapped
<1>3. CASE CopyIn \/ StoreHead
    BY <1>3, CopyInMapped, StoreHeadMapped
<1>4. ASSUME Consumer PROVE TypeInv'
    BY <1>4, ConsumerTyped DEF IInv
<1>5. ASSUME NEW op \in {"pop", "peek"}, StartRead(op, 1)
      PROVE  IInv' /\ Fifo!Next
    <2>1. TypeInv'
        BY <1>4, <1>5 DEF Consumer
    <2> QED BY <1>5, <2>1, StartReadMapped
<1>6. ASSUME NEW count \in 1 .. MaxCount, StartRead("drop", count)
      PROVE  IInv' /\ Fifo!Next
    <2>1. TypeInv'
        BY <1>4, <1>6 DEF Consumer
    <2>2. count \in Nat \ {0}
        BY MaxCountAssumption
    <2> QED BY <1>6, <2>1, <2>2, StartReadMapped
<1>7. CASE LoadReadTail \/ CopyOut
    BY <1>7, LoadReadTailMapped, CopyOutMapped
<1>8. CASE StoreTail \/ EndPeek
    BY <1>8, StoreTailMapped, EndPeekMapped
<1>9. CASE Clear
    BY <1>9, ClearMapped
<1> QED BY <1>1, <1>2, <1>3, <1>5, <1>6, <1>7, <1>8, <1>9 DEF Next, Producer, Consumer

(* As long as no call meets two of the other side, and more than one       *)
(* message has room: what the consumer reads is a whole message, the       *)
(* oldest or the one just displaced, it removes no other, and a full queue *)
(* loses its oldest message only.                                          *)
THEOREM IsALossyFifo ==
    ASSUME MaxOverlap <= 1, BufferSize >= 3
    PROVE  Spec => ImplementsLossyFifo
<1>1. AtMostOne
    BY DEF AtMostOne
<1>2. Init => IInv /\ Fifo!Init
    BY InitMapped
<1>3. IInv /\ [Next]_vars => IInv' /\ [Fifo!Next]_(Fifo!lossyVars)
    <2> SUFFICES ASSUME IInv, [Next]_vars PROVE IInv' /\ [Fifo!Next]_(Fifo!lossyVars)
        OBVIOUS
    <2>1. CASE Next
        BY <1>1, <2>1, StepMapped
    <2>2. CASE UNCHANGED vars
        <3>1. UNCHANGED Fifo!lossyVars
            BY <2>2 DEF vars, shared, producer, consumer, history, Fifo!lossyVars, Contents
        <3>2. IInv'
            BY <2>2 DEF vars, shared, producer, consumer, history, IInv, TypeInv, TypeOK,
                        MessageIsIn, Copying, MeetsAtMostOne, Overwriting, DisplacesFromFull,
                        ReadIsOfTheOldest, Overtaken, DestIsRead, getOccupiedSize
        <3> QED BY <3>1, <3>2
    <2> QED BY <2>1, <2>2
<1> QED BY <1>2, <1>3, PTL DEF Spec, ImplementsLossyFifo, Fifo!Spec
=============================================================================

-------------------------- MODULE RingIndexProofs --------------------------
(***************************************************************************)
(* Facts about the index arithmetic of RingIndex, for every buffer size.   *)
(***************************************************************************)
EXTENDS RingIndex, SequenceTheorems, TLAPS

(* An index plus at most a whole buffer, or a difference of two indexes,   *)
(* is reduced to an index.                                                 *)
LEMMA WrapIsIndex ==
    ASSUME NEW x \in Int, -BufferSize <= x, x < 2 * BufferSize
    PROVE  Wrap(x) \in Index
BY BufferSizeAssumption DEF Wrap, Index

(* The occupied size counts at most Capacity cells. *)
LEMMA OccupiedIsBounded ==
    ASSUME NEW head \in Index, NEW tail \in Index
    PROVE  OccupiedBetween(head, tail) \in 0 .. Capacity
BY BufferSizeAssumption DEF OccupiedBetween, Wrap, Index, Capacity

(* A cell of a block that is no longer than the array is in the array. *)
LEMMA CellIsIndex ==
    ASSUME NEW start \in Index, NEW i \in 0 .. BufferSize - 1
    PROVE  CellOf(start, i) \in Index
BY BufferSizeAssumption DEF CellOf, Index

(* Two places of a block are two cells. *)
LEMMA CellsDiffer ==
    ASSUME NEW start \in Index,
           NEW i \in 0 .. BufferSize - 1, NEW j \in 0 .. BufferSize - 1,
           CellOf(start, i) = CellOf(start, j)
    PROVE  i = j
BY BufferSizeAssumption DEF CellOf, Index

(* Storing n bytes that fit adds n to the occupied size. *)
LEMMA HeadMoves ==
    ASSUME NEW head \in Index, NEW tail \in Index,
           NEW n \in 0 .. Capacity - OccupiedBetween(head, tail)
    PROVE  /\ Wrap(head + n) \in Index
           /\ OccupiedBetween(Wrap(head + n), tail) = OccupiedBetween(head, tail) + n
BY BufferSizeAssumption DEF OccupiedBetween, Wrap, Index, Capacity

(* Removing n bytes that are stored takes n from the occupied size. *)
LEMMA TailMoves ==
    ASSUME NEW head \in Index, NEW tail \in Index,
           NEW n \in 0 .. OccupiedBetween(head, tail)
    PROVE  /\ Wrap(tail + n) \in Index
           /\ OccupiedBetween(head, Wrap(tail + n)) = OccupiedBetween(head, tail) - n
BY BufferSizeAssumption DEF OccupiedBetween, Wrap, Index, Capacity

(* The cells behind the head that are free are none of the stored ones. *)
LEMMA FreeCellIsNotStored ==
    ASSUME NEW head \in Index, NEW tail \in Index,
           NEW i \in 0 .. Capacity - OccupiedBetween(head, tail) - 1,
           NEW j \in 0 .. OccupiedBetween(head, tail) - 1
    PROVE  CellOf(head, i) # CellOf(tail, j)
BY BufferSizeAssumption DEF OccupiedBetween, Wrap, CellOf, Index, Capacity

(* The place j of a block that starts n cells further on. *)
LEMMA CellAfterMove ==
    ASSUME NEW start \in Index, NEW n \in 0 .. BufferSize - 1,
           NEW j \in 0 .. BufferSize - 1, n + j < BufferSize
    PROVE  CellOf(Wrap(start + n), j) = CellOf(start, n + j)
BY BufferSizeAssumption DEF CellOf, Wrap, Index

(* The first free cell is the one after the stored bytes. *)
LEMMA HeadIsAfterStored ==
    ASSUME NEW head \in Index, NEW tail \in Index,
           NEW i \in 0 .. Capacity - OccupiedBetween(head, tail)
    PROVE  CellOf(head, i) = CellOf(tail, OccupiedBetween(head, tail) + i)
BY BufferSizeAssumption DEF OccupiedBetween, CellOf, Wrap, Index, Capacity
(* A move by nothing is no move. *)
LEMMA WrapOfIndex ==
    ASSUME NEW x \in Index
    PROVE  Wrap(x + 0) = x /\ Wrap(x) = x
BY BufferSizeAssumption DEF Wrap, Index

(* A head that moved over a full block, with the tail one cell further on, *)
(* is back where the tail would be if the buffer had been emptied first.   *)
LEMMA OverwriteAllIndexes ==
    ASSUME NEW head \in Index
    PROVE  /\ Wrap(head + Capacity) \in Index
           /\ Wrap(Wrap(head + Capacity) + 1) = head
           /\ OccupiedBetween(head, head) = 0
BY BufferSizeAssumption DEF Wrap, OccupiedBetween, Index, Capacity
-----------------------------------------------------------------------------
(* The first n cells from start on; the bytes of s are in those of them    *)
(* that it needs; nothing has changed but in the cells in question.        *)
CellsFrom(start, n) == {CellOf(start, i) : i \in 0 .. n - 1}

BytesAt(buffer, start, s) == \A i \in 0 .. Len(s) - 1 : buffer[CellOf(start, i)] = s[i + 1]

SameElsewhere(new, old, cells) == \A c \in Index \ cells : new[c] = old[c]

(* The n bytes from start on, as a sequence. *)
LEMMA BlockIsSequence ==
    ASSUME NEW Value, NEW buffer \in [Index -> Value], NEW start \in Index,
           NEW n \in 0 .. BufferSize
    PROVE  /\ BlockAt(buffer, start, n) \in Seq(Value)
           /\ Len(BlockAt(buffer, start, n)) = n
           /\ BytesAt(buffer, start, BlockAt(buffer, start, n))
<1>0. n \in Nat
    BY BufferSizeAssumption
<1>1. \A i \in 1 .. n : buffer[CellOf(start, i - 1)] \in Value
    <2> SUFFICES ASSUME NEW i \in 1 .. n PROVE CellOf(start, i - 1) \in Index
        OBVIOUS
    <2>1. i - 1 \in 0 .. BufferSize - 1
        BY BufferSizeAssumption
    <2> QED BY <2>1, CellIsIndex
<1> DEFINE b == [i \in 1 .. n |-> buffer[CellOf(start, i - 1)]]
<1>2. b \in Seq(Value) /\ Len(b) = n
    BY <1>0, <1>1
<1>3. \A i \in 0 .. n - 1 : buffer[CellOf(start, i)] = b[i + 1]
    <2> SUFFICES ASSUME NEW i \in 0 .. n - 1 PROVE buffer[CellOf(start, i)] = b[i + 1]
        OBVIOUS
    <2>1. i + 1 \in 1 .. n /\ (i + 1) - 1 = i
        BY <1>0
    <2> QED BY <2>1
<1> QED BY <1>2, <1>3 DEF BlockAt, BytesAt

(* There is only one sequence of n bytes from start on. *)
LEMMA BlockIsUnique ==
    ASSUME NEW Value, NEW buffer, NEW start,
           NEW s \in Seq(Value), NEW t \in Seq(Value), Len(s) = Len(t),
           BytesAt(buffer, start, s), BytesAt(buffer, start, t)
    PROVE  s = t
<1>1. ASSUME NEW i \in 1 .. Len(s) PROVE s[i] = t[i]
    <2>1. i - 1 \in 0 .. Len(s) - 1 /\ (i - 1) + 1 = i
        OBVIOUS
    <2>2. buffer[CellOf(start, i - 1)] = s[(i - 1) + 1]
        BY <2>1 DEF BytesAt
    <2>3. buffer[CellOf(start, i - 1)] = t[(i - 1) + 1]
        BY <2>1 DEF BytesAt
    <2> QED BY <2>1, <2>2, <2>3
<1> QED BY <1>1, SeqEqual

(* The bytes a reader may see are the ones in the stored cells, in order.  *)
LEMMA WindowIsSequence ==
    ASSUME NEW Value, NEW buffer \in [Index -> Value], NEW head \in Index, NEW tail \in Index
    PROVE  /\ WindowOf(buffer, head, tail) \in Seq(Value)
           /\ Len(WindowOf(buffer, head, tail)) = OccupiedBetween(head, tail)
           /\ BytesAt(buffer, tail, WindowOf(buffer, head, tail))
<1>1. OccupiedBetween(head, tail) \in 0 .. BufferSize
    BY OccupiedIsBounded, BufferSizeAssumption DEF Capacity
<1> QED BY <1>1, BlockIsSequence DEF WindowOf

(* The two memcpys of a push put each byte in its cell, and touch no other.*)
LEMMA CopiedIntoProperties ==
    ASSUME NEW Value, NEW buffer \in [Index -> Value], NEW start \in Index,
           NEW d \in Seq(Value), Len(d) <= Capacity
    PROVE  /\ CopiedInto(buffer, start, d) \in [Index -> Value]
           /\ BytesAt(CopiedInto(buffer, start, d), start, d)
           /\ SameElsewhere(CopiedInto(buffer, start, d), buffer, CellsFrom(start, Len(d)))
<1>0. Len(d) \in Nat /\ \A i \in 1 .. Len(d) : d[i] \in Value
    OBVIOUS
<1> DEFINE new == CopiedInto(buffer, start, d)
<1>1. /\ new = [c \in Index |-> new[c]]
      /\ \A c \in Index :
            new[c] = IF c >= start /\ c - start < Len(d) THEN d[c - start + 1]
                     ELSE IF c < start /\ c + (BufferSize - start) < Len(d)
                          THEN d[c + (BufferSize - start) + 1]
                     ELSE buffer[c]
    BY DEF CopiedInto
<1> HIDE DEF new
<1>2. ASSUME NEW c \in Index PROVE new[c] \in Value
    <2>1. CASE c >= start /\ c - start < Len(d)
        BY <1>0, <1>1, <2>1 DEF Index
    <2>2. CASE ~(c >= start /\ c - start < Len(d)) /\ c < start /\ c + (BufferSize - start) < Len(d)
        <3>1. c + (BufferSize - start) + 1 \in 1 .. Len(d)
            BY <1>0, <2>2, BufferSizeAssumption DEF Index
        <3> QED BY <1>0, <1>1, <2>2, <3>1
    <2>3. CASE ~(c >= start /\ c - start < Len(d)) /\ ~(c < start /\ c + (BufferSize - start) < Len(d))
        BY <1>1, <2>3
    <2> QED BY <2>1, <2>2, <2>3
<1>3. ASSUME NEW i \in 0 .. Len(d) - 1 PROVE new[CellOf(start, i)] = d[i + 1]
    <2>1. i \in 0 .. BufferSize - 1
        BY <1>0, BufferSizeAssumption DEF Capacity
    <2>2. CellOf(start, i) \in Index
        BY <2>1, CellIsIndex
    <2>3. CASE i < BufferSize - start
        <3>1. CellOf(start, i) = start + i
            BY <2>3 DEF CellOf
        <3>2. start + i >= start /\ (start + i) - start < Len(d) /\ (start + i) - start + 1 = i + 1
            BY <1>0, <2>1, BufferSizeAssumption DEF Index
        <3>3. new[start + i] = d[(start + i) - start + 1]
            BY <1>1, <2>2, <3>1, <3>2
        <3> QED BY <3>1, <3>2, <3>3
    <2>4. CASE ~(i < BufferSize - start)
        <3>1. CellOf(start, i) = i - (BufferSize - start)
            BY <2>4 DEF CellOf
        <3>2. /\ ~(i - (BufferSize - start) >= start)
              /\ i - (BufferSize - start) < start
              /\ i - (BufferSize - start) + (BufferSize - start) < Len(d)
              /\ i - (BufferSize - start) + (BufferSize - start) + 1 = i + 1
            BY <1>0, <2>1, BufferSizeAssumption DEF Index
        <3> QED BY <1>1, <2>2, <3>1, <3>2
    <2> QED BY <2>3, <2>4
<1>4. ASSUME NEW c \in Index \ CellsFrom(start, Len(d)) PROVE new[c] = buffer[c]
    <2>0. \A i \in 0 .. Len(d) - 1 : CellOf(start, i) # c
        BY DEF CellsFrom
    <2>1. ASSUME c >= start, c - start < Len(d) PROVE FALSE
        <3>1. c - start \in 0 .. Len(d) - 1 /\ CellOf(start, c - start) = c
            BY <1>0, <2>1, BufferSizeAssumption DEF CellOf, Index
        <3> QED BY <2>0, <3>1
    <2>2. ASSUME c < start, c + (BufferSize - start) < Len(d) PROVE FALSE
        <3>1. /\ c + (BufferSize - start) \in 0 .. Len(d) - 1
              /\ CellOf(start, c + (BufferSize - start)) = c
            BY <1>0, <2>2, BufferSizeAssumption DEF CellOf, Index
        <3> QED BY <2>0, <3>1
    <2> QED BY <1>1, <2>1, <2>2
<1> QED BY <1>1, <1>2, <1>3, <1>4 DEF new, BytesAt, SameElsewhere

-----------------------------------------------------------------------------
(* What is stored from start on, and how it is taken apart and put together. *)

LEMMA PrefixIsAt ==
    ASSUME NEW Value, NEW s \in Seq(Value), NEW buffer, NEW start, BytesAt(buffer, start, s),
           NEW n \in 0 .. Len(s)
    PROVE  /\ SubSeq(s, 1, n) \in Seq(Value) /\ Len(SubSeq(s, 1, n)) = n
           /\ BytesAt(buffer, start, SubSeq(s, 1, n))
<1> DEFINE p == SubSeq(s, 1, n)
<1>0. n \in Nat /\ Len(s) \in Nat
    OBVIOUS
<1>1. \A i \in 1 .. n : s[i] \in Value
    BY <1>0
<1>2. /\ p \in Seq(Value) /\ Len(p) = IF 1 <= n THEN n - 1 + 1 ELSE 0
      /\ \A i \in 1 .. n - 1 + 1 : p[i] = s[1 + i - 1]
    BY <1>0, <1>1, SubSeqProperties
<1> HIDE DEF p
<1>3. Len(p) = n /\ \A i \in 1 .. n : p[i] = s[i]
    BY <1>0, <1>2
<1>4. BytesAt(buffer, start, p)
    <2> SUFFICES ASSUME NEW i \in 0 .. n - 1 PROVE buffer[CellOf(start, i)] = p[i + 1]
        BY <1>3 DEF BytesAt
    <2>1. i \in 0 .. Len(s) - 1 /\ i + 1 \in 1 .. n
        BY <1>0
    <2>2. buffer[CellOf(start, i)] = s[i + 1]
        BY <2>1 DEF BytesAt
    <2> QED BY <1>3, <2>1, <2>2
<1> QED BY <1>2, <1>3, <1>4 DEF p

LEMMA SuffixIsAt ==
    ASSUME NEW Value, NEW s \in Seq(Value), Len(s) <= Capacity,
           NEW buffer, NEW start \in Index, BytesAt(buffer, start, s),
           NEW n \in 0 .. Len(s)
    PROVE  /\ SubSeq(s, n + 1, Len(s)) \in Seq(Value)
           /\ Len(SubSeq(s, n + 1, Len(s))) = Len(s) - n
           /\ BytesAt(buffer, Wrap(start + n), SubSeq(s, n + 1, Len(s)))
<1> DEFINE q == SubSeq(s, n + 1, Len(s))
<1>0. n \in Nat /\ Len(s) \in Nat
    OBVIOUS
<1>1. \A i \in n + 1 .. Len(s) : s[i] \in Value
    BY <1>0
<1>2. /\ q \in Seq(Value) /\ Len(q) = IF n + 1 <= Len(s) THEN Len(s) - (n + 1) + 1 ELSE 0
      /\ \A i \in 1 .. Len(s) - (n + 1) + 1 : q[i] = s[(n + 1) + i - 1]
    BY <1>0, <1>1, SubSeqProperties
<1> HIDE DEF q
<1>3. Len(q) = Len(s) - n /\ \A i \in 1 .. Len(s) - n : q[i] = s[n + i]
    BY <1>0, <1>2
<1>4. BytesAt(buffer, Wrap(start + n), q)
    <2> SUFFICES ASSUME NEW i \in 0 .. Len(q) - 1
                 PROVE  buffer[CellOf(Wrap(start + n), i)] = q[i + 1]
        BY DEF BytesAt
    <2>1. /\ n + i \in 0 .. Len(s) - 1 /\ i + 1 \in 1 .. Len(s) - n
          /\ (n + i) + 1 = n + (i + 1)
          /\ n \in 0 .. BufferSize - 1 /\ i \in 0 .. BufferSize - 1 /\ n + i < BufferSize
        BY <1>0, <1>3, BufferSizeAssumption DEF Capacity
    <2>2. CellOf(Wrap(start + n), i) = CellOf(start, n + i)
        BY <2>1, CellAfterMove
    <2>3. buffer[CellOf(start, n + i)] = s[(n + i) + 1]
        BY <2>1 DEF BytesAt
    <2>4. q[i + 1] = s[n + (i + 1)]
        BY <1>3, <2>1
    <2> QED BY <2>1, <2>2, <2>3, <2>4
<1> QED BY <1>2, <1>3, <1>4 DEF q

(* d lies right behind s. *)
LEMMA ConcatIsAt ==
    ASSUME NEW Value, NEW s \in Seq(Value), NEW d \in Seq(Value),
           NEW buffer, NEW start, NEW next,
           BytesAt(buffer, start, s), BytesAt(buffer, next, d),
           \A i \in 0 .. Len(d) - 1 : CellOf(next, i) = CellOf(start, Len(s) + i)
    PROVE  BytesAt(buffer, start, s \o d)
<1>1. /\ Len(s \o d) = Len(s) + Len(d)
      /\ \A i \in 1 .. Len(s) + Len(d) : (s \o d)[i] = IF i <= Len(s) THEN s[i] ELSE d[i - Len(s)]
    BY ConcatProperties
<1>2. ASSUME NEW i \in 0 .. Len(s) + Len(d) - 1
      PROVE  buffer[CellOf(start, i)] = (s \o d)[i + 1]
    <2>0. Len(s) \in Nat /\ Len(d) \in Nat /\ i + 1 \in 1 .. Len(s) + Len(d)
        OBVIOUS
    <2>1. CASE i < Len(s)
        <3>1. i \in 0 .. Len(s) - 1 /\ i + 1 <= Len(s)
            BY <2>0, <2>1
        <3>2. buffer[CellOf(start, i)] = s[i + 1]
            BY <3>1 DEF BytesAt
        <3> QED BY <1>1, <2>0, <3>1, <3>2
    <2>2. CASE ~(i < Len(s))
        <3> DEFINE k == i - Len(s)
        <3>1. /\ k \in 0 .. Len(d) - 1 /\ Len(s) + k = i
              /\ ~(i + 1 <= Len(s)) /\ (i + 1) - Len(s) = k + 1
            BY <2>0, <2>2
        <3> HIDE DEF k
        <3>2. buffer[CellOf(next, k)] = d[k + 1] /\ CellOf(next, k) = CellOf(start, Len(s) + k)
            BY <3>1 DEF BytesAt
        <3>3. (s \o d)[i + 1] = d[(i + 1) - Len(s)]
            BY <1>1, <2>0, <3>1
        <3> QED BY <3>1, <3>2, <3>3
    <2> QED BY <2>1, <2>2
<1> QED BY <1>1, <1>2 DEF BytesAt

(* What is stored stays what it is if only other cells are written. *)
LEMMA StoredIsKept ==
    ASSUME NEW Value, NEW s \in Seq(Value), Len(s) <= BufferSize,
           NEW old, NEW new, NEW start \in Index, NEW cells,
           BytesAt(old, start, s), SameElsewhere(new, old, cells),
           CellsFrom(start, Len(s)) \cap cells = {}
    PROVE  BytesAt(new, start, s)
<1> SUFFICES ASSUME NEW i \in 0 .. Len(s) - 1 PROVE new[CellOf(start, i)] = s[i + 1]
    BY DEF BytesAt
<1>1. i \in 0 .. BufferSize - 1
    BY BufferSizeAssumption
<1>2. CellOf(start, i) \in Index /\ CellOf(start, i) \in CellsFrom(start, Len(s))
    BY <1>1, CellIsIndex DEF CellsFrom
<1>3. new[CellOf(start, i)] = old[CellOf(start, i)]
    BY <1>2 DEF SameElsewhere
<1>4. old[CellOf(start, i)] = s[i + 1]
    BY DEF BytesAt
<1> QED BY <1>3, <1>4

(* The free cells behind the head and the stored ones have none in common. *)
LEMMA FreeCellsAreNotStored ==
    ASSUME NEW head \in Index, NEW tail \in Index,
           NEW m \in 0 .. Capacity - OccupiedBetween(head, tail),
           NEW n \in 0 .. OccupiedBetween(head, tail)
    PROVE  CellsFrom(tail, n) \cap CellsFrom(head, m) = {}
<1> SUFFICES ASSUME NEW i \in 0 .. m - 1, NEW j \in 0 .. n - 1
             PROVE  CellOf(head, i) # CellOf(tail, j)
    BY DEF CellsFrom
<1>1. OccupiedBetween(head, tail) \in Nat /\ Capacity \in Nat
    BY OccupiedIsBounded, BufferSizeAssumption DEF Capacity
<1>2. /\ i \in 0 .. Capacity - OccupiedBetween(head, tail) - 1
      /\ j \in 0 .. OccupiedBetween(head, tail) - 1
    BY <1>1
<1> QED BY <1>2, FreeCellIsNotStored
-----------------------------------------------------------------------------
(* The window that a reader sees, when it reads, removes and a writer stores. *)

(* A block that is read from the tail on is a prefix of the window. *)
LEMMA BlockIsPrefix ==
    ASSUME NEW Value, NEW buffer \in [Index -> Value], NEW head \in Index, NEW tail \in Index,
           NEW n \in 0 .. OccupiedBetween(head, tail)
    PROVE  BlockAt(buffer, tail, n) = SubSeq(WindowOf(buffer, head, tail), 1, n)
<1> DEFINE w == WindowOf(buffer, head, tail)
<1>1. w \in Seq(Value) /\ n \in 0 .. Len(w) /\ BytesAt(buffer, tail, w)
    BY WindowIsSequence, ZenonT(60)
<1> HIDE DEF w
<1>2. /\ SubSeq(w, 1, n) \in Seq(Value) /\ Len(SubSeq(w, 1, n)) = n
      /\ BytesAt(buffer, tail, SubSeq(w, 1, n))
    BY <1>1, PrefixIsAt
<1>3. n \in 0 .. BufferSize
    BY OccupiedIsBounded, BufferSizeAssumption DEF Capacity
<1>4. /\ BlockAt(buffer, tail, n) \in Seq(Value) /\ Len(BlockAt(buffer, tail, n)) = n
      /\ BytesAt(buffer, tail, BlockAt(buffer, tail, n))
    BY <1>3, BlockIsSequence
<1>5. BlockAt(buffer, tail, n) = SubSeq(w, 1, n)
    BY <1>2, <1>4, BlockIsUnique
<1> QED BY <1>5 DEF w

(* Moving the tail over n stored bytes takes the n oldest away. *)
LEMMA WindowAfterRemoval ==
    ASSUME NEW Value, NEW buffer \in [Index -> Value], NEW head \in Index, NEW tail \in Index,
           NEW n \in 0 .. OccupiedBetween(head, tail)
    PROVE  LET w == WindowOf(buffer, head, tail)
           IN  WindowOf(buffer, head, Wrap(tail + n)) = SubSeq(w, n + 1, Len(w))
<1> DEFINE w    == WindowOf(buffer, head, tail)
           next == Wrap(tail + n)
           v    == WindowOf(buffer, head, next)
<1>1. w \in Seq(Value) /\ Len(w) = OccupiedBetween(head, tail) /\ BytesAt(buffer, tail, w)
    BY WindowIsSequence
<1>2. next \in Index /\ OccupiedBetween(head, next) = OccupiedBetween(head, tail) - n
    BY TailMoves
<1> HIDE DEF w
<1>3. Len(w) <= Capacity
    BY <1>1, OccupiedIsBounded, BufferSizeAssumption DEF Capacity
<1>4. /\ SubSeq(w, n + 1, Len(w)) \in Seq(Value)
      /\ Len(SubSeq(w, n + 1, Len(w))) = Len(w) - n
      /\ BytesAt(buffer, next, SubSeq(w, n + 1, Len(w)))
    BY <1>1, <1>3, SuffixIsAt
<1> HIDE DEF next
<1>5. v \in Seq(Value) /\ Len(v) = OccupiedBetween(head, next) /\ BytesAt(buffer, next, v)
    BY <1>2, WindowIsSequence
<1> HIDE DEF v
<1>6. v = SubSeq(w, n + 1, Len(w))
    BY <1>1, <1>2, <1>4, <1>5, BlockIsUnique
<1> QED BY <1>6 DEF w, v, next

(* A head that moves over the bytes of d shows them behind the others. *)
LEMMA WindowAfterHeadMoves ==
    ASSUME NEW Value, NEW buffer \in [Index -> Value], NEW head \in Index, NEW tail \in Index,
           NEW s \in Seq(Value), Len(s) = OccupiedBetween(head, tail), BytesAt(buffer, tail, s),
           NEW d \in Seq(Value), Len(d) <= Capacity - Len(s), BytesAt(buffer, head, d)
    PROVE  /\ Wrap(head + Len(d)) \in Index
           /\ WindowOf(buffer, Wrap(head + Len(d)), tail) = s \o d
<1> DEFINE next == Wrap(head + Len(d))
           v    == WindowOf(buffer, next, tail)
<1>0. Len(s) \in Nat /\ Len(d) \in 0 .. Capacity - Len(s) /\ Capacity \in Nat
    BY BufferSizeAssumption DEF Capacity
<1>1. next \in Index /\ OccupiedBetween(next, tail) = Len(s) + Len(d)
    BY <1>0, HeadMoves
<1> HIDE DEF next
<1>2. v \in Seq(Value) /\ Len(v) = OccupiedBetween(next, tail) /\ BytesAt(buffer, tail, v)
    BY <1>1, WindowIsSequence
<1> HIDE DEF v
<1>3. \A i \in 0 .. Len(d) - 1 : CellOf(head, i) = CellOf(tail, Len(s) + i)
    <2> SUFFICES ASSUME NEW i \in 0 .. Len(d) - 1
                 PROVE  CellOf(head, i) = CellOf(tail, Len(s) + i)
        OBVIOUS
    <2>1. i \in 0 .. Capacity - Len(s)
        BY <1>0
    <2> QED BY <2>1, HeadIsAfterStored
<1>4. s \o d \in Seq(Value) /\ Len(s \o d) = Len(s) + Len(d)
    BY ConcatProperties
<1>5. BytesAt(buffer, tail, s \o d)
    BY <1>3, ConcatIsAt
<1>6. v = s \o d
    BY <1>1, <1>2, <1>4, <1>5, BlockIsUnique
<1> QED BY <1>1, <1>6 DEF v, next

(* A block that fits, copied in at the head and then shown by the new head,*)
(* comes after the stored bytes, which stay what they were.                *)
LEMMA WindowAfterStore ==
    ASSUME NEW Value, NEW buffer \in [Index -> Value], NEW head \in Index, NEW tail \in Index,
           NEW d \in Seq(Value), Len(d) <= Capacity - OccupiedBetween(head, tail)
    PROVE  /\ CopiedInto(buffer, head, d) \in [Index -> Value]
           /\ Wrap(head + Len(d)) \in Index
           /\ WindowOf(CopiedInto(buffer, head, d), Wrap(head + Len(d)), tail)
                = WindowOf(buffer, head, tail) \o d
<1> DEFINE w   == WindowOf(buffer, head, tail)
           new == CopiedInto(buffer, head, d)
<1>1. w \in Seq(Value) /\ Len(w) = OccupiedBetween(head, tail) /\ BytesAt(buffer, tail, w)
    BY WindowIsSequence
<1> HIDE DEF w
<1>2. /\ Len(w) \in 0 .. Capacity /\ Len(d) \in 0 .. Capacity - Len(w)
      /\ Len(d) <= Capacity /\ Len(w) <= BufferSize
    BY <1>1, OccupiedIsBounded, BufferSizeAssumption DEF Capacity
<1>3. /\ new \in [Index -> Value] /\ BytesAt(new, head, d)
      /\ SameElsewhere(new, buffer, CellsFrom(head, Len(d)))
    BY <1>2, CopiedIntoProperties
<1> HIDE DEF new
<1>4. CellsFrom(tail, Len(w)) \cap CellsFrom(head, Len(d)) = {}
    <2>1. Len(w) \in 0 .. OccupiedBetween(head, tail)
        BY <1>1, <1>2
    <2>2. Len(d) \in 0 .. Capacity - OccupiedBetween(head, tail)
        BY <1>1, <1>2
    <2> QED BY <2>1, <2>2, FreeCellsAreNotStored
<1>5. BytesAt(new, tail, w)
    BY <1>1, <1>2, <1>3, <1>4, StoredIsKept
<1>6. Len(d) <= Capacity - Len(w)
    BY <1>1
<1>7. Wrap(head + Len(d)) \in Index /\ WindowOf(new, Wrap(head + Len(d)), tail) = w \o d
    BY <1>1, <1>3, <1>5, <1>6, WindowAfterHeadMoves
<1> QED BY <1>3, <1>7 DEF w, new
-----------------------------------------------------------------------------
(* What is left of a sequence of which at most n elements have a place. *)
LastOf(s, n) == SubSeq(s, Len(s) - SmallerOf(n, Len(s)) + 1, Len(s))

(* Of a sequence and one that alone fills the queue, the newest elements   *)
(* are the last ones of the latter.                                        *)
LEMMA LastOfLong ==
    ASSUME NEW Value, NEW s \in Seq(Value), NEW d \in Seq(Value),
           NEW n \in Nat, Len(d) >= n
    PROVE  LastOf(s \o d, n) = SubSeq(d, Len(d) - n + 1, Len(d))
<1> DEFINE all == s \o d
           a == SubSeq(all, Len(all) - n + 1, Len(all))
           b == SubSeq(d, Len(d) - n + 1, Len(d))
<1>0. Len(s) \in Nat /\ Len(d) \in Nat
    OBVIOUS
<1>1. /\ all \in Seq(Value) /\ Len(all) = Len(s) + Len(d)
      /\ \A i \in 1 .. Len(s) + Len(d) : all[i] = IF i <= Len(s) THEN s[i] ELSE d[i - Len(s)]
    BY ConcatProperties
<1> HIDE DEF all
<1>2. LastOf(all, n) = a
    <2>1. SmallerOf(n, Len(all)) = n
        BY <1>0, <1>1 DEF SmallerOf
    <2> QED BY <2>1 DEF LastOf
<1>3. /\ b \in Seq(Value) /\ Len(b) = n
      /\ \A i \in 1 .. n : b[i] = d[Len(d) - n + i]
    <2> DEFINE m == Len(d) - n + 1
    <2>1. m \in Int /\ \A i \in m .. Len(d) : d[i] \in Value
        BY <1>0
    <2>2. /\ SubSeq(d, m, Len(d)) \in Seq(Value)
          /\ Len(SubSeq(d, m, Len(d))) = IF m <= Len(d) THEN Len(d) - m + 1 ELSE 0
          /\ \A i \in 1 .. Len(d) - m + 1 : SubSeq(d, m, Len(d))[i] = d[m + i - 1]
        BY <1>0, <2>1, SubSeqProperties
    <2> QED BY <1>0, <2>2
<1>4. /\ a \in Seq(Value) /\ Len(a) = n
      /\ \A i \in 1 .. n : a[i] = all[Len(all) - n + i]
    <2> DEFINE m == Len(all) - n + 1
    <2>1. m \in Int /\ \A i \in m .. Len(all) : all[i] \in Value
        BY <1>0, <1>1
    <2>2. /\ SubSeq(all, m, Len(all)) \in Seq(Value)
          /\ Len(SubSeq(all, m, Len(all))) = IF m <= Len(all) THEN Len(all) - m + 1 ELSE 0
          /\ \A i \in 1 .. Len(all) - m + 1 : SubSeq(all, m, Len(all))[i] = all[m + i - 1]
        BY <1>0, <1>1, <2>1, SubSeqProperties
    <2> QED BY <1>0, <1>1, <2>2
<1> HIDE DEF a, b
<1>5. ASSUME NEW i \in 1 .. n PROVE a[i] = b[i]
    <2> DEFINE j == Len(all) - n + i
    <2>1. /\ j \in 1 .. Len(s) + Len(d) /\ ~(j <= Len(s))
          /\ j - Len(s) = Len(d) - n + i
        BY <1>0, <1>1
    <2>2. a[i] = all[j] /\ b[i] = d[Len(d) - n + i]
        BY <1>3, <1>4
    <2> HIDE DEF j
    <2>3. all[j] = d[j - Len(s)]
        BY <1>1, <2>1
    <2> QED BY <2>1, <2>2, <2>3
<1>6. a = b
    BY <1>3, <1>4, <1>5, SeqEqual
<1> QED BY <1>2, <1>6 DEF all, b

(* Of a sequence and a shorter one, the newest elements are the latter and *)
(* what has place before it.                                               *)
LEMMA LastOfShort ==
    ASSUME NEW Value, NEW s \in Seq(Value), NEW d \in Seq(Value),
           NEW n \in Nat, Len(d) <= n, Len(s) + Len(d) >= n
    PROVE  LastOf(s \o d, n) = SubSeq(s, Len(s) + Len(d) - n + 1, Len(s)) \o d
<1> DEFINE all == s \o d
           k == Len(s) + Len(d) - n
           a == SubSeq(all, Len(all) - n + 1, Len(all))
           p == SubSeq(s, k + 1, Len(s))
           b == p \o d
<1>0. Len(s) \in Nat /\ Len(d) \in Nat /\ k \in 0 .. Len(s)
    OBVIOUS
<1>1. /\ all \in Seq(Value) /\ Len(all) = Len(s) + Len(d)
      /\ \A i \in 1 .. Len(s) + Len(d) : all[i] = IF i <= Len(s) THEN s[i] ELSE d[i - Len(s)]
    BY ConcatProperties
<1> HIDE DEF all
<1>2. LastOf(all, n) = a
    <2>1. SmallerOf(n, Len(all)) = n
        <3>1. Len(all) \in Nat /\ Len(all) >= n
            BY <1>0, <1>1
        <3> HIDE DEF k
        <3> QED BY <3>1 DEF SmallerOf
    <2> QED BY <2>1 DEF LastOf
<1>3. /\ p \in Seq(Value) /\ Len(p) = Len(s) - k
      /\ \A i \in 1 .. Len(s) - k : p[i] = s[k + i]
    <2> HIDE DEF k
    <2>1. \A i \in k + 1 .. Len(s) : s[i] \in Value
        BY <1>0
    <2>2. /\ p \in Seq(Value)
          /\ Len(p) = IF k + 1 <= Len(s) THEN Len(s) - (k + 1) + 1 ELSE 0
          /\ \A i \in 1 .. Len(s) - (k + 1) + 1 : p[i] = s[(k + 1) + i - 1]
        BY <1>0, <2>1, SubSeqProperties
    <2> QED BY <1>0, <2>2
<1> HIDE DEF p
<1>4. /\ b \in Seq(Value) /\ Len(b) = n
      /\ \A i \in 1 .. n : b[i] = IF i <= Len(p) THEN p[i] ELSE d[i - Len(p)]
    <2>1. /\ b \in Seq(Value) /\ Len(b) = Len(p) + Len(d)
          /\ \A i \in 1 .. Len(p) + Len(d) : b[i] = IF i <= Len(p) THEN p[i] ELSE d[i - Len(p)]
        BY <1>3, ConcatProperties
    <2> QED BY <1>0, <1>3, <2>1
<1>5. /\ a \in Seq(Value) /\ Len(a) = n
      /\ \A i \in 1 .. n : a[i] = all[k + i]
    <2>1. k + 1 \in Int /\ \A i \in k + 1 .. Len(all) : all[i] \in Value
        BY <1>0, <1>1
    <2>2. Len(all) - n + 1 = k + 1
        BY <1>0, <1>1
    <2> HIDE DEF k
    <2>3. /\ SubSeq(all, k + 1, Len(all)) \in Seq(Value)
          /\ Len(SubSeq(all, k + 1, Len(all)))
                = IF k + 1 <= Len(all) THEN Len(all) - (k + 1) + 1 ELSE 0
          /\ \A i \in 1 .. Len(all) - (k + 1) + 1 :
                SubSeq(all, k + 1, Len(all))[i] = all[(k + 1) + i - 1]
        BY <1>0, <1>1, <2>1, SubSeqProperties
    <2>4. n \in Nat /\ Len(all) = n + k /\ k \in Nat
        BY <1>0, <1>1 DEF k
    <2>5. /\ SubSeq(all, k + 1, Len(all)) \in Seq(Value)
          /\ Len(SubSeq(all, k + 1, Len(all))) = n
        BY <2>3, <2>4
    <2>6. \A i \in 1 .. n : SubSeq(all, k + 1, Len(all))[i] = all[k + i]
        <3> SUFFICES ASSUME NEW i \in 1 .. n
                     PROVE  SubSeq(all, k + 1, Len(all))[i] = all[k + i]
            OBVIOUS
        <3>1. i \in 1 .. Len(all) - (k + 1) + 1 /\ (k + 1) + i - 1 = k + i
            BY <2>4
        <3> QED BY <2>3, <3>1
    <2> QED BY <2>2, <2>5, <2>6
<1> HIDE DEF a, b
<1>6. ASSUME NEW i \in 1 .. n PROVE a[i] = b[i]
    <2>1. k + i \in 1 .. Len(s) + Len(d)
        BY <1>0
    <2>2. CASE i <= Len(s) - k
        <3>1. i <= Len(p) /\ k + i <= Len(s) /\ i \in 1 .. Len(s) - k
            BY <1>0, <1>3, <2>2
        <3> HIDE DEF k
        <3>2. all[k + i] = s[k + i]
            BY <1>1, <2>1, <3>1
        <3>3. b[i] = p[i] /\ p[i] = s[k + i]
            BY <1>3, <1>4, <3>1
        <3> QED BY <1>5, <3>2, <3>3
    <2>3. CASE ~(i <= Len(s) - k)
        <3>1. ~(i <= Len(p)) /\ ~(k + i <= Len(s)) /\ (k + i) - Len(s) = i - Len(p)
            BY <1>0, <1>3, <2>3
        <3>2. all[k + i] = d[(k + i) - Len(s)]
            BY <1>1, <2>1, <3>1
        <3>3. b[i] = d[i - Len(p)]
            BY <1>4, <3>1
        <3> QED BY <1>5, <3>1, <3>2, <3>3
    <2> QED BY <2>2, <2>3
<1>7. a = b
    BY <1>4, <1>5, <1>6, SeqEqual
<1> QED BY <1>2, <1>7 DEF all, b, p

(* A sequence that is not too long is all newest. *)
LEMMA LastOfAll ==
    ASSUME NEW Value, NEW s \in Seq(Value), NEW n \in Nat, Len(s) <= n
    PROVE  LastOf(s, n) = s
<1>1. SmallerOf(n, Len(s)) = Len(s) /\ Len(s) - Len(s) + 1 = 1
    BY DEF SmallerOf
<1>2. LastOf(s, n) = SubSeq(s, 1, Len(s))
    BY <1>1 DEF LastOf
<1> QED BY <1>2, SubSeqFull
=============================================================================

----------------------------- MODULE RingIndex -----------------------------
(***************************************************************************)
(* The index arithmetic shared by RingBuffer and MessageRingBuffer         *)
(* (include/RingBuffer.h).  Both keep a write head and a read tail in      *)
(* 0 .. BufferSize-1 and leave one cell unused, so that head = tail means  *)
(* empty and never full.                                                   *)
(***************************************************************************)
EXTENDS Integers, Sequences

CONSTANT BufferSize

(* The static_assert of both templates also asks for a power of two: that  *)
(* is what makes "& IndexMask" a reduction modulo BufferSize (IndexMask    *)
(* checks it bit by bit); nothing else in the model needs it.              *)
ASSUME BufferSizeAssumption == BufferSize \in Nat /\ BufferSize >= 2

Index == 0 .. BufferSize - 1

(* IndexMask, and also maxCapacity: one cell always stays free. *)
Capacity == BufferSize - 1

(* x & IndexMask for the values the code applies it to: a difference of    *)
(* two indexes (taken in size_t, modulo its width) or an index plus at     *)
(* most BufferSize.                                                        *)
Wrap_OffByOne(x) ==
    IF x < 0 THEN x + BufferSize
    ELSE IF x > BufferSize THEN x - BufferSize ELSE x
Wrap(x) ==
    IF x < 0 THEN x + BufferSize
    ELSE IF x >= BufferSize THEN x - BufferSize ELSE x

(* getOccupiedSize for a head and a tail that were loaded together. *)
OccupiedBetween(head, tail) == Wrap(head - tail)

(* The cell that the i-th byte (from 0) of a block starting at start lands *)
(* in: the first memcpy takes sizeToEnd bytes up to the end of the array,  *)
(* the second one goes on from cell 0.                                     *)
CellOf(start, i) ==
    IF i < BufferSize - start THEN start + i ELSE i - (BufferSize - start)

(* The n cells from start on, in reading order. *)
BlockAt(buffer, start, n) == [i \in 1 .. n |-> buffer[CellOf(start, i - 1)]]

(* The bytes a reader may see: from the tail up to the head. *)
WindowOf(buffer, head, tail) ==
    BlockAt(buffer, tail, OccupiedBetween(head, tail))

(* The array after the bytes of d were copied in from cell start on. *)
CopiedInto(buffer, start, d) ==
    LET sizeToEnd == BufferSize - start
    IN  [c \in Index |->
            IF c >= start /\ c - start < Len(d) THEN d[c - start + 1]
            ELSE IF c < start /\ c + sizeToEnd < Len(d) THEN d[c + sizeToEnd + 1]
            ELSE buffer[c]]

SmallerOf(a, b) == IF a < b THEN a ELSE b
=============================================================================

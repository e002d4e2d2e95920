----------------------------- MODULE IndexMask -----------------------------
(***************************************************************************)
(* The ring buffers reduce an index with "& IndexMask" and subtract        *)
(* indexes in size_t, which wraps at 2^Width.  This module does both bit   *)
(* by bit, on the indexes of RingBuffer, and compares them with the        *)
(* arithmetic of RingIndex that all the specifications use.                *)
(***************************************************************************)
EXTENDS RingBuffer, Bitwise

CONSTANT Width

(* The second static_assert. *)
ASSUME PowerOfTwoAssumption == BufferSize & (BufferSize - 1) = 0
ASSUME WidthAssumption == Width \in Nat /\ BufferSize <= 2^Width

Mask(x) == (x % 2^Width) & (BufferSize - 1)

(* head - tail is negative when the head has wrapped around and the tail   *)
(* has not: the mask still gives the number of stored bytes, and it gives  *)
(* the next index for every step the code takes, a whole buffer included.  *)
MaskIsModulo ==
    /\ Mask(m_writeHead - m_readTail) = getOccupiedSize
    /\ \A i \in {m_writeHead, m_readTail}, n \in 0 .. BufferSize :
           Mask(i + n) = Wrap(i + n)
=============================================================================

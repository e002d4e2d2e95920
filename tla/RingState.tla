----------------------------- MODULE RingState -----------------------------
(***************************************************************************)
(* The members of class RingBuffer (include/RingBuffer.h) and what its     *)
(* calls compute from them.  RingBuffer makes each call one step,          *)
(* RingBufferSpsc makes it several.                                        *)
(***************************************************************************)
EXTENDS RingIndex

CONSTANTS Byte,      \* the values of a byte, 0 among them
          Argument,  \* the byte strings a caller pushes, << >> among them
          MaxRead    \* the largest size a caller asks for

ASSUME ByteAssumption == 0 \in Byte
ASSUME ArgumentAssumption == Argument \subseteq Seq(Byte)
ASSUME MaxReadAssumption == MaxRead \in Nat

VARIABLES m_buffer, m_writeHead, m_readTail

(* Of two contexts each owns one of the indexes: the value depends on one  *)
(* load of the other side's index.                                         *)
getOccupiedSize == OccupiedBetween(m_writeHead, m_readTail)

getFreeSize == Capacity - getOccupiedSize

Empty ==
    /\ m_buffer = [c \in Index |-> 0]
    /\ m_writeHead = 0
    /\ m_readTail = 0

(* The bytes a reader may still take, oldest first. *)
Contents == WindowOf(m_buffer, m_writeHead, m_readTail)
=============================================================================

------------------------ MODULE RingBufferOverwrite ------------------------
(***************************************************************************)
(* RingBufferSpsc with a producer that also calls pushOverwrite, which     *)
(* stores the consumer's index, m_readTail, as well as its own.            *)
(*                                                                         *)
(* overwrites, fixed at the start, says how it is called: "never", so that *)
(* this is RingBufferSpsc; "exclusive", if the two contexts keep it and    *)
(* the reads apart, by masking the interrupt around each read for instance *)
(* (the code does not do it for them); or "preempting".                    *)
(***************************************************************************)
EXTENDS RingBufferSpsc

CONSTANT Usage   \* the ways to call pushOverwrite that are explored

ASSUME UsageAssumption == Usage \subseteq {"never", "exclusive", "preempting"}

VARIABLES
    ostage,   \* where pushOverwrite is: "none", "measured" (the free size is
              \* known), "copy1" or "copy2" (copying, scenario 1 or 2),
              \* "tail1" (head stored, tail not), "head2" (tail stored, head not)
    odata,    \* the bytes to copy, << >> if there is no call
    ohead,    \* the local copy of the head
    ooverflow,\* by how much the bytes do not fit, 0 if they do
    otail,    \* nextTail
    odone,    \* how many bytes are copied in
    intended, \* history: what was stored when the call started, then its bytes
    overwrites

overwriter == <<ostage, odata, ohead, ooverflow, otail, odone, intended>>
allVars == <<vars, overwriter, overwrites>>

OverwriteInit ==
    /\ Init
    /\ ostage = "none" /\ odata = << >> /\ ohead = 0 /\ ooverflow = 0
    /\ otail = 0 /\ odone = 0 /\ intended = << >>
    /\ overwrites \in Usage

NewestOf(s, n) == SubSeq(s, Len(s) - SmallerOf(n, Len(s)) + 1, Len(s))

MayStartOverwrite ==
    /\ ostage = "none"
    /\ wdata = << >>
    /\ overwrites # "never"
    /\ overwrites = "exclusive" => rop = "none"

(* Scenario 1: the data fills the whole buffer. *)
StartOverwriteAll(d) ==
    /\ MayStartOverwrite
    /\ Len(d) >= Capacity
    /\ ostage' = "copy1"
    /\ odata' = NewestOf(d, Capacity)
    /\ ohead' = m_writeHead
    /\ otail' = Wrap(Wrap(m_writeHead + Capacity) + 1)
    /\ odone' = 0
    /\ intended' = Contents \o d
    /\ UNCHANGED <<vars, ooverflow>>

(* Scenario 2: getFreeSize, then a second load of the tail. *)
MeasureOverwriteSome(d) ==
    /\ MayStartOverwrite
    /\ Len(d) \in 1 .. Capacity - 1
    /\ ostage' = "measured"
    /\ odata' = d
    /\ ohead' = m_writeHead
    /\ ooverflow' = IF Len(d) > getFreeSize THEN Len(d) - getFreeSize ELSE 0
    /\ intended' = Contents \o d
    /\ UNCHANGED <<vars, otail, odone>>

StartOverwriteSome ==
    /\ ostage = "measured"
    /\ ostage' = "copy2"
    /\ otail' = Wrap(m_readTail + ooverflow)
    /\ odone' = 0
    /\ UNCHANGED <<vars, odata, ohead, ooverflow, intended>>

OverwriteCopyIn ==
    /\ ostage \in {"copy1", "copy2"}
    /\ odone < Len(odata)
    /\ m_buffer' = [m_buffer EXCEPT ![CellOf(ohead, odone)] = odata[odone + 1]]
    /\ odone' = odone + 1
    /\ UNCHANGED <<m_writeHead, m_readTail, producer, consumer>>
    /\ UNCHANGED <<ostage, odata, ohead, ooverflow, otail, intended>>

(* The call returns; its locals are gone. *)
OverwriteEnds ==
    /\ ostage' = "none" /\ odata' = << >> /\ ohead' = 0 /\ ooverflow' = 0
    /\ otail' = 0 /\ odone' = 0 /\ intended' = << >>

StoreHead1 ==
    /\ ostage = "copy1"
    /\ odone = Len(odata)
    /\ m_writeHead' = Wrap(ohead + Capacity)
    /\ ostage' = "tail1"
    /\ UNCHANGED <<m_buffer, m_readTail, producer, consumer>>
    /\ UNCHANGED <<odata, ohead, ooverflow, otail, odone, intended>>

StoreTail1 ==
    /\ ostage = "tail1"
    /\ m_readTail' = otail
    /\ OverwriteEnds
    /\ UNCHANGED <<m_buffer, m_writeHead, producer, consumer>>

StoreTail2_OneShort ==
    /\ ostage = "copy2"
    /\ odone = Len(odata)
    /\ m_readTail' = IF ooverflow > 1 THEN otail ELSE m_readTail
    /\ ostage' = "head2"
    /\ UNCHANGED <<m_buffer, m_writeHead, producer, consumer>>
    /\ UNCHANGED <<odata, ohead, ooverflow, otail, odone, intended>>
StoreTail2 ==
    /\ ostage = "copy2"
    /\ odone = Len(odata)
    /\ m_readTail' = IF ooverflow > 0 THEN otail ELSE m_readTail
    /\ ostage' = "head2"
    /\ UNCHANGED <<m_buffer, m_writeHead, producer, consumer>>
    /\ UNCHANGED <<odata, ohead, ooverflow, otail, odone, intended>>

StoreHead2 ==
    /\ ostage = "head2"
    /\ m_writeHead' = Wrap(ohead + Len(odata))
    /\ OverwriteEnds
    /\ UNCHANGED <<m_buffer, m_readTail, producer, consumer>>

Overwriter ==
    \/ \E d \in Argument : StartOverwriteAll(d) \/ MeasureOverwriteSome(d)
    \/ StartOverwriteSome \/ OverwriteCopyIn
    \/ StoreHead1 \/ StoreTail1 \/ StoreTail2 \/ StoreHead2

OverwriteNext ==
    /\ \/ ostage = "none" /\ Producer /\ UNCHANGED overwriter
       \/ /\ overwrites = "exclusive" => ostage = "none"
          /\ Consumer
          /\ UNCHANGED overwriter
       \/ Overwriter
    /\ UNCHANGED overwrites

OverwriteSpec == OverwriteInit /\ [][OverwriteNext]_allVars
-----------------------------------------------------------------------------
(* ImplementsFifo of the producer that never calls pushOverwrite, in the   *)
(* form that TLC takes (overwrites never changes): under every preemption  *)
(* the consumer receives the accepted bytes, all of them, once, and in the *)
(* order in which they were pushed.                                        *)
ImplementsFifoUnlessDisplaced ==
    /\ overwrites = "never" => Fifo!Init
    /\ [][overwrites = "never" => [Fifo!Next]_(Fifo!fifoVars)]_allVars

(* When pushOverwrite returns, the buffer holds the newest bytes, as many  *)
(* as fit: only the oldest unread ones made room.  (A read that it         *)
(* preempts may move the tail or drop bytes in the middle of it.)          *)
OverwriteKeepsNewest ==
    [][overwrites # "preempting" /\ ostage # "none" /\ ostage' = "none" =>
          Contents' = NewestOf(intended, Capacity)]_allVars

(* "overwriting old (unreaded) data" (RingBuffer.h:91) and nothing else: a *)
(* pop that ends after pushOverwrite has ended takes out of the buffer at  *)
(* most the bytes it returned, those that pushOverwrite had not displaced  *)
(* already; every byte stored after them can still be read.  (A pop that it *)
(* preempts stores its own, older tail over the one of pushOverwrite.)     *)
PopRemovesOnlyWhatItReturned ==
    [][overwrites # "preempting" /\ rop = "pop" /\ rop' = "none" /\ ostage = "none" =>
          \E displaced \in 0 .. Len(dest) :
              Contents = SubSeq(dest, displaced + 1, Len(dest)) \o Contents']_allVars

(* "First move the tail so that the reader does not go into the incorrect  *)
(* zone!" (RingBuffer.h:121): the first of the two stores of scenario 1    *)
(* leaves nothing to read, or the oldest of the bytes that were put in; no *)
(* reader gets the newest bytes first and the same bytes again afterwards. *)
FirstStoreExposesOldestOnly ==
    [][ostage = "copy1" /\ ostage' # "copy1" =>
          Contents' = SubSeq(odata, 1, Len(Contents'))]_allVars
=============================================================================

------------------------------- MODULE Parser -------------------------------
(***************************************************************************)
(* ParserInterface (include/ParserIface.h): packets of a preamble, a       *)
(* header that tells the size, and a payload are cut out of a ring buffer  *)
(* that an interrupt fills while the parser, called by a deferred handler, *)
(* reads it.                                                               *)
(*                                                                         *)
(* The ring buffer is the bounded queue that RingBufferSpsc implements:    *)
(* the parser asks for a size before it reads, so that what it reads is    *)
(* there.  m_buffer holds only what was read in the same step.             *)
(*                                                                         *)
(* allowed, fixed at the start, names what the callers may do that the     *)
(* parser does not stand:                                                  *)
(*   "displace"  the interrupt uses pushOverwrite, not push;               *)
(*   "clear"     the ring buffer is cleared between two calls;             *)
(*   "mainLoop"  the handler is a slot of SignalMainLoop, which forgets    *)
(*               the activations that arrive while it runs.                *)
(***************************************************************************)
EXTENDS Integers, Sequences

CONSTANTS Byte, Capacity,
          Magic,        \* the preamble
          HeaderSize,
          PackSize,     \* getPackSize of the derived class
          Intact,       \* the packets whose checksum is right: checkPackCrc
          BuffSize,     \* the size of m_buffer
          Chunk,        \* what the interrupt pushes in one call
          MaxStream,    \* bound: bytes received
          Usage         \* the sets of calls to explore

Header == [1 .. HeaderSize -> Byte]
Calls == {"displace", "clear", "mainLoop"}

ASSUME SizesAssumption ==
    /\ Capacity \in Nat \ {0} /\ HeaderSize \in Nat /\ MaxStream \in Nat
    /\ BuffSize \in Nat /\ BuffSize >= Len(Magic) + HeaderSize
ASSUME MagicAssumption == Magic \in Seq(Byte) /\ Magic # << >>
ASSUME PackSizeAssumption == PackSize \in [Header -> Nat]
ASSUME ChunkAssumption == Chunk \subseteq Seq(Byte) \ {<< >>}
ASSUME UsageAssumption == Usage \subseteq SUBSET Calls

VARIABLES
    rbuf,           \* the stored bytes, oldest first
    notified,       \* whether the deferred handler has been asked for
    m_parserState, m_packSize,
    pc,             \* where parseNewData is: "idle", "loop", "case", "drop",
                    \* "return"
    stream,         \* history: the bytes accepted so far
    handled,        \* history: the packets given to handleMessage
    allowed

parser == <<m_parserState, m_packSize, pc>>
parserVars == <<rbuf, notified, parser, stream, handled, allowed>>

Without(calls) == calls \cap allowed = {}

MagicSize == Len(Magic)
First(n, s) == SubSeq(s, 1, n)
Rest(n, s) == SubSeq(s, n + 1, Len(s))

Init == /\ rbuf = << >> /\ notified = FALSE
        /\ m_parserState = "SearchForPreamble" /\ m_packSize = 0
        /\ pc = "idle"
        /\ stream = << >> /\ handled = << >>
        /\ allowed \in Usage
-----------------------------------------------------------------------------
(* The interrupt: a push that does not fit is refused whole, pushOverwrite *)
(* makes room.  Then it activates the signal of the deferred handler.      *)
Receive(d) ==
    /\ Len(stream) + Len(d) <= MaxStream
    /\ Len(rbuf) + Len(d) <= Capacity
    /\ rbuf' = rbuf \o d
    /\ stream' = stream \o d
    /\ notified' = TRUE
    /\ UNCHANGED <<parser, handled, allowed>>

ReceiveOverwriting(d) ==
    /\ "displace" \in allowed
    /\ Len(stream) + Len(d) <= MaxStream
    /\ Len(rbuf) + Len(d) > Capacity
    /\ LET all == rbuf \o d IN rbuf' = Rest(Len(all) - Capacity, all)
    /\ stream' = stream \o d
    /\ notified' = TRUE
    /\ UNCHANGED <<parser, handled, allowed>>

ClearBetweenCalls ==
    /\ "clear" \in allowed
    /\ pc = "idle"
    /\ rbuf # << >>
    /\ rbuf' = << >>
    /\ UNCHANGED <<notified, parser, stream, handled, allowed>>
-----------------------------------------------------------------------------
StartParse ==
    /\ pc = "idle"
    /\ notified
    /\ pc' = "loop"
    /\ notified' = ("mainLoop" \in allowed)
    /\ UNCHANGED <<rbuf, m_parserState, m_packSize, stream, handled, allowed>>

Leave ==
    /\ pc' = "return"
    /\ UNCHANGED <<rbuf, notified, m_parserState, m_packSize, stream, handled, allowed>>

LoopEnds ==
    /\ pc = "loop"
    /\ rbuf = << >>
    /\ Leave

(* SignalMainLoop clears m_activated when its slot has returned. *)
Return ==
    /\ pc = "return"
    /\ pc' = "idle"
    /\ notified' = (notified /\ "mainLoop" \notin allowed)
    /\ UNCHANGED <<rbuf, m_parserState, m_packSize, stream, handled, allowed>>

LoopGoesOn ==
    /\ pc = "loop"
    /\ rbuf # << >>
    /\ pc' = "case"
    /\ UNCHANGED <<rbuf, notified, m_parserState, m_packSize, stream, handled, allowed>>

Needed == CASE m_parserState = "SearchForPreamble" -> MagicSize
            [] m_parserState = "ReadHeader"        -> MagicSize + HeaderSize
            [] m_parserState = "ReadPayload"       -> m_packSize

AwaitMore ==
    /\ pc = "case"
    /\ Len(rbuf) < Needed
    /\ Leave

(* The size was checked: peek and the decision on what it read. *)
LookForPreamble ==
    /\ pc = "case" /\ m_parserState = "SearchForPreamble"
    /\ Len(rbuf) >= Needed
    /\ IF First(MagicSize, rbuf) = Magic
       THEN m_parserState' = "ReadHeader" /\ pc' = "loop"
       ELSE pc' = "drop" /\ UNCHANGED m_parserState
    /\ UNCHANGED <<rbuf, notified, m_packSize, stream, handled, allowed>>

LookAtHeader_TakesSizeZero ==
    /\ pc = "case" /\ m_parserState = "ReadHeader"
    /\ Len(rbuf) >= Needed
    /\ m_packSize' = PackSize[Rest(MagicSize, First(MagicSize + HeaderSize, rbuf))]
    /\ IF m_packSize' > BuffSize
       THEN pc' = "drop" /\ UNCHANGED m_parserState
       ELSE m_parserState' = "ReadPayload" /\ pc' = "loop"
    /\ UNCHANGED <<rbuf, notified, stream, handled, allowed>>
LookAtHeader ==
    /\ pc = "case" /\ m_parserState = "ReadHeader"
    /\ Len(rbuf) >= Needed
    /\ m_packSize' = PackSize[Rest(MagicSize, First(MagicSize + HeaderSize, rbuf))]
    /\ IF m_packSize' = 0 \/ m_packSize' > BuffSize
       THEN pc' = "drop" /\ UNCHANGED m_parserState
       ELSE m_parserState' = "ReadPayload" /\ pc' = "loop"
    /\ UNCHANGED <<rbuf, notified, stream, handled, allowed>>

DropOne_WholePreamble ==
    /\ pc = "drop"
    /\ rbuf' = Rest(MagicSize, rbuf)
    /\ m_parserState' = "SearchForPreamble"
    /\ pc' = "loop"
    /\ UNCHANGED <<notified, m_packSize, stream, handled, allowed>>
DropOne_AndReturns ==
    /\ pc = "drop"
    /\ rbuf' = Rest(1, rbuf)
    /\ m_parserState' = "SearchForPreamble"
    /\ pc' = "idle"
    /\ UNCHANGED <<notified, m_packSize, stream, handled, allowed>>
(* Neither a preamble nor a header: the search goes on one byte further. *)
DropOne ==
    /\ pc = "drop"
    /\ rbuf' = Rest(1, rbuf)
    /\ m_parserState' = "SearchForPreamble"
    /\ pc' = "loop"
    /\ UNCHANGED <<notified, m_packSize, stream, handled, allowed>>

Given(pack) == IF pack \in Intact THEN <<pack>> ELSE << >>

(* Whether its checksum is right or not, the whole packet is consumed. *)
TakePacket ==
    /\ pc = "case" /\ m_parserState = "ReadPayload"
    /\ Len(rbuf) >= Needed
    /\ handled' = handled \o Given(First(m_packSize, rbuf))
    /\ rbuf' = Rest(m_packSize, rbuf)
    /\ m_parserState' = "SearchForPreamble"
    /\ pc' = "loop"
    /\ UNCHANGED <<notified, m_packSize, stream, allowed>>

parseNewData ==
    \/ StartParse \/ LoopEnds \/ LoopGoesOn \/ AwaitMore \/ Return
    \/ LookForPreamble \/ LookAtHeader \/ DropOne \/ TakePacket

Next == \/ \E d \in Chunk : Receive(d) \/ ReceiveOverwriting(d)
        \/ ClearBetweenCalls
        \/ parseNewData

(* The main loop or the task calls the handler that was asked for, and the *)
(* handler runs on.  Nothing makes bytes arrive.                           *)
Spec == Init /\ [][Next]_parserVars /\ WF_parserVars(parseNewData)
-----------------------------------------------------------------------------
(* The packets of a stream, read as a whole, from each place on: each      *)
(* begins with the first preamble that has a valid header behind the end   *)
(* of the one before it.                                                   *)
SizeAt(s, p) == PackSize[Rest(MagicSize, SubSeq(s, p, p + MagicSize + HeaderSize - 1))]

BeginsAt(s, p) ==
    /\ p + MagicSize + HeaderSize - 1 <= Len(s)
    /\ SubSeq(s, p, p + MagicSize - 1) = Magic
    /\ SizeAt(s, p) \in 1 .. BuffSize

PacketsOf(s) ==
    LET packets[p \in 1 .. Len(s) + 1] ==
            LET begins == {q \in p .. Len(s) : BeginsAt(s, q)}
                q      == CHOOSE b \in begins : \A c \in begins : b <= c
                end    == q + SizeAt(s, q)
            IN  IF begins = {} THEN << >>
                ELSE IF end > Len(s) + 1 THEN << >>
                ELSE Given(SubSeq(s, q, end - 1)) \o packets[end]
    IN  packets

Framing(s) == PacketsOf(s)[1]
-----------------------------------------------------------------------------
(* The size that a payload is read with has passed the checks of the       *)
(* header, however long ago that was.                                      *)
TypeOK ==
    /\ rbuf \in Seq(Byte) /\ Len(rbuf) <= Capacity
    /\ notified \in BOOLEAN
    /\ m_parserState \in {"SearchForPreamble", "ReadHeader", "ReadPayload"}
    /\ m_packSize \in Nat
    /\ m_parserState = "ReadPayload" => m_packSize \in 1 .. BuffSize
    /\ pc \in {"idle", "loop", "case", "drop", "return"}
    /\ stream \in Seq(Byte) /\ Len(stream) <= MaxStream
    /\ \A i \in DOMAIN handled : handled[i] \in Intact
    /\ allowed \in Usage

(* The handler is given the packets of the stream, in order, none twice,   *)
(* none left out and none cut wrong, however the bytes arrive in portions  *)
(* and in the middle of whatever step of the parser; and once the parser   *)
(* has come to rest it has given all that are complete.                    *)
HandlesTheFraming ==
    Without({"displace", "clear"}) =>
        LET packets == Framing(stream)
        IN  /\ Len(handled) <= Len(packets)
            /\ handled = First(Len(handled), packets)
            /\ pc = "idle" /\ ~notified /\ Without({"mainLoop"}) => handled = packets

(* A packet that has arrived is handled, be it followed by others or not. *)
PacketsAreHandled ==
    Without(Calls) =>
        \A n \in 1 .. MaxStream \div (MagicSize + HeaderSize) :
            Len(Framing(stream)) >= n ~> Len(handled) >= n

(* A full ring buffer gets room again: the parser consumes what it has     *)
(* looked at, as long as no header announces more than the ring can hold   *)
(* (and m_buffer can: the parser then waits for ever).                     *)
RingGetsRoom ==
    Without({"mainLoop"}) /\ [](m_packSize <= Capacity \/ m_packSize > BuffSize) =>
        (Len(rbuf) = Capacity ~> Len(rbuf) < Capacity)
=============================================================================

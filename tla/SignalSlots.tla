---------------------------- MODULE SignalSlots ----------------------------
(***************************************************************************)
(* The connections of all signals (src/SignalInterface.cpp) and their      *)
(* dispatch by Signal::activ (include/Signal.h).                           *)
(*                                                                         *)
(* A connection is a node of a fixed pool, slotStorage.  The nodes of a    *)
(* signal form a singly linked list from m_slotList; released nodes form   *)
(* another one.  A dispatch walks its list with the cursor m_lastGetSlot,  *)
(* a member of the signal and not of the call, while each slot that runs   *)
(* may call connect, disconnect, disconnectAll and activ.                  *)
(*                                                                         *)
(* allowed, chosen once and for all, says which calls are made that the    *)
(* walk may not survive:                                                   *)
(* "disconnectRunning" (the slot that runs disconnects itself, or its      *)
(* signal is cleared), "reenter" (it activates the signal it is run by),   *)
(* "die" (a connected signal is destroyed, another one takes its place).   *)
(***************************************************************************)
EXTENDS Integers, Sequences, FiniteSets, SequencesExt

CONSTANTS Signal, Slot, NoSlot,
          StorageSize,   \* m_storageSize, 500 in the code
          MaxDepth,      \* how deep activations nest
          Usage          \* the sets of calls that allowed is chosen from

ASSUME NoSlotAssumption == NoSlot \notin Slot
ASSUME StorageSizeAssumption == StorageSize \in Nat /\ MaxDepth \in Nat
ASSUME UsageAssumption == Usage \subseteq SUBSET {"disconnectRunning", "reenter", "die"}

Null == 0            \* nullptr
Node == 1 .. StorageSize

VARIABLES
    slot, next,                                    \* the fields of SlotInfo
    m_lastSlotIndex, m_releasedSlots, slotsInUse,  \* slotStorage
    m_slotList, m_lastGetSlot,                     \* per signal
    m_data,    \* per signal: the activation whose data it holds, as its place
               \* in the stack, 0 if that one is over
    stack,     \* the activations under way, the innermost last: its signal,
               \* cmd, and owed: the slots connected when it started that it
               \* has not run and that were not disconnected since (history)
    faulted,   \* a null pointer was read through and the program stopped
    allowed    \* which of the calls above are made

storage == <<slot, next, m_lastSlotIndex, m_releasedSlots, slotsInUse>>
vars    == <<storage, m_slotList, m_lastGetSlot, m_data, stack, faulted, allowed>>

(* The nodes reached from first by links, in order. *)
ChainIn(links, first) ==
    LET node[k \in 0 .. StorageSize] ==
            IF k = 0 THEN first
            ELSE IF node[k - 1] = Null THEN Null ELSE links[node[k - 1]]
        length == Cardinality({k \in 0 .. StorageSize - 1 : node[k] # Null})
    IN  [k \in 1 .. length |-> node[k - 1]]

Chain(first) == ChainIn(next, first)

PlaceOf(chain, n) == CHOOSE k \in DOMAIN chain : chain[k] = n

SlotsOf(chain) == [k \in DOMAIN chain |-> slot[chain[k]]]

(* isConnected, isConnectedTo. *)
IsConnected(s) == m_slotList[s] # Null

IsConnectedTo(s, x) == \E n \in ToSet(Chain(m_slotList[s])) : slot[n] = x

Running(s) == \E i \in DOMAIN stack : stack[i].signal = s

Init ==
    /\ slot = [n \in Node |-> NoSlot]
    /\ next = [n \in Node |-> Null]
    /\ m_lastSlotIndex = 0 /\ m_releasedSlots = Null /\ slotsInUse = 0
    /\ m_slotList = [s \in Signal |-> Null]
    /\ m_lastGetSlot = [s \in Signal |-> Null]
    /\ m_data = [s \in Signal |-> 0]
    /\ stack = << >>
    /\ faulted = FALSE
    /\ allowed \in Usage
-----------------------------------------------------------------------------
(* slotStorage.getSlot: a released node, else a new one, else none. *)
NodeToGive_Unbounded ==
    IF m_releasedSlots # Null THEN m_releasedSlots ELSE m_lastSlotIndex + 1
NodeToGive ==
    IF m_releasedSlots # Null THEN m_releasedSlots
    ELSE IF m_lastSlotIndex < StorageSize THEN m_lastSlotIndex + 1 ELSE Null

(* connect, addSlot: append the node given, unless the slot is connected   *)
(* already or the storage is used up (then nothing happens).               *)
Connect(s, x) ==
    LET new  == NodeToGive
        list == Chain(m_slotList[s])
    IN  /\ ~faulted
        /\ ~IsConnectedTo(s, x)
        /\ new # Null
        /\ slot' = [slot EXCEPT ![new] = x]
        /\ next' = [n \in Node |-> IF n = new THEN Null
                                   ELSE IF list # << >> /\ n = Last(list) THEN new
                                   ELSE next[n]]
        /\ m_slotList' = IF IsConnected(s) THEN m_slotList
                         ELSE [m_slotList EXCEPT ![s] = new]
        /\ IF m_releasedSlots # Null
           THEN m_releasedSlots' = next[new] /\ UNCHANGED m_lastSlotIndex
           ELSE m_lastSlotIndex' = new /\ UNCHANGED m_releasedSlots
        /\ slotsInUse' = slotsInUse + 1
        /\ UNCHANGED <<m_lastGetSlot, m_data, stack, faulted>>

Lowered(count, by) == IF count > by THEN count - by ELSE 0

Forgive(s, gone) ==
    stack' = [i \in DOMAIN stack |->
                 IF stack[i].signal = s THEN [stack[i] EXCEPT !.owed = @ \ gone] ELSE stack[i]]

(* disconnect, delSlot: unlink the node and put it in front of the         *)
(* released ones.                                                          *)
Disconnect_KeepsPredecessor(s, x) ==
    LET list == Chain(m_slotList[s])
        at   == CHOOSE k \in DOMAIN list : slot[list[k]] = x
        node == list[at]
    IN  /\ ~faulted
        /\ IsConnectedTo(s, x)
        /\ "disconnectRunning" \in allowed
              \/ \A i \in DOMAIN stack : stack[i].signal = s => stack[i].cmd # x
        /\ m_slotList' = IF at = 1 THEN [m_slotList EXCEPT ![s] = next[node]] ELSE m_slotList
        /\ next' = [n \in Node |-> IF n = node THEN m_releasedSlots ELSE next[n]]
        /\ m_releasedSlots' = node
        /\ slotsInUse' = Lowered(slotsInUse, 1)
        /\ Forgive(s, {x})
        /\ UNCHANGED <<slot, m_lastSlotIndex, m_lastGetSlot, m_data, faulted>>
Disconnect(s, x) ==
    LET list == Chain(m_slotList[s])
        at   == CHOOSE k \in DOMAIN list : slot[list[k]] = x
        node == list[at]
    IN  /\ ~faulted
        /\ IsConnectedTo(s, x)
        /\ "disconnectRunning" \in allowed
              \/ \A i \in DOMAIN stack : stack[i].signal = s => stack[i].cmd # x
        /\ m_slotList' = IF at = 1 THEN [m_slotList EXCEPT ![s] = next[node]] ELSE m_slotList
        /\ next' = [n \in Node |-> IF n = node THEN m_releasedSlots
                                   ELSE IF at > 1 /\ n = list[at - 1] THEN next[node]
                                   ELSE next[n]]
        /\ m_releasedSlots' = node
        /\ slotsInUse' = Lowered(slotsInUse, 1)
        /\ Forgive(s, {x})
        /\ UNCHANGED <<slot, m_lastSlotIndex, m_lastGetSlot, m_data, faulted>>

(* disconnectAll: release the nodes one after the other, so that the last  *)
(* one becomes the first released.                                         *)
DisconnectAll(s) ==
    LET list == Chain(m_slotList[s])
    IN  /\ ~faulted
        /\ IsConnected(s)
        /\ "disconnectRunning" \in allowed \/ ~Running(s)
        /\ m_slotList' = [m_slotList EXCEPT ![s] = Null]
        /\ next' = [n \in Node |->
                       IF n = Head(list) THEN m_releasedSlots
                       ELSE IF n \in ToSet(list) THEN list[PlaceOf(list, n) - 1]
                       ELSE next[n]]
        /\ m_releasedSlots' = Last(list)
        /\ slotsInUse' = Lowered(slotsInUse, Len(list))
        /\ Forgive(s, Slot)
        /\ UNCHANGED <<slot, m_lastSlotIndex, m_lastGetSlot, m_data, faulted>>

(* ~SignalInterface does nothing; a new signal with empty members takes    *)
(* the place of the old one.                                               *)
Die(s) ==
    /\ ~faulted
    /\ "die" \in allowed
    /\ IsConnected(s)
    /\ ~Running(s)
    /\ m_slotList' = [m_slotList EXCEPT ![s] = Null]
    /\ m_lastGetSlot' = [m_lastGetSlot EXCEPT ![s] = Null]
    /\ UNCHANGED <<storage, m_data, stack, faulted>>
-----------------------------------------------------------------------------
Activ_KeepsCursor(s) ==
    /\ ~faulted
    /\ Len(stack) < MaxDepth
    /\ "reenter" \in allowed \/ ~Running(s)
    /\ IsConnected(s)
    /\ m_data' = [m_data EXCEPT ![s] = Len(stack) + 1]
    /\ stack' = Append(stack, [signal |-> s, cmd |-> slot[m_slotList[s]],
                               owed |-> ToSet(Tail(SlotsOf(Chain(m_slotList[s]))))])
    /\ UNCHANGED <<storage, m_slotList, m_lastGetSlot, faulted>>
(* activ: getNextSlot(nullptr) and the first slot runs. *)
Activ(s) ==
    /\ ~faulted
    /\ Len(stack) < MaxDepth
    /\ "reenter" \in allowed \/ ~Running(s)
    /\ IsConnected(s)
    /\ m_lastGetSlot' = [m_lastGetSlot EXCEPT ![s] = m_slotList[s]]
    /\ m_data' = [m_data EXCEPT ![s] = Len(stack) + 1]
    /\ stack' = Append(stack, [signal |-> s, cmd |-> slot[m_slotList[s]],
                               owed |-> ToSet(Tail(SlotsOf(Chain(m_slotList[s]))))])
    /\ UNCHANGED <<storage, m_slotList, faulted>>

(* What runSlots does with the slot that getNextSlot(cmd) returned. *)
GoOnWith(node) ==
    LET top == Last(stack)
    IN  /\ stack' = IF node = Null THEN Front(stack)
                    ELSE Append(Front(stack),
                                [top EXCEPT !.cmd = slot[node], !.owed = @ \ {slot[node]}])
        /\ m_data' = IF node = Null THEN [m_data EXCEPT ![top.signal] = 0] ELSE m_data

(* The slot returns and every slot has been disconnected. *)
ReturnToEmpty ==
    /\ ~faulted /\ stack # << >>
    /\ ~IsConnected(Last(stack).signal)
    /\ GoOnWith(Null)
    /\ UNCHANGED <<storage, m_slotList, m_lastGetSlot, faulted>>

(* The slot returns and the cursor is on its node, or on a node that held  *)
(* it and was released.                                                    *)
ReturnToNext ==
    LET s == Last(stack).signal
    IN  /\ ~faulted /\ stack # << >>
        /\ IsConnected(s)
        /\ m_lastGetSlot[s] # Null
        /\ slot[m_lastGetSlot[s]] = Last(stack).cmd
        /\ m_lastGetSlot' = [m_lastGetSlot EXCEPT ![s] = next[m_lastGetSlot[s]]]
        /\ GoOnWith(next[m_lastGetSlot[s]])
        /\ UNCHANGED <<storage, m_slotList, faulted>>

(* The cursor is elsewhere: look for the slot from the start of the list,  *)
(* and return that same slot again if it is there.                         *)
ReturnAfterSearch ==
    LET s    == Last(stack).signal
        cmd  == Last(stack).cmd
        node == IF IsConnectedTo(s, cmd)
                THEN CHOOSE n \in ToSet(Chain(m_slotList[s])) : slot[n] = cmd
                ELSE Null
    IN  /\ ~faulted /\ stack # << >>
        /\ IsConnected(s)
        /\ m_lastGetSlot[s] # Null => slot[m_lastGetSlot[s]] # cmd
        /\ m_lastGetSlot' = [m_lastGetSlot EXCEPT ![s] = node]
        /\ GoOnWith(node)
        /\ UNCHANGED <<storage, m_slotList, faulted>>

(* The cursor is null and is read through: a target without memory         *)
(* protection reads some word that is no slot (ReturnAfterSearch), another *)
(* one stops.                                                              *)
ReturnFaults ==
    /\ ~faulted /\ stack # << >>
    /\ IsConnected(Last(stack).signal)
    /\ m_lastGetSlot[Last(stack).signal] = Null
    /\ faulted' = TRUE
    /\ UNCHANGED <<storage, m_slotList, m_lastGetSlot, m_data, stack>>

Return == ReturnToEmpty \/ ReturnToNext \/ ReturnAfterSearch \/ ReturnFaults

Next == /\ \/ \E s \in Signal, x \in Slot : Connect(s, x) \/ Disconnect(s, x)
           \/ \E s \in Signal : DisconnectAll(s) \/ Die(s) \/ Activ(s)
           \/ Return
        /\ UNCHANGED allowed

Spec == Init /\ [][Next]_vars
-----------------------------------------------------------------------------
TypeOK ==
    /\ slot \in [Node -> Slot \cup {NoSlot}]
    /\ next \in [Node -> Node \cup {Null}]
    /\ m_lastSlotIndex \in 0 .. StorageSize
    /\ m_releasedSlots \in Node \cup {Null}
    /\ slotsInUse \in 0 .. StorageSize
    /\ m_slotList \in [Signal -> Node \cup {Null}]
    /\ m_lastGetSlot \in [Signal -> Node \cup {Null}]
    /\ m_data \in [Signal -> 0 .. MaxDepth]
    /\ stack \in Seq([signal : Signal, cmd : Slot \cup {NoSlot}, owed : SUBSET Slot])
    /\ faulted \in BOOLEAN

Connected(s) == SlotsOf(Chain(m_slotList[s]))

NodesOf(s) == ToSet(Chain(m_slotList[s]))

Ends(first) == first = Null \/ next[Last(Chain(first))] = Null

(* None of these calls is made. *)
Without(calls) == calls \cap allowed = {}

(* Whatever slots do to the signals while these run them, no connect or    *)
(* disconnect links two lists together or makes one circular, and the      *)
(* pool's counters agree with its lists.                                   *)
ListsStayApart ==
    LET released == ToSet(Chain(m_releasedSlots))
    IN  /\ Ends(m_releasedSlots) /\ \A s \in Signal : Ends(m_slotList[s])
        /\ \A s \in Signal : NodesOf(s) \cap released = {}
        /\ \A s, t \in Signal : s # t => NodesOf(s) \cap NodesOf(t) = {}
        /\ slotsInUse + Cardinality(released) = m_lastSlotIndex

(* Every node handed out so far is in the list of one signal or among the  *)
(* released ones, unless a connected signal died: no sequence of calls     *)
(* loses a node, and connect finds none only if all are connected.         *)
NoNodeLost ==
    Without({"die"}) =>
        (UNION {NodesOf(s) : s \in Signal}) \cup ToSet(Chain(m_releasedSlots))
            = 1 .. m_lastSlotIndex

(* No slot disconnects itself or activates its own signal, and no          *)
(* connected signal dies.                                                  *)
Orderly == Without({"disconnectRunning", "reenter", "die"})

ConnectedSlots == [s \in Signal |-> Connected(s)]

Dispatch ==
    [i \in DOMAIN stack |->
        [signal |-> stack[i].signal, cmd |-> stack[i].cmd,
         todo |-> SlotsOf(Chain(next[m_lastGetSlot[stack[i].signal]])),
         data |-> m_data[stack[i].signal]]]

Bus == INSTANCE SignalBus
       WITH PoolSize  <- StorageSize,
            connected <- ConnectedSlots,
            dispatch  <- Dispatch

(* However orderly slots connect and disconnect each other while they run, *)
(* every activation runs the slots of its signal in the order of           *)
(* connection, each once and with the data of that activation:            *)
(* Orderly => Bus!Spec, in the form that TLC takes (allowed, and Orderly   *)
(* with it, never changes).                                                *)
ImplementsBus ==
    /\ Orderly => Bus!Init
    /\ [][Orderly => [Bus!Next]_(Bus!busVars)]_vars

(* An activation that ends has run every slot that was connected when it   *)
(* began and was not disconnected since.                                   *)
EndsComplete == Len(stack') < Len(stack) => Last(stack).owed = {}

(* "Handle all connected signals" (SignalInterface.h:86), if no slot       *)
(* disconnects itself.  That holds even of a slot that activates the       *)
(* signal it is run by: the outer activation has lost its cursor, and goes *)
(* on, unless it stops at once, with a slot that it runs a second time.    *)
ActivationRunsAll == [][Without({"disconnectRunning"}) => EndsComplete]_vars

(* A null cursor is never read through (SignalInterface.cpp:168) unless a  *)
(* slot activates the signal it is run by: not even when a slot            *)
(* disconnects itself, clears its signal or connects itself again.         *)
CursorIsNeverNull == Without({"reenter"}) => ~faulted
-----------------------------------------------------------------------------
(* What the code says of itself and does not keep. *)

(* "Handle all connected signals ... in the order they are added"          *)
(* (SignalInterface.h:86-87), whatever the slots do.                       *)
EveryActivationRunsAll == [][EndsComplete]_vars
=============================================================================

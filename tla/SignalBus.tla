----------------------------- MODULE SignalBus -----------------------------
(***************************************************************************)
(* What signals promise: each keeps its slots, none twice, in the order in *)
(* which they were connected; all signals together have room for PoolSize  *)
(* connections; an activation runs every slot that is connected when its   *)
(* turn comes, in that order, while the slots that run connect, disconnect *)
(* and activate other signals.                                             *)
(***************************************************************************)
EXTENDS Integers, Sequences, FiniteSets, SequencesExt

CONSTANTS Signal, Slot, PoolSize

VARIABLES connected,  \* the slots of each signal, oldest connection first
          dispatch    \* the activations under way, the innermost last: its
                      \* signal, the slot that runs, the slots still to
                      \* run, the data it was given (told apart by its place)

busVars == <<connected, dispatch>>

(* A connection is a signal with a place in its list. *)
Connections == UNION {{s} \X DOMAIN connected[s] : s \in Signal}

(* The list without x, which is in it once at most. *)
Less(list, x) ==
    IF Contains(list, x)
    THEN RemoveAt(list, CHOOSE k \in DOMAIN list : list[k] = x)
    ELSE list

Init == /\ connected = [s \in Signal |-> << >>]
        /\ dispatch = << >>

Connect(s, x) ==
    /\ ~Contains(connected[s], x)
    /\ Cardinality(Connections) < PoolSize
    /\ connected' = [connected EXCEPT ![s] = Append(@, x)]
    /\ dispatch' = [i \in DOMAIN dispatch |->
                       IF dispatch[i].signal = s
                       THEN [dispatch[i] EXCEPT !.todo = Append(@, x)]
                       ELSE dispatch[i]]

Disconnect(s, x) ==
    /\ Contains(connected[s], x)
    /\ connected' = [connected EXCEPT ![s] = Less(@, x)]
    /\ dispatch' = [i \in DOMAIN dispatch |->
                       IF dispatch[i].signal = s
                       THEN [dispatch[i] EXCEPT !.todo = Less(@, x)]
                       ELSE dispatch[i]]

DisconnectAll(s) ==
    /\ \A i \in DOMAIN dispatch : dispatch[i].signal # s
    /\ connected' = [connected EXCEPT ![s] = << >>]
    /\ UNCHANGED dispatch

Activ(s) ==
    /\ connected[s] # << >>
    /\ dispatch' = Append(dispatch, [signal |-> s, cmd |-> Head(connected[s]),
                                     todo |-> Tail(connected[s]),
                                     data |-> Len(dispatch) + 1])
    /\ UNCHANGED connected

(* The slot that runs returns: the next one runs, or the activation ends. *)
Return ==
    /\ dispatch # << >>
    /\ LET top == Last(dispatch)
       IN  dispatch' = IF top.todo = << >> THEN Front(dispatch)
                       ELSE Append(Front(dispatch),
                                   [top EXCEPT !.cmd = Head(top.todo), !.todo = Tail(@)])
    /\ UNCHANGED connected

Next == \/ \E s \in Signal, x \in Slot : Connect(s, x) \/ Disconnect(s, x)
        \/ \E s \in Signal : DisconnectAll(s) \/ Activ(s)
        \/ Return

Spec == Init /\ [][Next]_busVars
=============================================================================

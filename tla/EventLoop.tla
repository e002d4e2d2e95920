----------------------------- MODULE EventLoop -----------------------------
(***************************************************************************)
(* The main loop (nonRtos/EventLoop.cpp) and the signals it runs:          *)
(* SignalTime and SignalMainLoop (nonRtos/LoopSignals.h) and SoftTimer     *)
(* (nonRtos/SwTimer.cpp), which owns a SignalTime and is its only slot.    *)
(*                                                                         *)
(* One context runs setup and then the loop, with the handlers of the      *)
(* slots inside it; interrupts activate SignalMainLoops in between, and    *)
(* the clock ticks.  Which slots a signal runs and in which order is the   *)
(* matter of SignalSlots: here a signal is connected or not, and its       *)
(* handlers are one stretch of calls to the interface.                     *)
(*                                                                         *)
(* m_nextTimestamp is kept relative to the clock: due is how many          *)
(* milliseconds are left, 0 when the time is reached.  The clock never     *)
(* runs backwards, so that m_lastTimestamp > thisTime never holds and      *)
(* m_lastTimestamp is left out.                                            *)
(*                                                                         *)
(* A node that is removed from m_listSignal keeps its next pointer: if the *)
(* iterator is on it, iter++ leads to what followed it then, be that in    *)
(* the list or removed since.  stale is this chain of removed nodes, and   *)
(* iter the node of the list that it ends at.  A node made later may be    *)
(* one of the chain again, with the end of the list behind it.             *)
(*                                                                         *)
(* allowed, chosen once and for all, says which calls are made that the    *)
(* loop may not survive:                                                   *)
(*   "selfStop"       the node that the loop is on is removed by the       *)
(*                    handlers of its signal, as SoftTimer does in mode    *)
(*                    Once                                                 *)
(*   "rearm"          a handler registers a signal while the loop runs     *)
(*   "disconnectLast" the last slot of a time signal is disconnected       *)
(*   "activDuringRun" an activation comes while its own handlers run       *)
(*   "die"            a signal is destroyed                                *)
(*   "rebuild"        a time signal is constructed at the address of one   *)
(*                    that was destroyed and is still registered           *)
(***************************************************************************)
EXTENDS Integers, Sequences, FiniteSets, SequencesExt

CONSTANTS TimeSignal, SoftTimer, LoopSignal,
          Period,     \* the periods that are set, other than 0
          MaxNodes,   \* nodes of m_listSignal there is memory for
          Usage       \* the sets of calls that allowed is chosen from

Signal == TimeSignal \cup LoopSignal

Mode == {"once", "periodic"}

ASSUME SignalAssumption == SoftTimer \subseteq TimeSignal /\ TimeSignal \cap LoopSignal = {}
ASSUME PeriodAssumption == Period \subseteq Nat \ {0}
ASSUME NodesAssumption == MaxNodes \in Nat
ASSUME UsageAssumption ==
    Usage \subseteq SUBSET {"selfStop", "rearm", "disconnectLast", "activDuringRun", "die",
                            "rebuild"}

VARIABLES
    m_listSignal,        \* the registered signals
    alive, isConnected,  \* the constructed signals, those with a slot
    m_period, due,       \* per time signal
    m_mode,              \* per SoftTimer
    m_activated,         \* per loop signal
    phase,   \* "setup", "top" (between two passes), "visit", "handling" (the
             \* handlers of a signal run), "faulted"
    stale,   \* the iterator's node and those it leads to that were removed: the
             \* signals they hold; empty if its node is in the list
    iter,    \* the node of the list that the iterator is on, or that stale ends
             \* at: an index of m_listSignal, or the one behind it for the end
    running, \* the signal whose handlers the loop runs
    owed,    \* history: the signals registered when the pass began that it
             \* has not visited and that are still registered
    unheard, \* history: the loop signals activated since their handlers
             \* last began
    armed,   \* history: the timers started and not stopped that may still run
    allowed  \* which of the calls above are made

objects == <<alive, isConnected>>
timing  == <<m_period, due, m_mode>>
registry == <<m_listSignal, stale, iter, owed>>
loopVars == <<phase, running>>
history == <<unheard, armed>>
program == <<registry, objects, timing, m_activated, loopVars, history>>
vars == <<program, allowed>>

Registered(s) == Contains(m_listSignal, s)

(* *iter, and iter == end(). *)
Here == IF stale # << >> THEN Head(stale) ELSE m_listSignal[iter]

AtEnd == stale = << >> /\ iter > Len(m_listSignal)

(* The main context is in setup code or in a handler. *)
Calling == phase \in {"setup", "handling"}

Init ==
    /\ m_listSignal = << >>
    /\ alive = {} /\ isConnected = {}
    /\ m_period = [s \in TimeSignal |-> 0]
    /\ due = [s \in TimeSignal |-> 0]
    /\ m_mode = [t \in SoftTimer |-> "periodic"]
    /\ m_activated = [l \in LoopSignal |-> FALSE]
    /\ phase = "setup" /\ stale = << >> /\ iter = 1 /\ running = {}
    /\ owed = {} /\ unheard = {} /\ armed = {}
    /\ allowed \in Usage
-----------------------------------------------------------------------------
(* EventLoop::connect: the new node is the last one.  It is behind the     *)
(* iterator, even if that is at the end.                                   *)
RegisterInFresh ==
    /\ Len(m_listSignal) + Len(stale) < MaxNodes
    /\ iter' = IF iter > Len(m_listSignal) THEN iter + 1 ELSE iter
    /\ UNCHANGED stale

(* The memory is that of a removed node: the chain leads to the new one.   *)
RegisterInStale ==
    \E k \in 1 .. Len(stale) :
        /\ stale' = SubSeq(stale, 1, k - 1)
        /\ iter' = Len(m_listSignal) + 1

Register(s) ==
    /\ phase = "handling" => "rearm" \in allowed
    /\ RegisterInFresh \/ RegisterInStale
    /\ m_listSignal' = Append(m_listSignal, s)
    /\ UNCHANGED owed

(* What is left of the first i nodes when every one that holds s is gone.  *)
Kept(s) ==
    LET kept[i \in 0 .. Len(m_listSignal)] ==
            IF i = 0 THEN << >>
            ELSE IF m_listSignal[i] = s THEN kept[i - 1]
            ELSE Append(kept[i - 1], m_listSignal[i])
    IN  kept

(* The number of nodes from the iterator's on that hold s, up to one that  *)
(* does not.                                                               *)
Leading(s, n) ==
    /\ \A i \in iter .. iter + n - 1 : m_listSignal[i] = s
    /\ iter + n <= Len(m_listSignal) => m_listSignal[iter + n] # s

(* remove(signal): the nodes that hold it go, the others stay where they   *)
(* are.  What goes from under the iterator, or from where the chain of     *)
(* removed nodes ends, lengthens the chain.                                *)
Removes_ByIndex(s) ==
    /\ m_listSignal' = Kept(s)[Len(m_listSignal)]
    /\ owed' = owed \ {s}
    /\ UNCHANGED <<iter, stale>>
Removes(s) ==
    /\ m_listSignal' = Kept(s)[Len(m_listSignal)]
    /\ iter' = Len(Kept(s)[iter - 1]) + 1
    /\ owed' = owed \ {s}
    /\ \E n \in 0 .. Len(m_listSignal) - iter + 1 :
           /\ Leading(s, n)
           /\ stale' = IF phase = "setup" THEN stale ELSE stale \o [i \in 1 .. n |-> s]

Deregister(s) ==
    /\ phase = "handling" /\ Here = s => "selfStop" \in allowed
    /\ Removes(s)

(* SignalTime::setPeriod. *)
SetsPeriod_RegistersAgain(s, p) ==
    /\ IF p # 0 THEN Register(s)
       ELSE IF m_period[s] # 0 THEN Deregister(s)
       ELSE UNCHANGED registry
    /\ m_period' = [m_period EXCEPT ![s] = p]
    /\ due' = [due EXCEPT ![s] = p]
SetsPeriod_NeverRegisters(s, p) ==
    /\ IF p = 0 /\ m_period[s] # 0 THEN Deregister(s) ELSE UNCHANGED registry
    /\ m_period' = [m_period EXCEPT ![s] = p]
    /\ due' = [due EXCEPT ![s] = p]
SetsPeriod_NeverDeregisters(s, p) ==
    /\ IF p # 0 /\ m_period[s] = 0 THEN Register(s) ELSE UNCHANGED registry
    /\ m_period' = [m_period EXCEPT ![s] = p]
    /\ due' = [due EXCEPT ![s] = p]
SetsPeriod(s, p) ==
    /\ IF p # 0 /\ m_period[s] = 0 THEN Register(s)
       ELSE IF p = 0 /\ m_period[s] # 0 THEN Deregister(s)
       ELSE UNCHANGED registry
    /\ m_period' = [m_period EXCEPT ![s] = p]
    /\ due' = [due EXCEPT ![s] = p]

SetPeriod(s, p) ==
    /\ Calling
    /\ s \in alive \ SoftTimer
    /\ SetsPeriod(s, p)
    /\ UNCHANGED <<objects, m_mode, m_activated, loopVars, history>>

(* SignalTime::activ: run the slots if the time is reached.  Their calls   *)
(* are the calls that follow.                                              *)
ActivTime(s) ==
    /\ Calling
    /\ s \in alive \ SoftTimer
    /\ due[s] = 0
    /\ due' = [due EXCEPT ![s] = m_period[s]]
    /\ UNCHANGED <<registry, objects, m_period, m_mode, m_activated, loopVars, history>>

(* SoftTimer::start and stop. *)
Start(t, p, mode) ==
    /\ Calling
    /\ t \in alive
    /\ mode = "once" => "selfStop" \in allowed
    /\ SetsPeriod(t, p)
    /\ m_mode' = [m_mode EXCEPT ![t] = mode]
    /\ armed' = IF p # 0 THEN armed \cup {t} ELSE armed \ {t}
    /\ UNCHANGED <<objects, m_activated, loopVars, unheard>>

Stop(t) ==
    /\ Calling
    /\ t \in alive
    /\ SetsPeriod(t, 0)
    /\ armed' = armed \ {t}
    /\ UNCHANGED <<objects, m_mode, m_activated, loopVars, unheard>>

(* The constructors: SignalTime(time); SoftTimer, with a period of 0,      *)
(* itself as slot and a mode that is not set; SignalMainLoop.  A           *)
(* SignalTime has no destructor that deregisters it: a new one may be      *)
(* where a registered one was.                                             *)
ConstructTime(s, p) ==
    /\ Calling
    /\ s \in TimeSignal \ alive
    /\ Registered(s) => "rebuild" \in allowed
    /\ s \in SoftTimer => p = 0
    /\ IF p # 0 THEN Register(s) ELSE UNCHANGED registry
    /\ alive' = alive \cup {s}
    /\ isConnected' = IF s \in SoftTimer THEN isConnected \cup {s} ELSE isConnected
    /\ m_period' = [m_period EXCEPT ![s] = p]
    /\ due' = [due EXCEPT ![s] = p]
    /\ \E mode \in Mode :
           m_mode' = IF s \in SoftTimer THEN [m_mode EXCEPT ![s] = mode] ELSE m_mode
    /\ UNCHANGED <<m_activated, loopVars, history>>

ConstructLoop(l) ==
    /\ Calling
    /\ l \in LoopSignal \ alive
    /\ Register(l)
    /\ alive' = alive \cup {l}
    /\ m_activated' = [m_activated EXCEPT ![l] = FALSE]
    /\ UNCHANGED <<isConnected, timing, loopVars, history>>

(* connect of a slot to a signal that has none; SoftTimers have theirs. *)
Connect(s) ==
    /\ Calling
    /\ s \in alive \ isConnected
    /\ isConnected' = isConnected \cup {s}
    /\ UNCHANGED <<registry, alive, timing, m_activated, loopVars, history>>

(* A disconnect that leaves no slot: SignalTime deregisters itself too,    *)
(* its period stays.                                                       *)
DisconnectLast(s) ==
    /\ Calling
    /\ "disconnectLast" \in allowed
    /\ s \in alive \cap (TimeSignal \ SoftTimer)
    /\ isConnected' = isConnected \ {s}
    /\ Deregister(s)
    /\ UNCHANGED <<alive, timing, m_activated, loopVars, history>>

(* disconnectAll, all that a SignalMainLoop has: nothing is deregistered.  *)
DisconnectAll(s) ==
    /\ Calling
    /\ s \in isConnected \ SoftTimer
    /\ "disconnectLast" \in allowed
    /\ isConnected' = isConnected \ {s}
    /\ UNCHANGED <<registry, alive, timing, m_activated, loopVars, history>>

(* The end of a signal's life: SignalMainLoop deregisters itself,          *)
(* SignalTime does not.                                                    *)
Die(s) ==
    /\ Calling
    /\ "die" \in allowed
    /\ s \in alive
    /\ alive' = alive \ {s}
    /\ isConnected' = isConnected \ {s}
    /\ IF s \in LoopSignal THEN Deregister(s) ELSE UNCHANGED registry
    /\ armed' = armed \ {s}
    /\ unheard' = unheard \ {s}
    /\ UNCHANGED <<timing, m_activated, loopVars>>
-----------------------------------------------------------------------------
(* SignalMainLoop::activ, from an interrupt at any time or from the main   *)
(* context.                                                                *)
Activ(l) ==
    /\ l \in alive
    /\ phase # "faulted"
    /\ l \in running => "activDuringRun" \in allowed
    /\ m_activated' = [m_activated EXCEPT ![l] = TRUE]
    /\ unheard' = unheard \cup {l}
    /\ UNCHANGED <<registry, objects, timing, loopVars, armed>>

Tick ==
    /\ phase # "faulted"
    /\ \E s \in TimeSignal : due[s] > 0
    /\ due' = [s \in TimeSignal |-> IF due[s] > 0 THEN due[s] - 1 ELSE 0]
    /\ UNCHANGED <<registry, objects, m_period, m_mode, m_activated, loopVars, history>>
-----------------------------------------------------------------------------
(* EventLoop::loop. *)
StartPass ==
    /\ phase \in {"setup", "top"}
    /\ phase' = "visit"
    /\ iter' = 1
    /\ owed' = ToSet(m_listSignal)
    /\ UNCHANGED <<m_listSignal, stale, objects, timing, m_activated, running, history>>

EndPass_BeforeTheLast ==
    /\ phase = "visit"
    /\ stale = << >> /\ iter >= Len(m_listSignal)
    /\ phase' = "top"
    /\ UNCHANGED <<registry, objects, timing, m_activated, running, history>>
EndPass_ClearsTheFlags ==
    /\ phase = "visit"
    /\ AtEnd
    /\ phase' = "top"
    /\ m_activated' = [l \in LoopSignal |-> FALSE]
    /\ UNCHANGED <<registry, objects, timing, running, history>>
EndPass ==
    /\ phase = "visit"
    /\ AtEnd
    /\ phase' = "top"
    /\ UNCHANGED <<registry, objects, timing, m_activated, running, history>>

Visiting(s) ==
    /\ phase = "visit"
    /\ ~AtEnd
    /\ s = Here
    /\ s \in alive
    /\ owed' = owed \ {s}

Triggered(s) == IF s \in TimeSignal THEN due[s] = 0 ELSE m_activated[s]

(* iter++, on the chain of removed nodes or in the list. *)
GoOn ==
    /\ phase' = "visit"
    /\ running' = {}
    /\ IF stale # << >> THEN stale' = Tail(stale) /\ UNCHANGED iter
       ELSE iter' = iter + 1 /\ UNCHANGED stale

(* runSlots of a signal that is not triggered, or has no slot. *)
VisitIdle_RestartsPeriod(s) ==
    /\ Visiting(s)
    /\ ~Triggered(s) \/ s \notin isConnected
    /\ due' = IF s \in TimeSignal THEN [due EXCEPT ![s] = m_period[s]] ELSE due
    /\ m_activated' = IF s \in LoopSignal THEN [m_activated EXCEPT ![s] = FALSE] ELSE m_activated
    /\ unheard' = IF Triggered(s) THEN unheard \ {s} ELSE unheard
    /\ GoOn
    /\ UNCHANGED <<m_listSignal, objects, m_period, m_mode, armed>>
VisitIdle(s) ==
    /\ Visiting(s)
    /\ ~Triggered(s) \/ s \notin isConnected
    /\ due' = IF Triggered(s) /\ s \in TimeSignal THEN [due EXCEPT ![s] = m_period[s]] ELSE due
    /\ m_activated' = IF s \in LoopSignal THEN [m_activated EXCEPT ![s] = FALSE] ELSE m_activated
    /\ unheard' = IF Triggered(s) THEN unheard \ {s} ELSE unheard
    /\ GoOn
    /\ UNCHANGED <<m_listSignal, objects, m_period, m_mode, armed>>

(* runSlots of a triggered signal: its handlers begin. *)
VisitTriggered(s) ==
    /\ Visiting(s)
    /\ Triggered(s) /\ s \in isConnected
    /\ s \in SoftTimer => m_mode[s] = "periodic"
    /\ due' = IF s \in TimeSignal THEN [due EXCEPT ![s] = m_period[s]] ELSE due
    /\ unheard' = unheard \ {s}
    /\ phase' = "handling"
    /\ running' = {s}
    /\ UNCHANGED <<m_listSignal, stale, iter, objects, m_period, m_mode, m_activated, armed>>

(* SoftTimer::run in mode Once: setPeriod(0), then the callback. *)
VisitOnce(t) ==
    /\ phase = "visit"
    /\ ~AtEnd
    /\ t = Here
    /\ t \in alive \cap SoftTimer
    /\ Triggered(t) /\ m_mode[t] = "once"
    /\ IF m_period[t] # 0 THEN Removes(t)
       ELSE owed' = owed \ {t} /\ UNCHANGED <<m_listSignal, stale, iter>>
    /\ m_period' = [m_period EXCEPT ![t] = 0]
    /\ due' = [due EXCEPT ![t] = 0]
    /\ phase' = "handling"
    /\ running' = {t}
    /\ armed' = armed \ {t}
    /\ UNCHANGED <<objects, m_mode, m_activated, unheard>>

(* The handlers are done: m_activated is cleared, the iterator moves on.   *)
HandlersReturn ==
    /\ phase = "handling"
    /\ m_activated' = [l \in LoopSignal |-> m_activated[l] /\ l \notin running]
    /\ GoOn
    /\ UNCHANGED <<m_listSignal, objects, timing, owed, history>>

(* Memory that is not the loop's any more is used: a removed node, a       *)
(* signal that its own handlers destroyed, a virtual call of one that is   *)
(* dead.                                                                   *)
UsesDead ==
    \/ phase \in {"visit", "handling"} /\ stale # << >>
    \/ phase = "handling" /\ ~(running \subseteq alive)
    \/ phase = "visit" /\ ~AtEnd /\ Here \notin alive

Fault ==
    /\ UsesDead
    /\ phase' = "faulted"
    /\ running' = {}
    /\ UNCHANGED <<registry, objects, timing, m_activated, history>>

Visit(s) == VisitIdle(s) \/ VisitTriggered(s)

Loop == \/ StartPass \/ EndPass
        \/ \E s \in Signal : Visit(s)
        \/ \E t \in SoftTimer : VisitOnce(t)
        \/ HandlersReturn \/ Fault

Calls == \/ \E s \in TimeSignal, p \in Period \cup {0} : SetPeriod(s, p) \/ ConstructTime(s, p)
         \/ \E t \in SoftTimer, p \in Period \cup {0}, mode \in Mode : Start(t, p, mode)
         \/ \E s \in TimeSignal : ActivTime(s)
         \/ \E t \in SoftTimer : Stop(t)
         \/ \E l \in LoopSignal : ConstructLoop(l)
         \/ \E s \in Signal : Connect(s) \/ DisconnectLast(s) \/ DisconnectAll(s) \/ Die(s)

Next == /\ Loop \/ Calls \/ Tick \/ \E l \in LoopSignal : Activ(l)
        /\ UNCHANGED allowed

Spec == Init /\ [][Next]_vars

(* Handlers return, the loop goes round, the clock ticks; no call of the   *)
(* interface and no activation need ever happen.                           *)
FairSpec == Spec /\ WF_program(Loop) /\ WF_program(Tick)
-----------------------------------------------------------------------------
TypeOK ==
    /\ m_listSignal \in Seq(Signal)
    /\ alive \subseteq Signal /\ isConnected \subseteq alive
    /\ m_period \in [TimeSignal -> Period \cup {0}]
    /\ due \in [TimeSignal -> Nat]
    /\ m_mode \in [SoftTimer -> Mode]
    /\ m_activated \in [LoopSignal -> BOOLEAN]
    /\ phase \in {"setup", "top", "visit", "handling", "faulted"}
    /\ stale \in Seq(Signal)
    /\ iter \in 1 .. Len(m_listSignal) + 1
    /\ running \subseteq Signal
    /\ owed \subseteq Signal /\ unheard \subseteq LoopSignal /\ armed \subseteq SoftTimer

(* None of these calls is made. *)
Without(calls) == calls \cap allowed = {}

(* No signal is in the list twice (it would be run twice in a pass), and a *)
(* SignalTime is in it only while it has a period, whatever handlers set,  *)
(* start, stop and destroy, unless a SignalTime is made at the address of  *)
(* one that died registered (its destructor does not deregister it).  A    *)
(* SignalMainLoop is in the list once as long as it lives, in any case.    *)
RegisteredOnce ==
    /\ \A i, j \in DOMAIN m_listSignal :
           m_listSignal[i] = m_listSignal[j]
               => \/ i = j
                  \/ m_listSignal[i] \in TimeSignal /\ ~Without({"rebuild"})
    /\ \A l \in LoopSignal : Registered(l) <=> l \in alive
    /\ Without({"rebuild"}) => \A s \in TimeSignal : Registered(s) => m_period[s] # 0

(* "SignalTime: periodically invokes by timer preset" (README.md:9): a     *)
(* SignalTime with a period and a slot is known to the loop, unless its    *)
(* last slot was disconnected once (LoopSignals.h:70).                     *)
PresetIsRegistered ==
    Without({"disconnectLast"}) =>
        \A s \in TimeSignal \cap isConnected : m_period[s] # 0 => Registered(s)

(* The timer whose handlers the loop begins is one that was started. *)
RunsOnlyArmed == phase = "visit" /\ phase' = "handling" /\ Here \in SoftTimer => Here \in armed

(* The handlers of a SoftTimer run only if it was started and since then   *)
(* not stopped and, in mode Once, has not run: whenever the loop comes to  *)
(* it on the list.  It does not hold of a timer that it comes to on a      *)
(* removed node (see StoppedTimersRest), nor of one that is made where a   *)
(* registered one died.                                                    *)
OnlyArmedTimersRun == [][stale = << >> /\ Without({"rebuild"}) => RunsOnlyArmed]_vars

(* One pass of the loop runs every signal that was registered when it      *)
(* began and still is, whatever handlers register and deregister, unless   *)
(* one deregisters its own signal and registers another one: the node that *)
(* the iterator is on may then be made again, at the end of the list.      *)
PassVisitsAll ==
    [][phase # "top" /\ phase' = "top"
          => owed = {} \/ {"selfStop", "rearm"} \subseteq allowed]_vars

(* The handlers of every activation they did not begin after are still to  *)
(* come, unless activations come while their own handlers run (see         *)
(* EveryActivationIsHeard).                                                *)
ActivationNotForgotten ==
    Without({"activDuringRun"}) => \A l \in unheard : m_activated[l]

Registers == Len(m_listSignal') > Len(m_listSignal)

(* "It invokes triggered offline-signals and time-signals"                 *)
(* (EventLoop.h:23): if signals are not registered for ever, every         *)
(* activation of a SignalMainLoop is handled, however many come and        *)
(* whatever the handlers deregister.                                       *)
ActivationsAreHandled ==
    Without({"activDuringRun", "selfStop", "die"}) /\ <>[][~Registers]_vars
        => \A l \in LoopSignal : l \in unheard ~> l \notin unheard

SetsAnew(s) ==
    \/ ActivTime(s)
    \/ \E p \in Period \cup {0} :
           \/ SetPeriod(s, p)
           \/ s \in SoftTimer /\ \E mode \in Mode : Start(s, p, mode)

(* A time signal that stays registered and connected, and whose time is    *)
(* not set anew by a call, is run by the loop again and again, if signals  *)
(* are not registered for ever.                                            *)
PeriodsElapse ==
    \A s \in TimeSignal :
        /\ Without({"selfStop", "die"})
        /\ <>[](Registered(s) /\ s \in isConnected)
        /\ <>[][~SetsAnew(s) /\ ~Registers]_vars
        => []<>(s \in running)
-----------------------------------------------------------------------------
(* What the code says of itself and does not keep. *)

(* "Stop the timer" (SwTimer.h:26): the handlers of a stopped timer do not *)
(* run.  They do when the timer in front of it stops itself and then this  *)
(* one: the loop follows the removed nodes, and setPeriod(0) has set the   *)
(* time of the next run to 0 (LoopSignals.h:84), which has come.           *)
StoppedTimersRest == [][RunsOnlyArmed]_vars

(* "It invokes triggered offline-signals and time-signals"                 *)
(* (EventLoop.h:23): the handlers of every activation are still to come.   *)
(* One that comes while they run is cleared when they return               *)
(* (LoopSignals.h:130).                                                    *)
EveryActivationIsHeard == \A l \in unheard : m_activated[l]
=============================================================================

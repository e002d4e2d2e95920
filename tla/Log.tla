-------------------------------- MODULE Log --------------------------------
(***************************************************************************)
(* The logger (src/Loger.cpp).  A message is an object: its constructor    *)
(* takes the one line there is, the << operators fill it, its destructor   *)
(* sends it.  The main program and an interrupt handler each build at most *)
(* one at a time.                                                          *)
(*                                                                         *)
(* A cell of the line shows whose text it is; a heading, a short string, a *)
(* decimal number and one with three digits behind the point take one      *)
(* cell, a hexadecimal number and one with more digits two.  The sender    *)
(* starts a transmission that reads the line until it is over.             *)
(*                                                                         *)
(* allowed, fixed at the start, names what the program may do that some    *)
(* of the properties exclude:                                              *)
(*   "interrupt"      the handler logs once while the main program does;   *)
(*   "overlap"        it does so as often as it likes, or is a task;       *)
(*   "once"           messages with << Once;                               *)
(*   "nestedOnce"     they do so both at a time;                           *)
(*   "longString"     strings of StringModulus characters or more;         *)
(*   "consoleNumber"  Log() << number without a base or precision;         *)
(*   "docPort"        a port callback as Loger.h:36 wants it: true if free.*)
(***************************************************************************)
EXTENDS Integers, FiniteSets

CONSTANTS Main, Handler,  \* the two contexts
          Nobody, NoPlace,
          LineSize,       \* m_BufferMaxSize
          StringModulus,  \* the length of a string is kept modulo this
          StringLength,   \* the lengths of the strings that are logged
          Place,          \* the places of the source with a << Once
          Timeout,        \* the time they give
          TimeModulus,    \* times are unsigned numbers modulo this
          MaxTime, MaxSkipped,  \* bounds: of the clock, of skipped messages
          Usage           \* the sets of calls to explore

Context == {Main, Handler}
Calls == {"interrupt", "overlap", "once", "nestedOnce", "longString", "consoleNumber",
          "docPort"}

ASSUME ContextAssumption == Main # Handler /\ Nobody \notin Context /\ NoPlace \notin Place
ASSUME LengthAssumption ==
    /\ LineSize \in Nat \ {0} /\ StringModulus \in Nat \ {0}
    /\ StringLength \subseteq Nat \ {0}
ASSUME TimeAssumption ==
    /\ Timeout \in Nat /\ MaxTime \in Nat /\ MaxSkipped \in Nat
    /\ TimeModulus \in Nat /\ MaxTime + Timeout < TimeModulus
ASSUME UsageAssumption == Usage \subseteq SUBSET Calls

VARIABLES
    busy, logEnable, maskModule, line,
    setUp,      \* which callbacks are set: "sender", "port", "time"
    log,        \* the Log object of each context
    portFree,   \* whether no transmission is under way
    now,        \* what the time callback returns
    onceSpecStorage,
    sentAt,     \* history: of each place, the time that the last message it
                \* sent had read, -1 if none has read one
    nested,     \* history: whether the handler has logged in Main's message
    allowed

statics == <<busy, line, onceSpecStorage, sentAt>>
switches == <<logEnable, maskModule, setUp>>
world == <<portFree, now>>
logVars == <<statics, switches, world, log, nested, allowed>>

Without(calls) == calls \cap allowed = {}

(* A Log object; asked is what it was given to print, up to a full line;   *)
(* time is what its destructor has read.                                   *)
NoLog == [stage |-> "none", console |-> FALSE, enabled |-> FALSE, end |-> 0, asked |-> 0,
          intBase |-> "unset", m_floatPrecision |-> "unset", place |-> NoPlace, time |-> -1]

Unknown == [last |-> -1, skipped |-> 0]

Init == /\ busy = FALSE /\ logEnable = TRUE /\ maskModule = FALSE
        /\ line = [i \in 0 .. LineSize - 1 |-> Nobody]
        /\ setUp = {}
        /\ log = [c \in Context |-> NoLog]
        /\ portFree = TRUE /\ now = 0
        /\ onceSpecStorage = [p \in Place |-> Unknown]
        /\ sentAt = [p \in Place |-> -1]
        /\ nested = FALSE
        /\ allowed \in Usage

SmallerOf(a, b) == IF a < b THEN a ELSE b

(* The handler runs to its end before the main program goes on; tasks take *)
(* turns at any point.                                                     *)
MayRun(c) == c = Main => log[Handler].stage = "none" \/ "overlap" \in allowed

MayBegin(c) ==
    \/ \A d \in Context : log[d].stage = "none"
    \/ "overlap" \in allowed
    \/ "interrupt" \in allowed /\ c = Handler /\ ~nested
-----------------------------------------------------------------------------
(* The constructors, up to the call of the port callback; a Log that finds *)
(* the line taken is refused.                                              *)
Begin_LineTakenOrNot(c, console) ==
    /\ log[c].stage = "none"
    /\ MayRun(c) /\ MayBegin(c)
    /\ log' = [log EXCEPT ![c] =
                  [NoLog EXCEPT !.stage = IF {"sender", "port"} \subseteq setUp
                                             /\ (console \/ logEnable)
                                          THEN "asking" ELSE "built",
                                !.console = console]]
    /\ nested' = (c = Handler /\ log[Main].stage # "none")
    /\ UNCHANGED <<statics, switches, world, allowed>>
Begin(c, console) ==
    /\ log[c].stage = "none"
    /\ MayRun(c) /\ MayBegin(c)
    /\ log' = [log EXCEPT ![c] =
                  [NoLog EXCEPT !.stage = IF {"sender", "port"} \subseteq setUp
                                             /\ (console \/ logEnable) /\ ~busy
                                          THEN "asking" ELSE "built",
                                !.console = console]]
    /\ nested' = (c = Handler /\ log[Main].stage # "none")
    /\ UNCHANGED <<statics, switches, world, allowed>>

PortIsBusy == IF "docPort" \in allowed THEN portFree ELSE ~portFree

(* The callback returns, at once or after a wait. *)
PortAnswers_NotHeeded(c) ==
    /\ log[c].stage = "asking"
    /\ MayRun(c)
    /\ log' = [log EXCEPT ![c].stage =
                  IF log[c].console \/ maskModule THEN "answered" ELSE "built"]
    /\ UNCHANGED <<statics, switches, world, nested, allowed>>
PortAnswers(c) ==
    /\ log[c].stage = "asking"
    /\ MayRun(c)
    /\ log' = [log EXCEPT ![c].stage =
                  IF ~PortIsBusy /\ (log[c].console \/ maskModule) THEN "answered" ELSE "built"]
    /\ UNCHANGED <<statics, switches, world, nested, allowed>>

(* What has no place in the line any more is left out. *)
PutFrom(l, c, start, cells) ==
    [i \in DOMAIN l |-> IF i \in start .. start + cells - 1 THEN c ELSE l[i]]

Room(c) == LineSize - log[c].end

(* Only the Log of a module gets a base and a precision. *)
Take(c) ==
    /\ log[c].stage = "answered"
    /\ MayRun(c)
    /\ busy' = TRUE
    /\ line' = PutFrom(line, c, 0, 1)
    /\ log' = [log EXCEPT ![c] =
                  [@ EXCEPT !.stage = "built", !.enabled = TRUE, !.end = 1, !.asked = 1,
                            !.intBase = IF log[c].console THEN log[c].intBase ELSE "Dec",
                            !.m_floatPrecision =
                                IF log[c].console THEN log[c].m_floatPrecision ELSE "three"]]
    /\ UNCHANGED <<onceSpecStorage, sentAt, switches, world, nested, allowed>>
-----------------------------------------------------------------------------
(* The << operators.  stored of the cells that were asked for reach the    *)
(* line.                                                                   *)
Put_NoLimit(c, cells, stored) ==
    /\ line' = PutFrom(line, c, log[c].end, stored)
    /\ log' = [log EXCEPT ![c].end = @ + stored,
                          ![c].asked = SmallerOf(@ + cells, LineSize)]
    /\ UNCHANGED <<busy, onceSpecStorage, sentAt, switches, world, nested, allowed>>
Put_AllOrNothing(c, cells, stored) ==
    LET fitting == IF stored <= Room(c) THEN stored ELSE 0
    IN  /\ line' = PutFrom(line, c, log[c].end, fitting)
        /\ log' = [log EXCEPT ![c].end = @ + fitting,
                              ![c].asked = SmallerOf(@ + cells, LineSize)]
        /\ UNCHANGED <<busy, onceSpecStorage, sentAt, switches, world, nested, allowed>>
Put(c, cells, stored) ==
    /\ line' = PutFrom(line, c, log[c].end, SmallerOf(stored, Room(c)))
    /\ log' = [log EXCEPT ![c].end = @ + SmallerOf(stored, Room(c)),
                          ![c].asked = SmallerOf(@ + cells, LineSize)]
    /\ UNCHANGED <<busy, onceSpecStorage, sentAt, switches, world, nested, allowed>>

PutString(c, length) ==
    /\ log[c].stage = "built" /\ log[c].enabled
    /\ MayRun(c)
    /\ length >= StringModulus => "longString" \in allowed
    /\ Put(c, length, IF busy THEN length % StringModulus ELSE 0)

Cells(format) == IF format \in {"Hex", "more"} THEN 2 ELSE 1

(* A number in a format; one that is not set is what the memory holds.     *)
PutNumber(c, format, formats, usual) ==
    /\ log[c].stage = "built" /\ log[c].enabled
    /\ MayRun(c)
    /\ IF format # "unset" THEN Put(c, Cells(format), Cells(format))
       ELSE /\ "consoleNumber" \in allowed
            /\ \E held \in formats : Put(c, Cells(usual), Cells(held))

PutInteger(c) == PutNumber(c, log[c].intBase, {"Dec", "Hex"}, "Dec")

PutReal(c) == PutNumber(c, log[c].m_floatPrecision, {"three", "more"}, "three")

ChooseBase(c, base) ==
    /\ log[c].stage = "built" /\ log[c].enabled
    /\ MayRun(c)
    /\ log' = [log EXCEPT ![c].intBase = base]
    /\ UNCHANGED <<statics, switches, world, nested, allowed>>

ChoosePrecision(c, precision) ==
    /\ log[c].stage = "built" /\ log[c].enabled
    /\ MayRun(c)
    /\ log' = [log EXCEPT ![c].m_floatPrecision = precision]
    /\ UNCHANGED <<statics, switches, world, nested, allowed>>

(* << Once is kept by a refused Log too.  (Before setTransmitter its       *)
(* destructor would write through a null pointer.)                         *)
Once(c, p) ==
    /\ "once" \in allowed
    /\ log[c].stage = "built" /\ log[c].place = NoPlace
    /\ (\E d \in Context : log[d].place # NoPlace) => "nestedOnce" \in allowed
    /\ MayRun(c)
    /\ "sender" \in setUp
    /\ onceSpecStorage[p].skipped < MaxSkipped
    /\ log' = [log EXCEPT ![c].place = p]
    /\ UNCHANGED <<statics, switches, world, nested, allowed>>
-----------------------------------------------------------------------------
(* checkOnceTimeout, at the begin of the destructor of a message with      *)
(* << Once: the time is read,                                              *)
ReadTime(c) ==
    /\ log[c].stage = "built" /\ log[c].place # NoPlace
    /\ MayRun(c)
    /\ log' = [log EXCEPT ![c] = IF "time" \in setUp
                                 THEN [@ EXCEPT !.stage = "timed", !.time = now]
                                 ELSE [@ EXCEPT !.stage = "passed"]]
    /\ UNCHANGED <<statics, switches, world, nested, allowed>>

(* the place is looked up and the times are compared, without a sign,      *)
Since(c) == (log[c].time - onceSpecStorage[log[c].place].last) % TimeModulus

FindOnce_OneTooEarly(c) ==
    /\ log[c].stage = "timed"
    /\ MayRun(c)
    /\ log' = [log EXCEPT ![c].stage =
                  IF onceSpecStorage[log[c].place] = Unknown THEN "new"
                  ELSE IF Since(c) < Timeout - 1 THEN "early" ELSE "elapsed"]
    /\ UNCHANGED <<statics, switches, world, nested, allowed>>
FindOnce(c) ==
    /\ log[c].stage = "timed"
    /\ MayRun(c)
    /\ log' = [log EXCEPT ![c].stage =
                  IF onceSpecStorage[log[c].place] = Unknown THEN "new"
                  ELSE IF Since(c) < Timeout THEN "early" ELSE "elapsed"]
    /\ UNCHANGED <<statics, switches, world, nested, allowed>>

(* and the outcome is stored; what is in the table is not inserted again.  *)
Passes(c) ==
    /\ log[c].stage \in {"new", "elapsed"}
    /\ onceSpecStorage' =
          IF log[c].stage = "elapsed" \/ onceSpecStorage[log[c].place] = Unknown
          THEN [onceSpecStorage EXCEPT ![log[c].place] = [last |-> log[c].time, skipped |-> 0]]
          ELSE onceSpecStorage
    /\ log' = [log EXCEPT ![c].stage = "passed"]

HeldBack(c) ==
    /\ log[c].stage = "early"
    /\ onceSpecStorage' = [onceSpecStorage EXCEPT ![log[c].place].skipped = @ + 1]
    /\ log' = [log EXCEPT ![c].stage = "held"]

StoreOnce(c) ==
    /\ MayRun(c)
    /\ Passes(c) \/ HeldBack(c)
    /\ UNCHANGED <<busy, line, sentAt, switches, world, nested, allowed>>
-----------------------------------------------------------------------------
(* The destructor, or the rest of it.  A message without << Once is sent   *)
(* if its Log was not refused; one with it if its time has come, with the  *)
(* number of messages held back.                                           *)
EndPlain(c) ==
    /\ log[c].stage = "built" /\ log[c].place = NoPlace
    /\ portFree' = (portFree /\ ~log[c].enabled)
    /\ UNCHANGED <<line, sentAt>>

EndPassed(c) ==
    /\ log[c].stage = "passed"
    /\ line' = PutFrom(line, c, log[c].end, SmallerOf(1, Room(c)))
    /\ portFree' = FALSE
    /\ sentAt' = IF log[c].time # -1 THEN [sentAt EXCEPT ![log[c].place] = log[c].time]
                 ELSE sentAt

EndHeld(c) ==
    /\ log[c].stage = "held"
    /\ UNCHANGED <<line, portFree, sentAt>>

(* Every destructor releases the line, that of a refused Log too. *)
End_KeepsBusyIfNotSent(c) ==
    /\ MayRun(c)
    /\ EndPlain(c) \/ EndPassed(c) \/ EndHeld(c)
    /\ busy' = (busy /\ portFree')
    /\ log' = [log EXCEPT ![c] = NoLog]
    /\ UNCHANGED <<onceSpecStorage, switches, now, nested, allowed>>
End(c) ==
    /\ MayRun(c)
    /\ EndPlain(c) \/ EndPassed(c) \/ EndHeld(c)
    /\ busy' = FALSE
    /\ log' = [log EXCEPT ![c] = NoLog]
    /\ UNCHANGED <<onceSpecStorage, switches, now, nested, allowed>>
-----------------------------------------------------------------------------
(* enable, disable, groupOn, groupOff; the setters of the callbacks. *)
Switch ==
    /\ \/ logEnable' \in BOOLEAN /\ UNCHANGED maskModule
       \/ maskModule' \in BOOLEAN /\ UNCHANGED logEnable
    /\ UNCHANGED <<setUp, statics, world, log, nested, allowed>>

SetCallback ==
    /\ \E s \in {"sender", "port", "time"} : setUp' = setUp \cup {s}
    /\ UNCHANGED <<logEnable, maskModule, statics, world, log, nested, allowed>>

TransmissionEnds ==
    /\ ~portFree
    /\ portFree' = TRUE
    /\ UNCHANGED <<statics, switches, now, log, nested, allowed>>

Tick ==
    /\ "once" \in allowed
    /\ now < MaxTime
    /\ now' = now + 1
    /\ UNCHANGED <<statics, switches, portFree, log, nested, allowed>>

Next ==
    \/ \E c \in Context :
           \/ \E console \in BOOLEAN : Begin(c, console)
           \/ PortAnswers(c) \/ Take(c)
           \/ \E length \in StringLength : PutString(c, length)
           \/ PutInteger(c) \/ PutReal(c)
           \/ \E base \in {"Dec", "Hex"} : ChooseBase(c, base)
           \/ \E precision \in {"three", "more"} : ChoosePrecision(c, precision)
           \/ \E p \in Place : Once(c, p)
           \/ ReadTime(c) \/ FindOnce(c) \/ StoreOnce(c)
           \/ End(c)
    \/ Switch \/ SetCallback \/ TransmissionEnds \/ Tick

Spec == Init /\ [][Next]_logVars
-----------------------------------------------------------------------------
Stage == {"none", "asking", "answered", "built",
          "timed", "new", "elapsed", "early", "passed", "held"}

(* No object writes behind the line, whatever its text and whoever else    *)
(* writes.                                                                 *)
TypeOK ==
    /\ {busy, logEnable, maskModule, portFree, nested} \subseteq BOOLEAN
    /\ line \in [0 .. LineSize - 1 -> Context \cup {Nobody}]
    /\ setUp \subseteq {"sender", "port", "time"}
    /\ log \in [Context -> [stage : Stage, console : BOOLEAN, enabled : BOOLEAN,
                            end : 0 .. LineSize, asked : 0 .. LineSize,
                            intBase : {"Dec", "Hex", "unset"},
                            m_floatPrecision : {"three", "more", "unset"},
                            place : Place \cup {NoPlace}, time : -1 .. MaxTime]]
    /\ now \in 0 .. MaxTime
    /\ onceSpecStorage \in [Place -> [last : -1 .. MaxTime, skipped : 0 .. MaxSkipped + 2]]
    /\ sentAt \in [Place -> -1 .. MaxTime]
    /\ allowed \in Usage

Built(c) == log[c].stage = "built" /\ log[c].enabled

(* What a message will send is text of its own only, even if an interrupt  *)
(* handler logs in any of its steps.  (The second time it does it finds    *)
(* the line released by the destructor of its refused Log.)                *)
LineIsOwn ==
    Without({"overlap", "once"}) =>
        \A c \in Context : Built(c) => \A i \in 0 .. log[c].end - 1 : line[i] = c

(* Nothing that a message was given is left out but what has no place: no  *)
(* string is too short, no number in a base that nobody asked for.         *)
MessageIsWhole ==
    Without({"interrupt", "overlap", "longString", "consoleNumber"}) =>
        \A c \in Context : Built(c) => log[c].end = log[c].asked

(* When no message is being built the line is not taken, however they were *)
(* refused, interrupted and held back: the logger never locks itself out.  *)
NoLogLeavesTheLineTaken ==
    (\A c \in Context : log[c].stage = "none") => ~busy

(* The line is not written while the port still sends from it, if the port *)
(* callback answers as the code wants it.                                  *)
LineLeftAlone ==
    [][Without({"interrupt", "overlap", "once", "docPort"}) /\ ~portFree
        => line' = line]_logVars

(* A message of this place is not sent before its time. *)
KeepsDistance(p) ==
    sentAt'[p] # sentAt[p] /\ sentAt[p] # -1 => sentAt'[p] - sentAt[p] >= Timeout

(* The messages of one place that are sent have read times at least its    *)
(* timeout apart, whoever else logs in between, unless two messages with   *)
(* << Once are built at a time: the second one may log between the look of *)
(* the first into the table and what it stores, or between its reading of  *)
(* the time and the look, when the difference wraps.                       *)
OnceKeepsDistance == [][Without({"nestedOnce"}) => \A p \in Place : KeepsDistance(p)]_logVars
=============================================================================

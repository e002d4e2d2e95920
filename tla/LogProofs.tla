----------------------------- MODULE LogProofs -----------------------------
(***************************************************************************)
(* Proofs about Log for every size of the line, every set of strings and   *)
(* places, every timeout, and every way in which the main program and the  *)
(* interrupt handler take turns; and, in the second half, about the        *)
(* conversions with which it writes its numbers (Converters), for numbers  *)
(* of every width, every base, precision and limit.                        *)
(***************************************************************************)
EXTENDS Log, Converters, SequenceTheorems, WellFoundedInduction, TLAPS

LogObject == [stage : Stage, console : BOOLEAN, enabled : BOOLEAN,
              end : 0 .. LineSize, asked : 0 .. LineSize,
              intBase : {"Dec", "Hex", "unset"},
              m_floatPrecision : {"three", "more", "unset"},
              place : Place \cup {NoPlace}, time : -1 .. MaxTime]

Entry == [last : -1 .. MaxTime, skipped : 0 .. MaxSkipped + 2]

Typed ==
    /\ busy \in BOOLEAN /\ logEnable \in BOOLEAN /\ maskModule \in BOOLEAN
    /\ portFree \in BOOLEAN /\ nested \in BOOLEAN
    /\ line \in [0 .. LineSize - 1 -> Context \cup {Nobody}]
    /\ setUp \subseteq {"sender", "port", "time"}
    /\ log \in [Context -> LogObject]
    /\ now \in 0 .. MaxTime
    /\ onceSpecStorage \in [Place -> Entry]
    /\ sentAt \in [Place -> -1 .. MaxTime]
    /\ allowed \in Usage

OnceStages == {"timed", "new", "elapsed", "early", "passed", "held"}

(* What an object holds at each stage of its life. *)
ObjectsAreSound ==
    \A c \in Context :
        /\ log[c].stage \in {"none", "asking", "answered"} =>
              ~log[c].enabled /\ log[c].place = NoPlace
        /\ log[c].stage \in OnceStages => log[c].place # NoPlace
        /\ log[c].stage \in {"timed", "new", "elapsed", "early"} => log[c].time # -1
        /\ log[c].stage \notin OnceStages => log[c].time = -1
        /\ "once" \notin allowed => log[c].place = NoPlace

(* How many messages may still be held back without another << Once. *)
Holds(c, p) == IF log[c].place = p /\ log[c].stage # "held" THEN 1 ELSE 0

SkippedIsBounded ==
    \A p \in Place :
        onceSpecStorage[p].skipped + Holds(Main, p) + Holds(Handler, p) <= MaxSkipped + 1

(* The handler's object lies inside the main program's, at most one inside *)
(* each; while the main program's has the line, the handler's is refused.  *)
OneInsideTheOther ==
    Without({"overlap"}) =>
        /\ log[Main].stage # "none" /\ log[Handler].stage # "none" => nested
        /\ log[Main].enabled /\ ~nested => busy
        /\ log[Main].enabled =>
              log[Handler].stage \notin {"asking", "answered"} /\ ~log[Handler].enabled

OneAtATime ==
    Without({"overlap", "interrupt"}) =>
        /\ log[Main].stage = "none" \/ log[Handler].stage = "none"
        /\ \A c \in Context : Built(c) => busy

(* The port is free from its answer until the message is sent. *)
PortStaysFree ==
    Without({"overlap", "interrupt", "docPort"}) =>
        \A c \in Context : log[c].stage = "answered" \/ Built(c) => portFree

(* A message with << Once whose time was read, that will be sent. *)
Passing(c) == log[c].stage = "passed" /\ log[c].time # -1

(* What such a message knows of its place, at each stage of its end. *)
KnowsItsPlace(c) ==
    LET p == log[c].place
    IN  /\ log[c].time <= now
        /\ log[c].stage = "timed" => onceSpecStorage[p].last <= log[c].time
        /\ log[c].stage = "new" => onceSpecStorage[p] = Unknown
        /\ log[c].stage = "elapsed" => log[c].time - onceSpecStorage[p].last >= Timeout
        /\ log[c].stage = "early" => onceSpecStorage[p].last # -1
        /\ Passing(c) => /\ onceSpecStorage[p].last = log[c].time
                         /\ sentAt[p] # -1 => log[c].time - sentAt[p] >= Timeout

(* The table knows what time the last message of a place has read. *)
KnowsTheLast(p) ==
    /\ onceSpecStorage[p].last <= now
    /\ onceSpecStorage[p].last = -1 => onceSpecStorage[p] = Unknown
    /\ onceSpecStorage[p].last = sentAt[p] \/ \E c \in Context : Passing(c) /\ log[c].place = p

TableIsTrue ==
    Without({"nestedOnce"}) =>
        /\ log[Main].place = NoPlace \/ log[Handler].place = NoPlace
        /\ \A c \in Context : KnowsItsPlace(c)
        /\ \A p \in Place : KnowsTheLast(p)

IInv == /\ Typed /\ ObjectsAreSound /\ SkippedIsBounded
        /\ NoLogLeavesTheLineTaken /\ OneInsideTheOther /\ LineIsOwn
        /\ OneAtATime /\ MessageIsWhole /\ PortStaysFree /\ TableIsTrue
-----------------------------------------------------------------------------
(* A step changes the object of one context only. *)
LEMMA OneObjectChanges ==
    ASSUME log \in [Context -> LogObject], NEW c \in Context, NEW o \in LogObject,
           log' = [log EXCEPT ![c] = o]
    PROVE  /\ log' \in [Context -> LogObject]
           /\ log'[c] = o
           /\ \A d \in Context : d # c => log'[d] = log[d]
OBVIOUS

(* PutFrom writes cells of the line only, and those it is told to. *)
LEMMA PutFromProperties ==
    ASSUME NEW l \in [0 .. LineSize - 1 -> Context \cup {Nobody}],
           NEW c \in Context, NEW start \in Nat, NEW cells \in Nat
    PROVE  /\ PutFrom(l, c, start, cells) \in [0 .. LineSize - 1 -> Context \cup {Nobody}]
           /\ \A i \in 0 .. LineSize - 1 :
                 PutFrom(l, c, start, cells)[i] =
                     IF i \in start .. start + cells - 1 THEN c ELSE l[i]
BY DEF PutFrom

LEMMA TypedIsTypeOK == TypeOK <=> Typed
BY DEF TypeOK, Typed, LogObject, Entry

LEMMA NoLogIsAnObject == NoLog \in LogObject
BY LengthAssumption, TimeAssumption DEF NoLog, LogObject, Stage

(* The table stays true if one object changes that was not to be sent in   *)
(* its place, does not end with << Once and reads no time.                 *)
LEMMA TableStaysTrue ==
    ASSUME IInv, NEW c \in Context, NEW o \in LogObject, log' = [log EXCEPT ![c] = o],
           UNCHANGED <<onceSpecStorage, sentAt, now, allowed>>,
           ~Passing(c), o.stage \notin OnceStages,
           o.place \in {log[c].place, NoPlace}, o.time \in {log[c].time, -1}
    PROVE  TableIsTrue'
<1>1. /\ log'[c] = o
      /\ \A d \in Context : d # c => log'[d] = log[d]
    BY OneObjectChanges DEF IInv, Typed
<1>2. now \in Nat
    BY TimeAssumption DEF IInv, Typed
<1> SUFFICES ASSUME Without({"nestedOnce"}) PROVE TableIsTrue'
    BY DEF TableIsTrue, Without
<1>3. /\ log[Main].place = NoPlace \/ log[Handler].place = NoPlace
      /\ \A d \in Context : KnowsItsPlace(d)
      /\ \A p \in Place : KnowsTheLast(p)
    BY DEF IInv, TableIsTrue
<1>4. log'[Main].place = NoPlace \/ log'[Handler].place = NoPlace
    BY <1>1, <1>3, ContextAssumption DEF Context
<1>5. ASSUME NEW d \in Context PROVE KnowsItsPlace(d)'
    <2>1. CASE d = c
        BY <1>1, <1>2, <1>3, <2>1 DEF KnowsItsPlace, Passing, OnceStages
    <2>2. CASE d # c
        <3>1. log'[d] = log[d] /\ KnowsItsPlace(d)
            BY <1>1, <1>3, <2>2
        <3> QED BY <3>1 DEF KnowsItsPlace, Passing
    <2> QED BY <2>1, <2>2
<1>6. ASSUME NEW p \in Place PROVE KnowsTheLast(p)'
    <2>1. \A d \in Context : Passing(d) => Passing(d)' /\ log'[d] = log[d]
        BY <1>1 DEF Passing
    <2>2. KnowsTheLast(p)
        BY <1>3
    <2> QED BY <2>1, <2>2 DEF KnowsTheLast
<1> QED BY <1>4, <1>5, <1>6 DEF TableIsTrue

LEMMA InitIInv == Init => IInv
<1> SUFFICES ASSUME Init PROVE IInv
    OBVIOUS
<1> USE DEF Init
<1>1. Typed
    <2>1. log \in [Context -> LogObject]
        BY NoLogIsAnObject
    <2>2. onceSpecStorage \in [Place -> Entry]
        BY TimeAssumption DEF Unknown, Entry
    <2>3. now \in 0 .. MaxTime /\ sentAt \in [Place -> -1 .. MaxTime]
        BY TimeAssumption
    <2>4. line \in [0 .. LineSize - 1 -> Context \cup {Nobody}]
        OBVIOUS
    <2>5. /\ busy \in BOOLEAN /\ logEnable \in BOOLEAN /\ maskModule \in BOOLEAN
          /\ portFree \in BOOLEAN /\ nested \in BOOLEAN
          /\ setUp \subseteq {"sender", "port", "time"} /\ allowed \in Usage
        OBVIOUS
    <2> HIDE DEF Init
    <2> QED BY <2>1, <2>2, <2>3, <2>4, <2>5 DEF Typed
<1>2. \A c \in Context : log[c] = NoLog
    OBVIOUS
<1>3. /\ NoLog.stage = "none" /\ NoLog.place = NoPlace /\ NoLog.time = -1
      /\ ~NoLog.enabled
    BY DEF NoLog
<1>4. ObjectsAreSound /\ PortStaysFree /\ NoLogLeavesTheLineTaken
    BY <1>2, <1>3
    DEF ObjectsAreSound, PortStaysFree, NoLogLeavesTheLineTaken, Built, OnceStages
<1>5. SkippedIsBounded
    BY <1>2, <1>3, TimeAssumption, ContextAssumption
    DEF SkippedIsBounded, Holds, Unknown, Context
<1>6. TableIsTrue
    <2>1. \A p \in Place : onceSpecStorage[p] = Unknown /\ sentAt[p] = -1
        OBVIOUS
    <2>2. Unknown.last = -1 /\ now = 0
        BY DEF Unknown
    <2> HIDE DEF Init
    <2> QED BY <1>2, <1>3, <2>1, <2>2, ContextAssumption
            DEF TableIsTrue, KnowsItsPlace, KnowsTheLast, Passing, Context
<1>7. OneInsideTheOther /\ OneAtATime /\ LineIsOwn /\ MessageIsWhole
    BY <1>2, <1>3 DEF OneInsideTheOther, OneAtATime, LineIsOwn, MessageIsWhole, Built, Context
<1> QED BY <1>1, <1>4, <1>5, <1>6, <1>7 DEF IInv
-----------------------------------------------------------------------------
(* The constructors. *)

LEMMA BeginIInv ==
    ASSUME IInv, NEW c \in Context, NEW console \in BOOLEAN, Begin(c, console)
    PROVE  IInv'
<1> USE DEF statics, switches, world
<1> DEFINE st == IF {"sender", "port"} \subseteq setUp /\ (console \/ logEnable) /\ ~busy
                 THEN "asking" ELSE "built"
           o  == [NoLog EXCEPT !.stage = st, !.console = console]
<1>0. /\ log' = [log EXCEPT ![c] = o]
      /\ UNCHANGED <<statics, switches, world, allowed>>
      /\ nested' = (c = Handler /\ log[Main].stage # "none")
      /\ log[c].stage = "none" /\ MayRun(c) /\ MayBegin(c)
    BY DEF Begin
<1>1. st \in {"asking", "built"} /\ (st = "asking" => ~busy)
    OBVIOUS
<1> HIDE DEF st
<1>2. /\ o \in LogObject /\ o.stage = st
      /\ ~o.enabled /\ o.place = NoPlace /\ o.time = -1
    BY <1>1, NoLogIsAnObject DEF NoLog, LogObject, Stage
<1> HIDE DEF o
<1>3. /\ log' \in [Context -> LogObject]
      /\ log'[c] = o
      /\ \A d \in Context : d # c => log'[d] = log[d]
    BY <1>0, <1>2, OneObjectChanges DEF IInv, Typed
<1>4. Typed'
    BY <1>0, <1>3 DEF IInv, Typed
<1>5. ObjectsAreSound'
    BY <1>0, <1>1, <1>2, <1>3 DEF IInv, ObjectsAreSound, OnceStages
<1>6. SkippedIsBounded'
    BY <1>0, <1>2, <1>3, ContextAssumption
    DEF IInv, SkippedIsBounded, Holds, Context, Typed, ObjectsAreSound
<1>7. NoLogLeavesTheLineTaken'
    BY <1>1, <1>2, <1>3 DEF NoLogLeavesTheLineTaken
<1>8. OneInsideTheOther'
    BY <1>0, <1>1, <1>2, <1>3, ContextAssumption
    DEF IInv, OneInsideTheOther, MayRun, MayBegin, Without, Context, ObjectsAreSound
<1>9. OneAtATime'
    BY <1>0, <1>2, <1>3, ContextAssumption
    DEF IInv, OneAtATime, MayRun, MayBegin, Without, Context, Built
<1>10. LineIsOwn' /\ MessageIsWhole' /\ PortStaysFree'
    BY <1>0, <1>1, <1>2, <1>3
    DEF IInv, LineIsOwn, MessageIsWhole, PortStaysFree, Built, Without
<1>11. TableIsTrue'
    BY <1>0, <1>1, <1>2, TableStaysTrue DEF Passing, OnceStages
<1> QED BY <1>4, <1>5, <1>6, <1>7, <1>8, <1>9, <1>10, <1>11 DEF IInv

LEMMA PortAnswersIInv ==
    ASSUME IInv, NEW c \in Context, PortAnswers(c)
    PROVE  IInv'
<1> USE DEF statics, switches, world
<1> DEFINE st == IF ~PortIsBusy /\ (log[c].console \/ maskModule) THEN "answered" ELSE "built"
           o  == [log[c] EXCEPT !.stage = st]
<1>1. /\ log' = [log EXCEPT ![c] = o]
      /\ log[c].stage = "asking" /\ MayRun(c)
      /\ UNCHANGED <<statics, switches, world, nested, allowed>>
    BY DEF PortAnswers
<1>2. st \in {"answered", "built"} /\ (st = "answered" => ~PortIsBusy)
    OBVIOUS
<1> HIDE DEF st
<1>3. /\ o \in LogObject /\ o.stage = st
      /\ o.enabled = log[c].enabled /\ o.place = log[c].place /\ o.time = log[c].time
    <2>1. log[c] \in LogObject
        BY DEF IInv, Typed
    <2> QED BY <1>2, <2>1 DEF LogObject, Stage
<1> HIDE DEF o
<1>4. /\ log' \in [Context -> LogObject]
      /\ log'[c] = o
      /\ \A d \in Context : d # c => log'[d] = log[d]
    BY <1>1, <1>3, OneObjectChanges DEF IInv, Typed
<1>5. ~log[c].enabled /\ log[c].place = NoPlace
    BY <1>1 DEF IInv, ObjectsAreSound
<1>6. Typed'
    BY <1>1, <1>4 DEF IInv, Typed
<1>7. ObjectsAreSound'
    BY <1>1, <1>2, <1>3, <1>4, <1>5 DEF IInv, ObjectsAreSound, OnceStages
<1>8. SkippedIsBounded'
    BY <1>1, <1>2, <1>3, <1>4 DEF IInv, SkippedIsBounded, Holds, Context
<1>9. NoLogLeavesTheLineTaken'
    BY <1>2, <1>3, <1>4 DEF NoLogLeavesTheLineTaken
<1>10. LineIsOwn' /\ MessageIsWhole'
    BY <1>1, <1>3, <1>4, <1>5 DEF IInv, LineIsOwn, MessageIsWhole, Built, Without
<1>11. OneInsideTheOther'
    BY <1>1, <1>2, <1>3, <1>4, <1>5, ContextAssumption
    DEF IInv, OneInsideTheOther, MayRun, Without, Context
<1>12. OneAtATime'
    BY <1>1, <1>2, <1>3, <1>4, <1>5, ContextAssumption
    DEF IInv, OneAtATime, Without, Context, Built
<1>13. PortStaysFree'
    BY <1>1, <1>2, <1>3, <1>4, <1>5 DEF IInv, PortStaysFree, PortIsBusy, Built, Without
<1>14. TableIsTrue'
    BY <1>1, <1>2, <1>3, TableStaysTrue DEF Passing, OnceStages
<1> QED BY <1>6, <1>7, <1>8, <1>9, <1>10, <1>11, <1>12, <1>13, <1>14 DEF IInv

LEMMA TakeIInv ==
    ASSUME IInv, NEW c \in Context, Take(c)
    PROVE  IInv'
<1> USE DEF statics, switches, world
<1> DEFINE base == IF log[c].console THEN log[c].intBase ELSE "Dec"
           precision == IF log[c].console THEN log[c].m_floatPrecision ELSE "three"
           o == [log[c] EXCEPT !.stage = "built", !.enabled = TRUE, !.end = 1, !.asked = 1,
                               !.intBase = base, !.m_floatPrecision = precision]
<1>1. /\ log' = [log EXCEPT ![c] = o]
      /\ log[c].stage = "answered" /\ MayRun(c)
      /\ busy' = TRUE
      /\ line' = PutFrom(line, c, 0, 1)
      /\ UNCHANGED <<onceSpecStorage, sentAt, switches, world, nested, allowed>>
    BY DEF Take
<1>2. /\ o \in LogObject
      /\ o.stage = "built" /\ o.enabled /\ o.end = 1 /\ o.asked = 1
      /\ o.place = log[c].place /\ o.time = log[c].time
    <2>1. log[c] \in LogObject
        BY DEF IInv, Typed
    <2>2. base \in {"Dec", "Hex", "unset"} /\ precision \in {"three", "more", "unset"}
        BY <2>1 DEF LogObject
    <2>3. 1 \in 0 .. LineSize /\ "built" \in Stage
        BY LengthAssumption DEF Stage
    <2> HIDE DEF base, precision
    <2> QED BY <2>1, <2>2, <2>3 DEF LogObject
<1> HIDE DEF o
<1>3. /\ log' \in [Context -> LogObject]
      /\ log'[c] = o
      /\ \A d \in Context : d # c => log'[d] = log[d]
    BY <1>1, <1>2, OneObjectChanges DEF IInv, Typed
<1>4. /\ line' \in [0 .. LineSize - 1 -> Context \cup {Nobody}]
      /\ \A i \in 0 .. LineSize - 1 : line'[i] = IF i = 0 THEN c ELSE line[i]
    <2>1. line \in [0 .. LineSize - 1 -> Context \cup {Nobody}]
        BY DEF IInv, Typed
    <2>2. /\ PutFrom(line, c, 0, 1) \in [0 .. LineSize - 1 -> Context \cup {Nobody}]
          /\ \A i \in 0 .. LineSize - 1 :
                PutFrom(line, c, 0, 1)[i] = IF i \in 0 .. 0 + 1 - 1 THEN c ELSE line[i]
        BY <2>1, PutFromProperties
    <2> QED BY <1>1, <2>2
<1>5. ~log[c].enabled /\ log[c].place = NoPlace
    BY <1>1 DEF IInv, ObjectsAreSound
<1>6. Typed'
    BY <1>1, <1>3, <1>4 DEF IInv, Typed
<1>7. ObjectsAreSound'
    BY <1>1, <1>2, <1>3, <1>5 DEF IInv, ObjectsAreSound, OnceStages
<1>8. SkippedIsBounded'
    BY <1>1, <1>2, <1>3 DEF IInv, SkippedIsBounded, Holds, Context
<1>9. NoLogLeavesTheLineTaken'
    BY <1>2, <1>3 DEF NoLogLeavesTheLineTaken
<1>10. OneInsideTheOther'
    BY <1>1, <1>2, <1>3, <1>5, ContextAssumption
    DEF IInv, OneInsideTheOther, ObjectsAreSound, MayRun, Without, Context
<1>11. LineIsOwn'
    <2>0. \A d \in Context : log'[d].end \in 0 .. LineSize
        BY <1>3 DEF LogObject
    <2> SUFFICES ASSUME Without({"overlap", "once"}), NEW d \in Context, Built(d)',
                        NEW i \in 0 .. LineSize - 1, i < log'[d].end
                 PROVE  line'[i] = d
        BY <1>1, <2>0, LengthAssumption DEF LineIsOwn, Without
    <2>1. CASE d = c
        BY <1>2, <1>3, <1>4, <2>1
    <2>2. CASE d # c
        <3>1. Built(d)
            BY <1>3, <2>2 DEF Built
        <3> QED BY <1>1, <2>2, <3>1, ContextAssumption
                DEF IInv, OneInsideTheOther, MayRun, Without, Context, Built
    <2> QED BY <2>1, <2>2
<1>12. OneAtATime'
    BY <1>1, <1>2, <1>3, <1>5, ContextAssumption
    DEF IInv, OneAtATime, Without, Context, Built
<1>13. MessageIsWhole'
    BY <1>1, <1>2, <1>3 DEF IInv, MessageIsWhole, Built, Without
<1>14. PortStaysFree'
    BY <1>1, <1>2, <1>3 DEF IInv, PortStaysFree, Built, Without
<1>15. TableIsTrue'
    BY <1>1, <1>2, TableStaysTrue DEF Passing, OnceStages
<1> QED BY <1>6, <1>7, <1>8, <1>9, <1>10, <1>11, <1>12, <1>13, <1>14, <1>15 DEF IInv
-----------------------------------------------------------------------------
(* The << operators. *)

LEMMA PutIInv ==
    ASSUME IInv, NEW c \in Context, NEW cells \in Nat, NEW stored \in Nat,
           log[c].stage = "built", log[c].enabled, MayRun(c),
           Without({"interrupt", "overlap", "longString", "consoleNumber"}) => stored = cells,
           Put(c, cells, stored)
    PROVE  IInv'
<1> USE DEF switches, world
<1> DEFINE fitting == SmallerOf(stored, Room(c))
           wanted  == SmallerOf(log[c].asked + cells, LineSize)
           o == [log[c] EXCEPT !.end = log[c].end + fitting, !.asked = wanted]
<1>0. /\ log[c] \in LogObject
      /\ log[c].end \in 0 .. LineSize /\ log[c].asked \in 0 .. LineSize
    BY DEF IInv, Typed, LogObject
<1>1. /\ fitting \in Nat /\ log[c].end + fitting \in 0 .. LineSize
      /\ wanted \in 0 .. LineSize
      /\ log[c].end = log[c].asked /\ stored = cells => log[c].end + fitting = wanted
    BY <1>0, LengthAssumption DEF SmallerOf, Room
<1>2. /\ log' = [log EXCEPT ![c] = o]
      /\ line' = PutFrom(line, c, log[c].end, fitting)
      /\ UNCHANGED <<busy, onceSpecStorage, sentAt, switches, world, nested, allowed>>
    BY DEF Put, IInv, Typed
<1> HIDE DEF fitting, wanted
<1>3. /\ o \in LogObject
      /\ o.end = log[c].end + fitting /\ o.asked = wanted
      /\ o.stage = "built" /\ o.enabled /\ o.place = log[c].place /\ o.time = log[c].time
    BY <1>0, <1>1 DEF LogObject
<1> HIDE DEF o
<1>4. /\ log' \in [Context -> LogObject]
      /\ log'[c] = o
      /\ \A d \in Context : d # c => log'[d] = log[d]
    BY <1>2, <1>3, OneObjectChanges DEF IInv, Typed
<1>5. /\ line' \in [0 .. LineSize - 1 -> Context \cup {Nobody}]
      /\ \A i \in 0 .. LineSize - 1 :
            line'[i] = IF i \in log[c].end .. log[c].end + fitting - 1 THEN c ELSE line[i]
    <2>1. line \in [0 .. LineSize - 1 -> Context \cup {Nobody}]
        BY DEF IInv, Typed
    <2>2. log[c].end \in Nat
        BY <1>0, LengthAssumption
    <2>3. /\ PutFrom(line, c, log[c].end, fitting) \in [0 .. LineSize - 1 -> Context \cup {Nobody}]
          /\ \A i \in 0 .. LineSize - 1 :
                PutFrom(line, c, log[c].end, fitting)[i] =
                    IF i \in log[c].end .. log[c].end + fitting - 1 THEN c ELSE line[i]
        BY <1>1, <2>1, <2>2, PutFromProperties
    <2> QED BY <1>2, <2>3
<1>6. Typed'
    BY <1>2, <1>4, <1>5 DEF IInv, Typed
<1>7. ObjectsAreSound'
    BY <1>2, <1>3, <1>4 DEF IInv, ObjectsAreSound, OnceStages
<1>8. SkippedIsBounded'
    BY <1>2, <1>3, <1>4 DEF IInv, SkippedIsBounded, Holds, Context
<1>9. NoLogLeavesTheLineTaken'
    BY <1>3, <1>4 DEF NoLogLeavesTheLineTaken
<1>10. OneInsideTheOther'
    BY <1>2, <1>3, <1>4, ContextAssumption
    DEF IInv, OneInsideTheOther, MayRun, Without, Context
<1>11. LineIsOwn'
    <2>0. \A d \in Context : log'[d].end \in 0 .. LineSize
        BY <1>4 DEF LogObject
    <2> SUFFICES ASSUME Without({"overlap", "once"}), NEW d \in Context, Built(d)',
                        NEW i \in 0 .. LineSize - 1, i < log'[d].end
                 PROVE  line'[i] = d
        BY <1>2, <2>0, LengthAssumption DEF LineIsOwn, Without
    <2>1. CASE d = c
        <3>1. i < log[c].end => line[i] = c
            BY <1>0 DEF IInv, LineIsOwn, Built
        <3> QED BY <1>0, <1>1, <1>3, <1>4, <1>5, <2>1, <3>1, SMTT(30)
    <2>2. CASE d # c
        <3>1. Built(d)
            BY <1>4, <2>2 DEF Built
        <3> QED BY <1>2, <2>2, <3>1, ContextAssumption
                DEF IInv, OneInsideTheOther, MayRun, Without, Context, Built
    <2> QED BY <2>1, <2>2
<1>12. OneAtATime'
    BY <1>2, <1>3, <1>4, ContextAssumption DEF IInv, OneAtATime, Without, Context, Built
<1>13. MessageIsWhole'
    BY <1>1, <1>2, <1>3, <1>4 DEF IInv, MessageIsWhole, Built, Without
<1>14. PortStaysFree'
    BY <1>2, <1>3, <1>4 DEF IInv, PortStaysFree, Built, Without
<1>15. TableIsTrue'
    BY <1>2, <1>3, TableStaysTrue DEF Passing, OnceStages
<1> QED BY <1>6, <1>7, <1>8, <1>9, <1>10, <1>11, <1>12, <1>13, <1>14, <1>15 DEF IInv

(* A string shorter than StringModulus keeps its length. *)
LEMMA PutStringIInv ==
    ASSUME IInv, NEW c \in Context, NEW length \in StringLength, PutString(c, length)
    PROVE  IInv'
<1> DEFINE stored == IF busy THEN length % StringModulus ELSE 0
<1>1. /\ log[c].stage = "built" /\ log[c].enabled /\ MayRun(c)
      /\ length >= StringModulus => "longString" \in allowed
      /\ Put(c, length, stored)
    BY DEF PutString
<1>2. length \in Nat /\ length % StringModulus \in Nat
    BY LengthAssumption
<1>3. length < StringModulus => length % StringModulus = length
    BY <1>2, LengthAssumption
<1>4. Without({"interrupt", "overlap", "longString", "consoleNumber"}) => stored = length
    <2> SUFFICES ASSUME Without({"interrupt", "overlap", "longString", "consoleNumber"})
                 PROVE  stored = length
        OBVIOUS
    <2>1. busy
        BY <1>1 DEF IInv, OneAtATime, Without, Built
    <2>2. length < StringModulus
        BY <1>1, <1>2, LengthAssumption DEF Without
    <2> QED BY <1>3, <2>1, <2>2
<1>5. stored \in Nat
    BY <1>2
<1> HIDE DEF stored
<1> QED BY <1>1, <1>2, <1>4, <1>5, PutIInv

LEMMA PutNumberIInv ==
    ASSUME IInv, NEW c \in Context, NEW format, NEW formats, NEW usual,
           PutNumber(c, format, formats, usual)
    PROVE  IInv'
<1>1. log[c].stage = "built" /\ log[c].enabled /\ MayRun(c)
    BY DEF PutNumber
<1>2. PICK held : /\ Put(c, Cells(usual), Cells(held)) \/ Put(c, Cells(held), Cells(held))
                  /\ ~Put(c, Cells(held), Cells(held)) => "consoleNumber" \in allowed
    BY DEF PutNumber
<1>3. Cells(usual) \in Nat /\ Cells(held) \in Nat
    BY DEF Cells
<1>4. CASE Put(c, Cells(held), Cells(held))
    BY <1>1, <1>3, <1>4, PutIInv
<1>5. CASE Put(c, Cells(usual), Cells(held)) /\ "consoleNumber" \in allowed
    <2>1. ~Without({"interrupt", "overlap", "longString", "consoleNumber"})
        BY <1>5 DEF Without
    <2> QED BY <1>1, <1>3, <1>5, <2>1, PutIInv
<1> QED BY <1>2, <1>4, <1>5

(* << Base and << Precision change what nothing else looks at. *)
LEMMA ChooseIInv ==
    ASSUME IInv, NEW c \in Context, NEW o \in LogObject,
           log' = [log EXCEPT ![c] = o],
           o.stage = log[c].stage, o.enabled = log[c].enabled, o.place = log[c].place,
           o.time = log[c].time, o.end = log[c].end, o.asked = log[c].asked,
           log[c].stage = "built",
           UNCHANGED <<statics, switches, world, nested, allowed>>
    PROVE  IInv'
<1> USE DEF statics, switches, world
<1>1. /\ log' \in [Context -> LogObject]
      /\ log'[c] = o
      /\ \A d \in Context : d # c => log'[d] = log[d]
    BY OneObjectChanges DEF IInv, Typed
<1>2. Typed'
    BY <1>1 DEF IInv, Typed
<1>3. ObjectsAreSound'
    BY <1>1 DEF IInv, ObjectsAreSound
<1>4. SkippedIsBounded'
    BY <1>1 DEF IInv, SkippedIsBounded, Holds, Context
<1>5. NoLogLeavesTheLineTaken'
    BY <1>1 DEF NoLogLeavesTheLineTaken
<1>6. PortStaysFree'
    BY <1>1 DEF IInv, PortStaysFree, Built, Without
<1>7. OneInsideTheOther' /\ OneAtATime'
    BY <1>1 DEF IInv, OneInsideTheOther, OneAtATime, Without, Context, Built
<1>8. LineIsOwn' /\ MessageIsWhole'
    BY <1>1 DEF IInv, LineIsOwn, MessageIsWhole, Built, Without
<1>9. TableIsTrue'
    BY TableStaysTrue DEF Passing, OnceStages
<1> QED BY <1>2, <1>3, <1>4, <1>5, <1>6, <1>7, <1>8, <1>9 DEF IInv

LEMMA ChooseBaseIInv ==
    ASSUME IInv, NEW c \in Context, NEW base \in {"Dec", "Hex"}, ChooseBase(c, base)
    PROVE  IInv'
<1> DEFINE o == [log[c] EXCEPT !.intBase = base]
<1>1. /\ log' = [log EXCEPT ![c] = o] /\ log[c].stage = "built"
      /\ UNCHANGED <<statics, switches, world, nested, allowed>>
    BY DEF ChooseBase
<1>2. /\ o \in LogObject
      /\ o.stage = log[c].stage /\ o.enabled = log[c].enabled /\ o.place = log[c].place
      /\ o.time = log[c].time /\ o.end = log[c].end /\ o.asked = log[c].asked
    <2>1. log[c] \in LogObject
        BY DEF IInv, Typed
    <2> QED BY <2>1 DEF LogObject
<1> HIDE DEF o
<1> QED BY <1>1, <1>2, ChooseIInv

LEMMA ChoosePrecisionIInv ==
    ASSUME IInv, NEW c \in Context, NEW precision \in {"three", "more"},
           ChoosePrecision(c, precision)
    PROVE  IInv'
<1> DEFINE o == [log[c] EXCEPT !.m_floatPrecision = precision]
<1>1. /\ log' = [log EXCEPT ![c] = o] /\ log[c].stage = "built"
      /\ UNCHANGED <<statics, switches, world, nested, allowed>>
    BY DEF ChoosePrecision
<1>2. /\ o \in LogObject
      /\ o.stage = log[c].stage /\ o.enabled = log[c].enabled /\ o.place = log[c].place
      /\ o.time = log[c].time /\ o.end = log[c].end /\ o.asked = log[c].asked
    <2>1. log[c] \in LogObject
        BY DEF IInv, Typed
    <2> QED BY <2>1 DEF LogObject
<1> HIDE DEF o
<1> QED BY <1>1, <1>2, ChooseIInv
-----------------------------------------------------------------------------
(* << Once. *)

(* A message held back is counted in the table in place of the object.     *)
LEMMA CountGoesToTheTable ==
    ASSUME IInv, NEW c \in Context, \A d \in Context : d # c => log'[d] = log[d],
           onceSpecStorage' \in [Place -> Entry],
           \A q \in Place : onceSpecStorage'[q].skipped + Holds(c, q)'
                                <= onceSpecStorage[q].skipped + Holds(c, q)
    PROVE  SkippedIsBounded'
<1> SUFFICES ASSUME NEW q \in Place
             PROVE  onceSpecStorage'[q].skipped + Holds(Main, q)' + Holds(Handler, q)'
                        <= MaxSkipped + 1
    BY DEF SkippedIsBounded
<1>1. /\ onceSpecStorage'[q].skipped \in Nat /\ onceSpecStorage[q].skipped \in Nat
      /\ MaxSkipped \in Nat
    BY TimeAssumption DEF IInv, Typed, Entry
<1>2. \A d \in Context : d # c => Holds(d, q)' = Holds(d, q)
    BY DEF Holds
<1>3. \A d \in Context : Holds(d, q) \in {0, 1} /\ Holds(d, q)' \in {0, 1}
    BY DEF Holds
<1>4. onceSpecStorage[q].skipped + Holds(Main, q) + Holds(Handler, q) <= MaxSkipped + 1
    BY DEF IInv, SkippedIsBounded
<1>5. onceSpecStorage'[q].skipped + Holds(c, q)' <= onceSpecStorage[q].skipped + Holds(c, q)
    OBVIOUS
<1>6. CASE c = Main
    BY <1>1, <1>2, <1>3, <1>4, <1>5, <1>6, ContextAssumption DEF Context
<1>7. CASE c = Handler
    BY <1>1, <1>2, <1>3, <1>4, <1>5, <1>7, ContextAssumption DEF Context
<1> QED BY <1>6, <1>7 DEF Context

(* What the steps with << Once leave alone: all but the table. *)
LEMMA OnceKeepsTheRest ==
    ASSUME IInv, NEW c \in Context, NEW o \in LogObject, log' = [log EXCEPT ![c] = o],
           "once" \in allowed, MayRun(c),
           log[c].stage \in OnceStages \cup {"built"},
           \/ o.stage \in OnceStages
           \/ o.stage = "built" /\ log[c].stage = "built" /\ o.time = log[c].time,
           o.stage \in {"timed", "new", "elapsed", "early"} => o.time # -1,
           o.place # NoPlace, o.enabled = log[c].enabled,
           o.end = log[c].end, o.asked = log[c].asked,
           onceSpecStorage' \in [Place -> Entry],
           UNCHANGED <<busy, line, sentAt, switches, world, nested, allowed>>
    PROVE  /\ Typed' /\ ObjectsAreSound' /\ NoLogLeavesTheLineTaken' /\ OneInsideTheOther'
           /\ LineIsOwn' /\ OneAtATime' /\ MessageIsWhole' /\ PortStaysFree'
<1> USE DEF switches, world
<1>1. /\ log' \in [Context -> LogObject]
      /\ log'[c] = o
      /\ \A d \in Context : d # c => log'[d] = log[d]
    BY OneObjectChanges DEF IInv, Typed
<1>2. Typed'
    BY <1>1 DEF IInv, Typed
<1>3. ObjectsAreSound'
    BY <1>1 DEF IInv, ObjectsAreSound, OnceStages
<1>4. NoLogLeavesTheLineTaken'
    BY <1>1 DEF NoLogLeavesTheLineTaken, OnceStages
<1>5. OneInsideTheOther'
    BY <1>1, ContextAssumption
    DEF IInv, OneInsideTheOther, OnceStages, MayRun, Without, Context
<1>6. LineIsOwn'
    BY DEF LineIsOwn, Without
<1>7. OneAtATime'
    BY <1>1, ContextAssumption
    DEF IInv, OneAtATime, OnceStages, Without, Context, Built
<1>8. MessageIsWhole'
    BY <1>1 DEF IInv, MessageIsWhole, OnceStages, Without, Built
<1>9. PortStaysFree'
    BY <1>1 DEF IInv, PortStaysFree, OnceStages, Without, Built
<1> QED BY <1>2, <1>3, <1>4, <1>5, <1>6, <1>7, <1>8, <1>9

LEMMA OnceIInv ==
    ASSUME IInv, NEW c \in Context, NEW p \in Place, Once(c, p)
    PROVE  IInv'
<1> USE DEF statics, switches, world
<1> DEFINE o == [log[c] EXCEPT !.place = p]
<1>1. /\ log' = [log EXCEPT ![c] = o]
      /\ "once" \in allowed
      /\ log[c].stage = "built" /\ log[c].place = NoPlace /\ MayRun(c)
      /\ (\E d \in Context : log[d].place # NoPlace) => "nestedOnce" \in allowed
      /\ onceSpecStorage[p].skipped < MaxSkipped
      /\ UNCHANGED <<statics, switches, world, nested, allowed>>
    BY DEF Once
<1>2. /\ o \in LogObject /\ o.place = p /\ o.time = log[c].time
      /\ o.stage = log[c].stage /\ o.enabled = log[c].enabled
      /\ o.end = log[c].end /\ o.asked = log[c].asked
    <2>1. log[c] \in LogObject
        BY DEF IInv, Typed
    <2> QED BY <2>1 DEF LogObject
<1> HIDE DEF o
<1>3. /\ log'[c] = o
      /\ \A d \in Context : d # c => log'[d] = log[d]
    BY <1>1, <1>2, OneObjectChanges DEF IInv, Typed
<1>4. p # NoPlace
    BY ContextAssumption
<1>5. /\ Typed' /\ ObjectsAreSound' /\ NoLogLeavesTheLineTaken' /\ OneInsideTheOther'
      /\ LineIsOwn' /\ OneAtATime' /\ MessageIsWhole' /\ PortStaysFree'
    <2>1. onceSpecStorage' \in [Place -> Entry]
        BY <1>1 DEF IInv, Typed
    <2> QED BY <1>1, <1>2, <1>4, <2>1, OnceKeepsTheRest
<1>6. SkippedIsBounded'
    <2> SUFFICES ASSUME NEW q \in Place
                 PROVE  onceSpecStorage[q].skipped + Holds(Main, q)' + Holds(Handler, q)'
                            <= MaxSkipped + 1
        BY <1>1 DEF SkippedIsBounded
    <2>0. onceSpecStorage[q].skipped \in Nat /\ MaxSkipped \in Nat
        BY TimeAssumption DEF IInv, Typed, Entry
    <2>1. CASE q = p
        BY <1>1, <2>0, <2>1 DEF Holds
    <2>2. CASE q # p
        <3>1. Holds(Main, q)' = Holds(Main, q) /\ Holds(Handler, q)' = Holds(Handler, q)
            BY <1>1, <1>2, <1>3, <2>2, ContextAssumption DEF Holds, Context
        <3> QED BY <3>1 DEF IInv, SkippedIsBounded
    <2> QED BY <2>1, <2>2
<1>7. TableIsTrue'
    <2> SUFFICES ASSUME Without({"nestedOnce"}) PROVE TableIsTrue'
        BY <1>1 DEF TableIsTrue, Without
    <2>1. /\ \A d \in Context : log[d].place = NoPlace
          /\ \A d \in Context : KnowsItsPlace(d)
          /\ \A q \in Place : KnowsTheLast(q)
        BY <1>1 DEF IInv, TableIsTrue, Without
    <2>2. log'[Main].place = NoPlace \/ log'[Handler].place = NoPlace
        BY <1>3, <2>1, ContextAssumption DEF Context
    <2>3. ASSUME NEW d \in Context PROVE KnowsItsPlace(d)'
        <3>1. log'[d].stage \notin OnceStages
            BY <1>1, <1>2, <1>3, <2>1 DEF IInv, ObjectsAreSound, OnceStages
        <3>2. log'[d].time <= now /\ now' = now
            BY <1>1, <1>2, <1>3, <2>1 DEF KnowsItsPlace
        <3> QED BY <3>1, <3>2 DEF KnowsItsPlace, Passing, OnceStages
    <2>4. ASSUME NEW q \in Place PROVE KnowsTheLast(q)'
        <3>1. \A d \in Context : ~Passing(d)
            BY <2>1 DEF IInv, ObjectsAreSound, Passing, OnceStages
        <3> QED BY <1>1, <2>1, <3>1 DEF KnowsTheLast
    <2> QED BY <2>2, <2>3, <2>4 DEF TableIsTrue
<1> QED BY <1>5, <1>6, <1>7 DEF IInv

(* The table stays true if the one message with << Once knows its place    *)
(* before and after a step.                                                *)
LEMMA OneKnowsTheTable ==
    ASSUME IInv, NEW c \in Context, NEW o \in LogObject, log' = [log EXCEPT ![c] = o],
           log[c].place # NoPlace, o.place = log[c].place, UNCHANGED <<now, allowed>>,
           Without({"nestedOnce"}) =>
               /\ KnowsItsPlace(c)'
               /\ \A q \in Place : KnowsTheLast(q) => KnowsTheLast(q)'
    PROVE  TableIsTrue'
<1> SUFFICES ASSUME Without({"nestedOnce"}) PROVE TableIsTrue'
    BY DEF TableIsTrue, Without
<1>1. /\ log'[c] = o
      /\ \A d \in Context : d # c => log'[d] = log[d]
    BY OneObjectChanges DEF IInv, Typed
<1>2. /\ \A d \in Context : d # c => log[d].place = NoPlace
      /\ \A d \in Context : KnowsItsPlace(d)
      /\ \A q \in Place : KnowsTheLast(q)
    BY ContextAssumption DEF IInv, TableIsTrue, Context
<1>3. log'[Main].place = NoPlace \/ log'[Handler].place = NoPlace
    BY <1>1, <1>2, ContextAssumption DEF Context
<1>4. ASSUME NEW d \in Context, d # c PROVE KnowsItsPlace(d)'
    <2>1. log'[d] = log[d] /\ log[d].stage \notin OnceStages /\ log[d].time <= now
        BY <1>1, <1>2, <1>4 DEF IInv, ObjectsAreSound, KnowsItsPlace
    <2> QED BY <2>1 DEF KnowsItsPlace, Passing, OnceStages
<1> QED BY <1>2, <1>3, <1>4 DEF TableIsTrue

LEMMA ReadTimeIInv ==
    ASSUME IInv, NEW c \in Context, ReadTime(c)
    PROVE  IInv'
<1> USE DEF statics, switches, world
<1> DEFINE o == IF "time" \in setUp THEN [log[c] EXCEPT !.stage = "timed", !.time = now]
                ELSE [log[c] EXCEPT !.stage = "passed"]
<1>1. /\ log' = [log EXCEPT ![c] = o]
      /\ log[c].stage = "built" /\ log[c].place # NoPlace /\ MayRun(c)
      /\ UNCHANGED <<statics, switches, world, nested, allowed>>
    BY DEF ReadTime, IInv, Typed
<1>0. now \in 0 .. MaxTime /\ log[c] \in LogObject
    BY DEF IInv, Typed
<1>2. /\ o \in LogObject /\ o.place = log[c].place /\ o.enabled = log[c].enabled
      /\ o.end = log[c].end /\ o.asked = log[c].asked
      /\ \/ o.stage = "timed" /\ o.time = now
         \/ o.stage = "passed" /\ o.time = log[c].time
    <2>1. now \in -1 .. MaxTime /\ "timed" \in Stage /\ "passed" \in Stage
        BY <1>0 DEF Stage
    <2>2. CASE "time" \in setUp
        BY <1>0, <2>1, <2>2 DEF LogObject
    <2>3. CASE "time" \notin setUp
        BY <1>0, <2>1, <2>3 DEF LogObject
    <2> QED BY <2>2, <2>3
<1> HIDE DEF o
<1>3. /\ log'[c] = o
      /\ \A d \in Context : d # c => log'[d] = log[d]
    BY <1>1, <1>2, OneObjectChanges DEF IInv, Typed
<1>4. "once" \in allowed /\ now # -1
    BY <1>0, <1>1, TimeAssumption DEF IInv, ObjectsAreSound
<1>5. onceSpecStorage' \in [Place -> Entry]
    BY <1>1 DEF IInv, Typed
<1>6. /\ Typed' /\ ObjectsAreSound' /\ NoLogLeavesTheLineTaken' /\ OneInsideTheOther'
      /\ LineIsOwn' /\ OneAtATime' /\ MessageIsWhole' /\ PortStaysFree'
    BY <1>1, <1>2, <1>4, <1>5, OnceKeepsTheRest DEF OnceStages
<1>7. SkippedIsBounded'
    <2>1. \A q \in Place : Holds(c, q)' = Holds(c, q)
        BY <1>1, <1>2, <1>3 DEF Holds
    <2>2. \A q \in Place : onceSpecStorage[q].skipped + Holds(c, q) \in Int
        BY DEF IInv, Typed, Entry, Holds
    <2> QED BY <1>1, <1>3, <1>5, <2>1, <2>2, CountGoesToTheTable
<1>8. TableIsTrue'
    <2> SUFFICES ASSUME Without({"nestedOnce"})
                 PROVE  /\ KnowsItsPlace(c)'
                        /\ \A q \in Place : KnowsTheLast(q) => KnowsTheLast(q)'
        BY <1>1, <1>2, OneKnowsTheTable
    <2>0. log[c].place \in Place
        BY <1>0, <1>1 DEF LogObject
    <2>1. /\ onceSpecStorage[log[c].place].last <= now /\ log[c].time <= now
          /\ log[c].time = -1
        BY <1>1, <2>0
        DEF IInv, TableIsTrue, KnowsTheLast, KnowsItsPlace, ObjectsAreSound, OnceStages
    <2>2. KnowsItsPlace(c)'
        BY <1>0, <1>1, <1>2, <1>3, <2>1 DEF KnowsItsPlace, Passing
    <2>3. \A d \in Context : Passing(d) => Passing(d)' /\ log'[d] = log[d]
        BY <1>1, <1>3 DEF Passing
    <2>4. \A q \in Place : KnowsTheLast(q) => KnowsTheLast(q)'
        BY <1>1, <2>3 DEF KnowsTheLast
    <2> QED BY <2>2, <2>4
<1> QED BY <1>6, <1>7, <1>8 DEF IInv

(* Not before its timeout: the difference does not wrap. *)
LEMMA FindOnceIInv ==
    ASSUME IInv, NEW c \in Context, FindOnce(c)
    PROVE  IInv'
<1> USE DEF statics, switches, world
<1> DEFINE p  == log[c].place
           st == IF onceSpecStorage[p] = Unknown THEN "new"
                 ELSE IF Since(c) < Timeout THEN "early" ELSE "elapsed"
           o  == [log[c] EXCEPT !.stage = st]
<1>1. /\ log' = [log EXCEPT ![c] = o]
      /\ log[c].stage = "timed" /\ MayRun(c)
      /\ UNCHANGED <<statics, switches, world, nested, allowed>>
    BY DEF FindOnce
<1>2. /\ st \in {"new", "early", "elapsed"}
      /\ st = "new" <=> onceSpecStorage[p] = Unknown
      /\ st = "elapsed" => ~(Since(c) < Timeout)
    OBVIOUS
<1> HIDE DEF st
<1>3. log[c] \in LogObject /\ p \in Place /\ p # NoPlace /\ log[c].time # -1 /\ "once" \in allowed
    BY <1>1 DEF IInv, Typed, LogObject, ObjectsAreSound, OnceStages
<1>4. /\ o \in LogObject /\ o.place = p /\ o.enabled = log[c].enabled
      /\ o.end = log[c].end /\ o.asked = log[c].asked
      /\ o.stage = st /\ o.time = log[c].time
    BY <1>2, <1>3 DEF LogObject, Stage
<1> HIDE DEF o
<1>5. /\ log'[c] = o
      /\ \A d \in Context : d # c => log'[d] = log[d]
    BY <1>1, <1>4, OneObjectChanges DEF IInv, Typed
<1>6. onceSpecStorage' \in [Place -> Entry]
    BY <1>1 DEF IInv, Typed
<1>7. /\ Typed' /\ ObjectsAreSound' /\ NoLogLeavesTheLineTaken' /\ OneInsideTheOther'
      /\ LineIsOwn' /\ OneAtATime' /\ MessageIsWhole' /\ PortStaysFree'
    <2>1. o.stage \in OnceStages /\ log[c].stage \in OnceStages
        BY <1>1, <1>2, <1>4 DEF OnceStages
    <2>2. o.place # NoPlace /\ o.time # -1
        BY <1>3, <1>4
    <2>3. UNCHANGED <<busy, line, sentAt, switches, world, nested, allowed>>
        BY <1>1
    <2> HIDE DEF statics, switches, world, p
    <2> QED BY <1>1, <1>3, <1>4, <1>6, <2>1, <2>2, <2>3, OnceKeepsTheRest
<1>8. SkippedIsBounded'
    <2>1. \A q \in Place : Holds(c, q)' = Holds(c, q)
        BY <1>1, <1>2, <1>4, <1>5 DEF Holds
    <2>2. \A q \in Place : onceSpecStorage[q].skipped + Holds(c, q) \in Int
        BY DEF IInv, Typed, Entry, Holds
    <2> QED BY <1>1, <1>5, <1>6, <2>1, <2>2, CountGoesToTheTable
<1>9. TableIsTrue'
    <2> SUFFICES ASSUME Without({"nestedOnce"})
                 PROVE  /\ KnowsItsPlace(c)'
                        /\ \A q \in Place : KnowsTheLast(q) => KnowsTheLast(q)'
        BY <1>1, <1>3, <1>4, OneKnowsTheTable
    <2>1. /\ onceSpecStorage[p].last <= log[c].time /\ log[c].time <= now
          /\ onceSpecStorage[p].last = -1 => onceSpecStorage[p] = Unknown
        BY <1>1, <1>3 DEF IInv, TableIsTrue, KnowsTheLast, KnowsItsPlace
    <2>2. /\ onceSpecStorage[p].last \in -1 .. MaxTime /\ log[c].time \in 0 .. MaxTime
          /\ MaxTime \in Nat /\ Timeout \in Nat /\ TimeModulus \in Nat
          /\ MaxTime + Timeout < TimeModulus
        BY <1>3, TimeAssumption DEF IInv, Typed, Entry, LogObject
    <2>3. st = "elapsed" => log[c].time - onceSpecStorage[p].last >= Timeout
        <3> SUFFICES ASSUME st = "elapsed"
                     PROVE  log[c].time - onceSpecStorage[p].last >= Timeout
            OBVIOUS
        <3>1. onceSpecStorage[p].last >= 0
            BY <1>2, <2>1, <2>2
        <3>2. PICK late \in Nat : late = log[c].time - onceSpecStorage[p].last
            BY <2>1, <2>2
        <3>3. late < TimeModulus
            BY <2>2, <3>1, <3>2
        <3>4. late % TimeModulus = late
            BY <2>2, <3>3
        <3>5. ~(late < Timeout)
            BY <1>2, <3>2, <3>4 DEF Since
        <3> QED BY <2>2, <3>2, <3>5
    <2>4. KnowsItsPlace(c)'
        BY <1>1, <1>2, <1>4, <1>5, <2>1, <2>3 DEF KnowsItsPlace, Passing
    <2>5. \A d \in Context : Passing(d) => Passing(d)' /\ log'[d] = log[d]
        BY <1>1, <1>5 DEF Passing
    <2>6. \A q \in Place : KnowsTheLast(q) => KnowsTheLast(q)'
        BY <1>1, <2>5 DEF KnowsTheLast
    <2> QED BY <2>4, <2>6
<1> QED BY <1>7, <1>8, <1>9 DEF IInv

LEMMA StoreOnceIInv ==
    ASSUME IInv, NEW c \in Context, StoreOnce(c)
    PROVE  IInv'
<1> USE DEF statics, switches, world
<1>0. PICK p : p = log[c].place
    OBVIOUS
<1> DEFINE st == IF log[c].stage = "early" THEN "held" ELSE "passed"
           o  == [log[c] EXCEPT !.stage = st]
           stored == [onceSpecStorage EXCEPT ![p] = [last |-> log[c].time, skipped |-> 0]]
           counted == [onceSpecStorage EXCEPT ![p].skipped = @ + 1]
<1>1. /\ log' = [log EXCEPT ![c] = o]
      /\ log[c].stage \in {"new", "elapsed", "early"} /\ MayRun(c)
      /\ UNCHANGED <<busy, line, sentAt, switches, world, nested, allowed>>
    BY DEF StoreOnce, Passes, HeldBack
<1>2. \/ /\ log[c].stage = "early" /\ st = "held"
         /\ onceSpecStorage' = counted
      \/ /\ \/ log[c].stage = "elapsed"
            \/ log[c].stage = "new" /\ onceSpecStorage[p] = Unknown
         /\ st = "passed" /\ onceSpecStorage' = stored
      \/ /\ log[c].stage = "new" /\ onceSpecStorage[p] # Unknown
         /\ st = "passed" /\ onceSpecStorage' = onceSpecStorage
    <2>1. CASE Passes(c)
        <3>1. CASE log[c].stage = "elapsed" \/ onceSpecStorage[p] = Unknown
            <4>1. onceSpecStorage' = stored
                BY <1>0, <2>1, <3>1 DEF Passes
            <4>2. st = "passed" /\ (log[c].stage = "new" \/ log[c].stage = "elapsed")
                BY <2>1 DEF Passes
            <4> HIDE DEF st, stored, counted
            <4> QED BY <3>1, <4>1, <4>2
        <3>2. CASE ~(log[c].stage = "elapsed" \/ onceSpecStorage[p] = Unknown)
            BY <1>0, <2>1, <3>2 DEF Passes
        <3> QED BY <3>1, <3>2
    <2>2. CASE HeldBack(c)
        BY <1>0, <2>2 DEF HeldBack
    <2> QED BY <2>1, <2>2 DEF StoreOnce
<1> HIDE DEF st
<1>3. log[c] \in LogObject /\ p \in Place /\ p # NoPlace /\ log[c].time # -1 /\ "once" \in allowed
    BY <1>0, <1>1 DEF IInv, Typed, LogObject, ObjectsAreSound, OnceStages
<1>4. /\ o \in LogObject /\ o.place = p /\ o.enabled = log[c].enabled
      /\ o.end = log[c].end /\ o.asked = log[c].asked
      /\ o.stage = st /\ o.time = log[c].time
    BY <1>0, <1>2, <1>3 DEF LogObject, Stage
<1> HIDE DEF o
<1>5. /\ log'[c] = o
      /\ \A d \in Context : d # c => log'[d] = log[d]
    BY <1>1, <1>4, OneObjectChanges DEF IInv, Typed
<1>6. /\ onceSpecStorage \in [Place -> Entry] /\ log[c].time \in 0 .. MaxTime
      /\ sentAt \in [Place -> -1 .. MaxTime]
      /\ MaxTime \in Nat /\ MaxSkipped \in Nat /\ Timeout \in Nat
    BY <1>3, TimeAssumption DEF IInv, Typed, LogObject
<1>7. /\ stored \in [Place -> Entry] /\ stored[p] = [last |-> log[c].time, skipped |-> 0]
      /\ \A q \in Place : q # p => stored[q] = onceSpecStorage[q]
    <2>1. [last |-> log[c].time, skipped |-> 0] \in Entry
        BY <1>6 DEF Entry
    <2> QED BY <1>3, <1>6, <2>1
<1>8. log[c].stage = "early" =>
         /\ counted \in [Place -> Entry]
         /\ counted[p].skipped = onceSpecStorage[p].skipped + 1
         /\ counted[p].last = onceSpecStorage[p].last
         /\ \A q \in Place : q # p => counted[q] = onceSpecStorage[q]
    <2> SUFFICES ASSUME log[c].stage = "early"
                 PROVE  /\ counted \in [Place -> Entry]
                        /\ counted[p].skipped = onceSpecStorage[p].skipped + 1
                        /\ counted[p].last = onceSpecStorage[p].last
                        /\ \A q \in Place : q # p => counted[q] = onceSpecStorage[q]
        OBVIOUS
    <2>1. onceSpecStorage[p].skipped + Holds(Main, p) + Holds(Handler, p) <= MaxSkipped + 1
        BY <1>3 DEF IInv, SkippedIsBounded
    <2>2. Holds(Main, p) \in {0, 1} /\ Holds(Handler, p) \in {0, 1}
        BY DEF Holds
    <2>3. onceSpecStorage[p] \in Entry
        BY <1>3, <1>6
    <2>4. onceSpecStorage[p].skipped + 1 \in 0 .. MaxSkipped + 2
        BY <1>6, <2>1, <2>2, <2>3 DEF Entry
    <2>5. [onceSpecStorage[p] EXCEPT !.skipped = @ + 1] \in Entry
        BY <2>3, <2>4 DEF Entry
    <2> QED BY <1>3, <1>6, <2>3, <2>5 DEF Entry
<1> HIDE DEF stored, counted
<1>9. onceSpecStorage' \in [Place -> Entry]
    BY <1>2, <1>6, <1>7, <1>8
<1>10. /\ Typed' /\ ObjectsAreSound' /\ NoLogLeavesTheLineTaken' /\ OneInsideTheOther'
       /\ LineIsOwn' /\ OneAtATime' /\ MessageIsWhole' /\ PortStaysFree'
    <2>1. /\ o.stage \in {"passed", "held"}
          /\ o.stage \in OnceStages /\ log[c].stage \in OnceStages
        BY <1>1, <1>2, <1>4 DEF OnceStages
    <2>2. o.place # NoPlace /\ o.time # -1
        BY <1>3, <1>4
    <2> HIDE DEF statics, switches, world
    <2> QED BY <1>1, <1>3, <1>4, <1>9, <2>1, <2>2, OnceKeepsTheRest
<1>11. SkippedIsBounded'
    <2>0. \A q \in Place : Holds(c, q) = IF q = p THEN 1 ELSE 0
        BY <1>0, <1>1 DEF Holds
    <2>1. \A q \in Place : Holds(c, q)' = IF q = p /\ st # "held" THEN 1 ELSE 0
        BY <1>4, <1>5 DEF Holds
    <2>2. \A q \in Place : onceSpecStorage[q].skipped \in Nat
        BY <1>6 DEF Entry
    <2>3. ASSUME NEW q \in Place
          PROVE  onceSpecStorage'[q].skipped + Holds(c, q)'
                     <= onceSpecStorage[q].skipped + Holds(c, q)
        <3>1. CASE q # p
            <4>1. onceSpecStorage'[q] = onceSpecStorage[q]
                BY <1>2, <1>7, <1>8, <3>1
            <4> QED BY <2>0, <2>1, <2>2, <3>1, <4>1
        <3>2. CASE q = p /\ st = "held"
            BY <1>2, <1>8, <2>0, <2>1, <2>2, <3>2
        <3>3. CASE q = p /\ st # "held"
            <4>1. /\ onceSpecStorage'[q].skipped = 0
                  \/ onceSpecStorage'[q].skipped = onceSpecStorage[q].skipped
                BY <1>2, <1>7, <3>3
            <4> QED BY <2>0, <2>1, <2>2, <3>3, <4>1
        <3> QED BY <3>1, <3>2, <3>3
    <2> QED BY <1>5, <1>9, <2>3, CountGoesToTheTable
<1>12. TableIsTrue'
    <2> SUFFICES ASSUME Without({"nestedOnce"})
                 PROVE  /\ KnowsItsPlace(c)'
                        /\ \A q \in Place : KnowsTheLast(q) => KnowsTheLast(q)'
        BY <1>0, <1>1, <1>3, <1>4, OneKnowsTheTable
    <2>1. /\ \A d \in Context : d # c => log[d].place = NoPlace
          /\ KnowsItsPlace(c) /\ KnowsTheLast(p)
        BY <1>0, <1>3, ContextAssumption DEF IInv, TableIsTrue, Context
    <2>2. onceSpecStorage[p].last = sentAt[p]
        BY <1>1, <1>3, <2>1 DEF KnowsTheLast, Passing
    <2>3. \A q \in Place, d \in Context :
             Passing(d) /\ log[d].place = q => Passing(d)' /\ log'[d].place = q
        BY <1>1, <1>5 DEF Passing
    <2>4. ASSUME NEW q \in Place, q # p, KnowsTheLast(q) PROVE KnowsTheLast(q)'
        <3>1. onceSpecStorage'[q] = onceSpecStorage[q]
            BY <1>2, <1>7, <1>8, <2>4
        <3> QED BY <1>1, <2>3, <2>4, <3>1 DEF KnowsTheLast
    <2>5. CASE log[c].stage = "early"
        <3>1. /\ st = "held" /\ onceSpecStorage'[p].last = onceSpecStorage[p].last
              /\ onceSpecStorage[p].last # -1
            BY <1>0, <1>2, <1>8, <2>1, <2>5 DEF KnowsItsPlace
        <3>2. KnowsItsPlace(c)'
            BY <1>1, <1>4, <1>5, <2>1, <3>1 DEF KnowsItsPlace, Passing
        <3>3. KnowsTheLast(p)'
            BY <1>1, <2>1, <2>2, <3>1 DEF KnowsTheLast
        <3> QED BY <2>4, <3>2, <3>3
    <2>6. CASE log[c].stage \in {"new", "elapsed"}
        <3>1. /\ st = "passed" /\ onceSpecStorage'[p].last = log[c].time
              /\ log[c].time <= now
              /\ log[c].stage = "new" => onceSpecStorage[p] = Unknown
              /\ log[c].stage = "elapsed" => log[c].time - onceSpecStorage[p].last >= Timeout
            BY <1>0, <1>2, <1>7, <2>1, <2>6 DEF KnowsItsPlace
        <3>2. sentAt[p] # -1 => log[c].time - sentAt[p] >= Timeout
            BY <2>2, <2>6, <3>1 DEF Unknown
        <3>3. Passing(c)' /\ log'[c].place = p
            BY <1>3, <1>4, <1>5, <3>1 DEF Passing
        <3>4. KnowsItsPlace(c)'
            BY <1>1, <1>4, <1>5, <3>1, <3>2 DEF KnowsItsPlace
        <3>5. KnowsTheLast(p)'
            BY <1>1, <1>3, <3>1, <3>3 DEF KnowsTheLast
        <3> QED BY <2>4, <3>4, <3>5
    <2> QED BY <1>1, <2>5, <2>6
<1> QED BY <1>10, <1>11, <1>12 DEF IInv
-----------------------------------------------------------------------------
(* The destructor. *)

(* A message whose time was read leaves it behind for its place. *)
LEMMA EndKeepsTheTable ==
    ASSUME IInv, NEW c \in Context, End(c)
    PROVE  /\ sentAt' \in [Place -> -1 .. MaxTime]
           /\ TableIsTrue'
<1> USE DEF switches
<1> DEFINE p == log[c].place
<1>1. /\ log' = [log EXCEPT ![c] = NoLog]
      /\ UNCHANGED <<onceSpecStorage, now, allowed>>
    BY DEF End
<1>2. NoLog.stage = "none" /\ NoLog.place = NoPlace /\ NoLog.time = -1
    BY DEF NoLog
<1>3. CASE sentAt' = sentAt /\ ~Passing(c)
    <2>1. TableIsTrue'
        BY <1>1, <1>2, <1>3, NoLogIsAnObject, TableStaysTrue DEF OnceStages
    <2> QED BY <1>3, <2>1 DEF IInv, Typed
<1>4. CASE Passing(c) /\ sentAt' = [sentAt EXCEPT ![p] = log[c].time]
    <2>0. p \in Place /\ p # NoPlace /\ log[c].time \in -1 .. MaxTime
        BY <1>4 DEF Passing, IInv, Typed, LogObject, ObjectsAreSound, OnceStages
    <2>1. /\ sentAt' \in [Place -> -1 .. MaxTime] /\ sentAt'[p] = log[c].time
          /\ \A q \in Place : q # p => sentAt'[q] = sentAt[q]
        BY <1>4, <2>0 DEF IInv, Typed
    <2>2. /\ log'[c] = NoLog
          /\ \A d \in Context : d # c => log'[d] = log[d]
        BY <1>1, NoLogIsAnObject, OneObjectChanges DEF IInv, Typed
    <2>3. TableIsTrue'
        <3> SUFFICES ASSUME Without({"nestedOnce"}) PROVE TableIsTrue'
            BY <1>1 DEF TableIsTrue, Without
        <3>1. /\ \A d \in Context : d # c => log[d].place = NoPlace
              /\ \A d \in Context : KnowsItsPlace(d)
              /\ \A q \in Place : KnowsTheLast(q)
            BY <2>0, ContextAssumption DEF IInv, TableIsTrue, Context
        <3>2. \A d \in Context : log'[d].place = NoPlace
            BY <1>2, <2>2, <3>1
        <3>3. \A d \in Context : log'[d].stage \notin OnceStages /\ log'[d].time <= now'
            <4>1. now \in Nat
                BY TimeAssumption DEF IInv, Typed
            <4>2. NoLog.time <= now
                BY <1>2, <4>1
            <4>3. NoLog.stage \notin OnceStages
                BY <1>2 DEF OnceStages
            <4> QED BY <1>1, <2>2, <3>1, <4>2, <4>3 DEF IInv, ObjectsAreSound, KnowsItsPlace
        <3>4. ASSUME NEW d \in Context PROVE KnowsItsPlace(d)'
            BY <3>3 DEF KnowsItsPlace, Passing, OnceStages
        <3>5. ASSUME NEW q \in Place PROVE KnowsTheLast(q)'
            <4>1. CASE q = p
                <5>1. onceSpecStorage[p].last = log[c].time
                    BY <1>4, <3>1 DEF KnowsItsPlace
                <5> QED BY <1>1, <2>1, <3>1, <4>1, <5>1 DEF KnowsTheLast
            <4>2. CASE q # p
                <5>1. ~\E d \in Context : Passing(d) /\ log[d].place = q
                    BY <3>1, <4>2, ContextAssumption
                <5> QED BY <1>1, <2>1, <3>1, <4>2, <5>1 DEF KnowsTheLast
            <4> QED BY <4>1, <4>2
        <3> QED BY <3>2, <3>4, <3>5, ContextAssumption DEF TableIsTrue, Context
    <2> QED BY <2>1, <2>3
<1>5. \/ sentAt' = sentAt /\ ~Passing(c)
      \/ Passing(c) /\ sentAt' = [sentAt EXCEPT ![p] = log[c].time]
    BY DEF End, EndPlain, EndPassed, EndHeld, Passing
<1> QED BY <1>3, <1>4, <1>5

(* A message without << Once leaves the line alone. *)
LEMMA EndIInv ==
    ASSUME IInv, NEW c \in Context, End(c)
    PROVE  IInv'
<1> USE DEF switches
<1>1. /\ log' = [log EXCEPT ![c] = NoLog]
      /\ MayRun(c) /\ log[c].stage # "none"
      /\ EndPlain(c) \/ EndPassed(c) \/ EndHeld(c)
      /\ busy' = FALSE
      /\ UNCHANGED <<onceSpecStorage, switches, now, nested, allowed>>
    BY DEF End, EndPlain, EndPassed, EndHeld
<1>2. /\ log' \in [Context -> LogObject]
      /\ log'[c] = NoLog
      /\ \A d \in Context : d # c => log'[d] = log[d]
    BY <1>1, NoLogIsAnObject, OneObjectChanges DEF IInv, Typed
<1>3. NoLog.stage = "none" /\ NoLog.place = NoPlace /\ ~NoLog.enabled /\ NoLog.time = -1
    BY DEF NoLog
<1>4. /\ portFree' \in BOOLEAN
      /\ line' \in [0 .. LineSize - 1 -> Context \cup {Nobody}]
    <2>1. log[c].end \in 0 .. LineSize /\ line \in [0 .. LineSize - 1 -> Context \cup {Nobody}]
        BY DEF IInv, Typed, LogObject
    <2>2. log[c].end \in Nat /\ SmallerOf(1, Room(c)) \in Nat
        BY <2>1, LengthAssumption DEF SmallerOf, Room
    <2>3. PutFrom(line, c, log[c].end, SmallerOf(1, Room(c)))
             \in [0 .. LineSize - 1 -> Context \cup {Nobody}]
        BY <2>1, <2>2, PutFromProperties
    <2>4. portFree' \in BOOLEAN
        BY <1>1 DEF EndPlain, EndPassed, EndHeld, IInv, Typed
    <2>5. \/ line' = line
          \/ line' = PutFrom(line, c, log[c].end, SmallerOf(1, Room(c)))
        BY <1>1 DEF EndPlain, EndPassed, EndHeld
    <2> QED BY <2>1, <2>3, <2>4, <2>5
<1>5. sentAt' \in [Place -> -1 .. MaxTime] /\ TableIsTrue'
    BY EndKeepsTheTable
<1>6. Without({"once"}) => line' = line
    BY <1>1
    DEF EndPlain, EndPassed, EndHeld, IInv, ObjectsAreSound, OnceStages, Without
<1>7. Typed'
    BY <1>1, <1>2, <1>4, <1>5 DEF IInv, Typed
<1>8. ObjectsAreSound'
    BY <1>1, <1>2, <1>3 DEF IInv, ObjectsAreSound, OnceStages
<1>9. SkippedIsBounded'
    <2>1. ASSUME NEW q \in Place
          PROVE  onceSpecStorage'[q].skipped + Holds(c, q)'
                     <= onceSpecStorage[q].skipped + Holds(c, q)
        <3>1. Holds(c, q)' = 0 /\ Holds(c, q) \in {0, 1}
            BY <1>2, <1>3, ContextAssumption DEF Holds
        <3>2. onceSpecStorage[q].skipped \in Nat
            BY DEF IInv, Typed, Entry
        <3> QED BY <1>1, <3>1, <3>2
    <2>2. onceSpecStorage' \in [Place -> Entry]
        BY <1>1 DEF IInv, Typed
    <2> QED BY <1>2, <2>1, <2>2, CountGoesToTheTable
<1>10. NoLogLeavesTheLineTaken'
    BY <1>1 DEF NoLogLeavesTheLineTaken
<1>11. OneInsideTheOther'
    BY <1>1, <1>2, <1>3, ContextAssumption
    DEF IInv, OneInsideTheOther, ObjectsAreSound, Without, Context
<1>12. LineIsOwn'
    BY <1>1, <1>2, <1>3, <1>6 DEF IInv, LineIsOwn, Built, Without
<1>13. OneAtATime'
    BY <1>1, <1>2, <1>3, ContextAssumption DEF IInv, OneAtATime, Without, Context, Built
<1>14. MessageIsWhole'
    BY <1>1, <1>2, <1>3 DEF IInv, MessageIsWhole, Built, Without
<1>15. PortStaysFree'
    BY <1>1, <1>2, <1>3, ContextAssumption
    DEF IInv, PortStaysFree, OneAtATime, Without, Context, Built
<1> QED BY <1>5, <1>7, <1>8, <1>9, <1>10, <1>11, <1>12, <1>13, <1>14, <1>15 DEF IInv
-----------------------------------------------------------------------------
(* What happens around the messages: the switches, the callbacks, the end  *)
(* of a transmission, the clock.                                           *)
LEMMA WorldIInv ==
    ASSUME IInv, Switch \/ SetCallback \/ TransmissionEnds \/ Tick
    PROVE  IInv'
<1> USE DEF statics, switches, world
<1>1. /\ UNCHANGED <<statics, log, nested, allowed>>
      /\ portFree => portFree'
    BY DEF Switch, SetCallback, TransmissionEnds, Tick
<1>2. Typed'
    <2>1. CASE Switch
        BY <2>1 DEF Switch, IInv, Typed
    <2>2. CASE SetCallback
        BY <2>2 DEF SetCallback, IInv, Typed
    <2>3. CASE TransmissionEnds
        BY <2>3 DEF TransmissionEnds, IInv, Typed
    <2>4. CASE Tick
        BY <2>4, TimeAssumption DEF Tick, IInv, Typed
    <2> QED BY <2>1, <2>2, <2>3, <2>4
<1>3. ObjectsAreSound' /\ SkippedIsBounded' /\ NoLogLeavesTheLineTaken'
    BY <1>1 DEF IInv, ObjectsAreSound, SkippedIsBounded, Holds, NoLogLeavesTheLineTaken
<1>4. OneInsideTheOther' /\ OneAtATime' /\ LineIsOwn' /\ MessageIsWhole' /\ PortStaysFree'
    BY <1>1 DEF IInv, OneInsideTheOther, OneAtATime, LineIsOwn, MessageIsWhole,
                PortStaysFree, Built, Without
<1>5. now \in Int /\ (now' = now \/ now' = now + 1)
    BY DEF Switch, SetCallback, TransmissionEnds, Tick, IInv, Typed
<1>6. TableIsTrue'
    <2> SUFFICES ASSUME Without({"nestedOnce"}) PROVE TableIsTrue'
        BY <1>1 DEF TableIsTrue, Without
    <2>1. /\ log[Main].place = NoPlace \/ log[Handler].place = NoPlace
          /\ \A d \in Context : KnowsItsPlace(d)
          /\ \A p \in Place : KnowsTheLast(p)
        BY DEF IInv, TableIsTrue
    <2>2. ASSUME NEW d \in Context PROVE KnowsItsPlace(d)'
        <3>1. log[d].time <= now' /\ KnowsItsPlace(d)
            <4>1. log[d].time \in Int /\ log[d].time <= now
                BY <2>1 DEF IInv, Typed, LogObject, KnowsItsPlace
            <4> QED BY <1>5, <2>1, <4>1
        <3> QED BY <1>1, <3>1 DEF KnowsItsPlace, Passing
    <2>3. ASSUME NEW p \in Place PROVE KnowsTheLast(p)'
        <3>1. onceSpecStorage[p].last <= now' /\ KnowsTheLast(p)
            <4>1. onceSpecStorage[p].last \in Int /\ onceSpecStorage[p].last <= now
                BY <2>1 DEF IInv, Typed, Entry, KnowsTheLast
            <4> QED BY <1>5, <2>1, <4>1
        <3> QED BY <1>1, <3>1 DEF KnowsTheLast, Passing
    <2> QED BY <1>1, <2>1, <2>2, <2>3 DEF TableIsTrue
<1> QED BY <1>2, <1>3, <1>4, <1>6 DEF IInv
-----------------------------------------------------------------------------
LEMMA NextIInv == IInv /\ [Next]_logVars => IInv'
<1> SUFFICES ASSUME IInv, [Next]_logVars PROVE IInv'
    OBVIOUS
<1>1. ASSUME NEW c \in Context, NEW console \in BOOLEAN, Begin(c, console) PROVE IInv'
    BY <1>1, BeginIInv
<1>2. ASSUME NEW c \in Context, PortAnswers(c) PROVE IInv'
    BY <1>2, PortAnswersIInv
<1>3. ASSUME NEW c \in Context, Take(c) PROVE IInv'
    BY <1>3, TakeIInv
<1>4. ASSUME NEW c \in Context, NEW length \in StringLength, PutString(c, length) PROVE IInv'
    BY <1>4, PutStringIInv
<1>5. ASSUME NEW c \in Context, PutInteger(c) \/ PutReal(c) PROVE IInv'
    BY <1>5, PutNumberIInv DEF PutInteger, PutReal
<1>6. ASSUME NEW c \in Context, NEW base \in {"Dec", "Hex"}, ChooseBase(c, base) PROVE IInv'
    BY <1>6, ChooseBaseIInv
<1>7. ASSUME NEW c \in Context, NEW precision \in {"three", "more"},
             ChoosePrecision(c, precision)
      PROVE  IInv'
    BY <1>7, ChoosePrecisionIInv
<1>8. ASSUME NEW c \in Context, NEW p \in Place, Once(c, p) PROVE IInv'
    BY <1>8, OnceIInv
<1>9. ASSUME NEW c \in Context, ReadTime(c) PROVE IInv'
    BY <1>9, ReadTimeIInv
<1>10. ASSUME NEW c \in Context, FindOnce(c) PROVE IInv'
    BY <1>10, FindOnceIInv
<1>11. ASSUME NEW c \in Context, StoreOnce(c) PROVE IInv'
    BY <1>11, StoreOnceIInv
<1>12. ASSUME NEW c \in Context, End(c) PROVE IInv'
    BY <1>12, EndIInv
<1>13. CASE Switch \/ SetCallback \/ TransmissionEnds \/ Tick
    BY <1>13, WorldIInv
<1>14. CASE UNCHANGED logVars
    BY <1>14 DEF logVars, statics, switches, world, IInv, Typed, ObjectsAreSound,
                 SkippedIsBounded, Holds, NoLogLeavesTheLineTaken, OneInsideTheOther,
                 LineIsOwn, OneAtATime, MessageIsWhole, PortStaysFree, TableIsTrue,
                 KnowsItsPlace, KnowsTheLast, Passing, Built, Without
<1> QED BY <1>1, <1>2, <1>3, <1>4, <1>5, <1>6, <1>7, <1>8, <1>9, <1>10, <1>11, <1>12,
           <1>13, <1>14 DEF Next

(* What holds of the logger in every state it can be in. *)
THEOREM Invariance == Spec => []IInv
BY InitIInv, NextIInv, PTL DEF Spec

(* The logger's state keeps its type: no object, whatever it is given and  *)
(* whoever interrupts it, counts or writes beyond the end of the line, and *)
(* no place of the source is said to hold back more than it was asked to.  *)
THEOREM TypeCorrect == Spec => []TypeOK
BY Invariance, TypedIsTypeOK, PTL DEF IInv

(* Without << Once, what a message will send is text of its own, whenever  *)
(* the interrupt handler logs its one message in it.                       *)
THEOREM TextIsOwn == Spec => []LineIsOwn
<1>1. IInv => LineIsOwn
    BY DEF IInv
<1> QED BY <1>1, Invariance, PTL

(* A message is cut at the end of the line and nowhere else, for every     *)
(* size of the line, as long as one message is built at a time, strings    *)
(* are shorter than StringModulus (longer ones lose what their length      *)
(* loses) and Log() is given no number without a base or precision (which  *)
(* may come out in another one); with overlapping messages the text of one *)
(* may be lost in the other.                                               *)
THEOREM NothingIsLeftOut == Spec => []MessageIsWhole
<1>1. IInv => MessageIsWhole
    BY DEF IInv
<1> QED BY <1>1, Invariance, PTL

(* The logger never locks itself out, even if tasks and interrupts use it  *)
(* as they like: a taken line belongs to an object that will release it.   *)
THEOREM NeverLockedOut == Spec => []NoLogLeavesTheLineTaken
<1>1. IInv => NoLogLeavesTheLineTaken
    BY DEF IInv
<1> QED BY <1>1, Invariance, PTL

(* The line is not written while the port sends from it: who writes it has *)
(* asked for the port, was answered that it is free, and nobody else sends.*)
THEOREM SentTextIsLeftAlone == Spec => LineLeftAlone
<1>1. IInv /\ [Next]_logVars =>
         [Without({"interrupt", "overlap", "once", "docPort"}) /\ ~portFree
             => line' = line]_logVars
    <2> SUFFICES ASSUME IInv, Next, ~portFree,
                        Without({"interrupt", "overlap", "once", "docPort"})
                 PROVE  line' = line
        OBVIOUS
    <2> USE DEF statics
    <2>1. \A c \in Context : log[c].stage # "answered" /\ ~Built(c)
        BY DEF IInv, PortStaysFree, Without
    <2>2. ASSUME NEW c \in Context, Take(c) PROVE FALSE
        BY <2>1, <2>2 DEF Take
    <2>3. ASSUME NEW c \in Context, NEW length \in StringLength, PutString(c, length) PROVE FALSE
        BY <2>1, <2>3 DEF PutString, Built
    <2>4. ASSUME NEW c \in Context, PutInteger(c) \/ PutReal(c) PROVE FALSE
        BY <2>1, <2>4 DEF PutInteger, PutReal, PutNumber, Built
    <2>5. ASSUME NEW c \in Context, End(c) PROVE line' = line
        BY <2>5 DEF End, EndPlain, EndPassed, EndHeld, IInv, ObjectsAreSound, OnceStages,
                    Without
    <2>6. ASSUME NEW c \in Context, ReadTime(c) \/ FindOnce(c) \/ StoreOnce(c)
          PROVE  line' = line
        BY <2>6 DEF ReadTime, FindOnce, StoreOnce
    <2>7. CASE Switch \/ SetCallback \/ TransmissionEnds \/ Tick
        BY <2>7 DEF Switch, SetCallback, TransmissionEnds, Tick
    <2>8. ASSUME NEW c \in Context,
                 \/ \E console \in BOOLEAN : Begin(c, console)
                 \/ PortAnswers(c)
                 \/ \E base \in {"Dec", "Hex"} : ChooseBase(c, base)
                 \/ \E precision \in {"three", "more"} : ChoosePrecision(c, precision)
                 \/ \E p \in Place : Once(c, p)
          PROVE  line' = line
        <3>1. CASE \E console \in BOOLEAN : Begin(c, console)
            BY <3>1 DEF Begin
        <3>2. CASE ~\E console \in BOOLEAN : Begin(c, console)
            BY <2>8, <3>2 DEF PortAnswers, ChooseBase, ChoosePrecision, Once
        <3> QED BY <3>1, <3>2
    <2> QED BY <2>2, <2>3, <2>4, <2>5, <2>6, <2>7, <2>8 DEF Next
<1> QED BY <1>1, Invariance, PTL DEF Spec, LineLeftAlone

(* The messages of one place of the source that are sent have read times   *)
(* at least its timeout apart, whatever is logged between the reading of   *)
(* the time, the look into the table, the storing and the sending, unless  *)
(* two messages with << Once are built at a time: the table knows when the *)
(* last one was sent, and the difference of the times does not wrap.       *)
THEOREM OnceIsKept == Spec => OnceKeepsDistance
<1>1. IInv /\ [Next]_logVars =>
         [Without({"nestedOnce"}) => \A p \in Place : KeepsDistance(p)]_logVars
    <2> SUFFICES ASSUME IInv, Next, Without({"nestedOnce"}), NEW p \in Place,
                        sentAt'[p] # sentAt[p], sentAt[p] # -1
                 PROVE  sentAt'[p] - sentAt[p] >= Timeout
        BY DEF KeepsDistance
    <2> USE DEF statics
    <2>1. PICK c \in Context : EndPassed(c)
        <3> SUFFICES ASSUME \A c \in Context : ~EndPassed(c) PROVE sentAt' = sentAt
            OBVIOUS
        <3>1. ASSUME NEW c \in Context,
                     \/ \E console \in BOOLEAN : Begin(c, console)
                     \/ PortAnswers(c) \/ Take(c)
              PROVE  sentAt' = sentAt
            <4>1. CASE \E console \in BOOLEAN : Begin(c, console)
                BY <4>1 DEF Begin
            <4>2. CASE PortAnswers(c) \/ Take(c)
                BY <4>2 DEF PortAnswers, Take
            <4> QED BY <3>1, <4>1, <4>2
        <3>2. ASSUME NEW c \in Context,
                     \/ \E length \in StringLength : PutString(c, length)
                     \/ PutInteger(c) \/ PutReal(c)
              PROVE  sentAt' = sentAt
            BY <3>2 DEF PutString, PutInteger, PutReal, PutNumber, Put
        <3>3. ASSUME NEW c \in Context,
                     \/ \E base \in {"Dec", "Hex"} : ChooseBase(c, base)
                     \/ \E precision \in {"three", "more"} : ChoosePrecision(c, precision)
                     \/ \E q \in Place : Once(c, q)
                     \/ ReadTime(c) \/ FindOnce(c) \/ StoreOnce(c)
              PROVE  sentAt' = sentAt
            BY <3>3 DEF ChooseBase, ChoosePrecision, Once, ReadTime, FindOnce, StoreOnce
        <3>4. ASSUME NEW c \in Context, End(c) PROVE sentAt' = sentAt
            BY <3>4 DEF End, EndPlain, EndHeld
        <3>5. CASE Switch \/ SetCallback \/ TransmissionEnds \/ Tick
            BY <3>5 DEF Switch, SetCallback, TransmissionEnds, Tick
        <3> QED BY <3>1, <3>2, <3>3, <3>4, <3>5 DEF Next
    <2>2. sentAt' = [sentAt EXCEPT ![log[c].place] = log[c].time] /\ Passing(c)
        BY <2>1 DEF EndPassed, Passing
    <2>3. log[c].place = p /\ sentAt'[p] = log[c].time
        BY <2>2 DEF IInv, Typed
    <2>4. KnowsItsPlace(c)
        BY DEF IInv, TableIsTrue
    <2> QED BY <2>2, <2>3, <2>4 DEF KnowsItsPlace
<1> QED BY <1>1, Invariance, PTL DEF Spec, OnceKeepsDistance
-----------------------------------------------------------------------------
(* The conversions.  The numerals are compared by induction over the       *)
(* natural numbers, written without an operator parameter.                 *)

(* A set that holds 0 and, with a number, the next one holds every number. *)
LEMMA EveryNatural ==
    ASSUME NEW T, 0 \in T, \A n \in Nat : n \in T => n + 1 \in T
    PROVE  Nat \subseteq T
<1> SUFFICES ASSUME ~(Nat \subseteq T) PROVE FALSE
    OBVIOUS
<1> DEFINE missed == Nat \ T
           R == OpToRel(<, Nat)
<1>1. \E x \in missed : TRUE
    OBVIOUS
<1>2. \A B \in SUBSET Nat : (\E x \in B : TRUE) => \E x \in B : \A y \in B : <<y, x>> \notin R
    <2>1. IsWellFoundedOn(R, Nat)
        BY NatLessThanWellFounded
    <2> HIDE DEF R
    <2> QED BY <2>1, WFMin
<1>3. PICK least \in missed : \A y \in missed : <<y, least>> \notin R
    <2>1. missed \in SUBSET Nat
        OBVIOUS
    <2> HIDE DEF missed, R
    <2> QED BY <1>1, <1>2, <2>1
<1>4. \A y \in missed : ~(y < least)
    BY <1>3 DEF OpToRel
<1>5. least # 0 /\ least - 1 \in Nat /\ least - 1 < least /\ (least - 1) + 1 = least
    OBVIOUS
<1>6. least - 1 \in T
    BY <1>4, <1>5
<1> QED BY <1>5, <1>6

-----------------------------------------------------------------------------
(* Powers.                                                                 *)
PowerStep(base, g, k) == IF k = 0 THEN 1 ELSE base * g[k - 1]

ArePowers(g, base, n) == g = [k \in 0 .. n |-> PowerStep(base, g, k)]

(* The powers up to one more.                                              *)
LEMMA PowersGrow ==
    ASSUME NEW base, NEW n \in Nat, NEW g, ArePowers(g, base, n)
    PROVE  ArePowers([k \in 0 .. n + 1 |-> IF k = n + 1 THEN base * g[n] ELSE g[k]], base, n + 1)
<1> DEFINE h == [k \in 0 .. n + 1 |-> IF k = n + 1 THEN base * g[n] ELSE g[k]]
<1>1. ASSUME NEW k \in 0 .. n PROVE g[k] = PowerStep(base, g, k)
    BY DEF ArePowers
<1>2. ASSUME NEW k \in 0 .. n + 1 PROVE h[k] = PowerStep(base, h, k)
    <2>1. CASE k = n + 1
        <3>1. k # 0 /\ k - 1 = n /\ k - 1 \in 0 .. n + 1 /\ k - 1 # n + 1
            BY <2>1
        <3> QED BY <2>1, <3>1 DEF PowerStep
    <2>2. CASE k # n + 1 /\ k # 0
        <3>1. k \in 0 .. n /\ k - 1 \in 0 .. n + 1 /\ k - 1 # n + 1
            BY <2>2
        <3>2. h[k] = g[k] /\ h[k - 1] = g[k - 1]
            BY <2>2, <3>1
        <3> HIDE DEF h
        <3> QED BY <1>1, <2>2, <3>1, <3>2 DEF PowerStep
    <2>3. CASE k = 0
        BY <1>1, <2>3 DEF PowerStep
    <2> QED BY <2>1, <2>2, <2>3
<1>3. h = [k \in 0 .. n + 1 |-> h[k]]
    OBVIOUS
<1> HIDE DEF h
<1>4. ArePowers(h, base, n + 1)
    BY <1>2, <1>3 DEF ArePowers
<1> QED BY <1>4 DEF h

(* There are the powers up to every exponent,                              *)
LEMMA PowersExist ==
    ASSUME NEW base
    PROVE  \A n \in Nat : \E g : ArePowers(g, base, n)
<1> DEFINE T == {n \in Nat : \E g : ArePowers(g, base, n)}
<1>1. 0 \in T
    <2> DEFINE g == [k \in 0 .. 0 |-> 1]
    <2>1. \A k \in 0 .. 0 : PowerStep(base, g, k) = 1
        BY DEF PowerStep
    <2>2. g = [k \in 0 .. 0 |-> PowerStep(base, g, k)]
        BY <2>1
    <2> HIDE DEF g
    <2>3. ArePowers(g, base, 0)
        BY <2>2 DEF ArePowers
    <2> QED BY <2>3
<1>2. ASSUME NEW n \in Nat, n \in T PROVE n + 1 \in T
    <2>1. PICK g : ArePowers(g, base, n)
        BY <1>2
    <2>2. \E h : ArePowers(h, base, n + 1)
        BY <2>1, PowersGrow
    <2> QED BY <2>2
<1>3. Nat \subseteq T
    <2> HIDE DEF T
    <2> QED BY <1>1, <1>2, EveryNatural
<1> QED BY <1>3

(* and no two tables of them differ.                                       *)
LEMMA PowersAreUnique ==
    ASSUME NEW base, NEW n \in Nat, NEW g, ArePowers(g, base, n), NEW m \in Nat,
           NEW h, ArePowers(h, base, m)
    PROVE  \A k \in Nat : k <= n /\ k <= m => g[k] = h[k]
<1> DEFINE T == {k \in Nat : k <= n /\ k <= m => g[k] = h[k]}
<1>0. /\ \A k \in 0 .. n : g[k] = PowerStep(base, g, k)
      /\ \A k \in 0 .. m : h[k] = PowerStep(base, h, k)
    BY DEF ArePowers
<1>1. 0 \in T
    BY <1>0 DEF PowerStep
<1>2. ASSUME NEW k \in Nat, k \in T PROVE k + 1 \in T
    <2>1. (k + 1) - 1 = k /\ k + 1 # 0
        OBVIOUS
    <2> SUFFICES ASSUME k + 1 <= n, k + 1 <= m PROVE g[k + 1] = h[k + 1]
        OBVIOUS
    <2>2. g[k] = h[k] /\ k + 1 \in 0 .. n /\ k + 1 \in 0 .. m
        BY <1>2
    <2> QED BY <1>0, <2>1, <2>2 DEF PowerStep
<1>3. Nat \subseteq T
    <2> HIDE DEF T
    <2> QED BY <1>1, <1>2, EveryNatural
<1> QED BY <1>3

(* Power is the entry of any such table.                                   *)
LEMMA PowerIs ==
    ASSUME NEW base, NEW n \in Nat, NEW g, ArePowers(g, base, n)
    PROVE  Power(base, n) = g[n]
<1> DEFINE p == CHOOSE h : ArePowers(h, base, n)
<1>1. Power(base, n) = p[n]
    BY DEF Power, ArePowers, PowerStep
<1>2. ArePowers(p, base, n)
    OBVIOUS
<1> HIDE DEF p
<1>3. p[n] = g[n]
    BY <1>2, PowersAreUnique
<1> QED BY <1>1, <1>3

(* The first power.                                                        *)
LEMMA PowerOfZero ==
    ASSUME NEW base
    PROVE  Power(base, 0) = 1
<1>1. PICK g : ArePowers(g, base, 0)
    BY PowersExist
<1>2. g[0] = PowerStep(base, g, 0)
    BY <1>1 DEF ArePowers
<1> QED BY <1>1, <1>2, PowerIs DEF PowerStep

(* Each power is the one before, times the base.                           *)
LEMMA PowerOfNext ==
    ASSUME NEW base, NEW n \in Nat
    PROVE  Power(base, n + 1) = base * Power(base, n)
<1>1. PICK g : ArePowers(g, base, n)
    BY PowersExist
<1> DEFINE h == [k \in 0 .. n + 1 |-> IF k = n + 1 THEN base * g[n] ELSE g[k]]
<1>2. ArePowers(h, base, n + 1) /\ h[n + 1] = base * g[n]
    BY <1>1, PowersGrow
<1> HIDE DEF h
<1>3. Power(base, n + 1) = h[n + 1]
    BY <1>2, PowerIs
<1>4. Power(base, n) = g[n]
    BY <1>1, PowerIs
<1> QED BY <1>2, <1>3, <1>4

(* A product is no smaller than its factor.                                *)
LEMMA TimesGrows ==
    ASSUME NEW a \in Nat, NEW b \in Nat, b >= 1
    PROVE  a <= b * a
OBVIOUS

(* A product grows with its factor.                                        *)
LEMMA TimesIsMonotone ==
    ASSUME NEW a \in Nat, NEW b \in Nat, NEW c \in Nat, a <= c
    PROVE  b * a <= b * c
OBVIOUS

(* A power of a positive number is positive.                               *)
LEMMA PowerIsPositive ==
    ASSUME NEW base \in Nat, base >= 1, NEW m \in Nat
    PROVE  Power(base, m) \in Nat \ {0}
<1> DEFINE T == {n \in Nat : Power(base, n) \in Nat \ {0}}
<1>1. 0 \in T
    BY PowerOfZero
<1>2. ASSUME NEW n \in Nat, n \in T PROVE n + 1 \in T
    <2> DEFINE p == Power(base, n)
    <2>1. p \in Nat /\ p >= 1 /\ Power(base, n + 1) = base * p
        BY <1>2, PowerOfNext
    <2> HIDE DEF p
    <2>2. base * p \in Nat /\ base * p >= 1
        BY <2>1
    <2> QED BY <2>1, <2>2
<1>3. Nat \subseteq T
    <2> HIDE DEF T
    <2> QED BY <1>1, <1>2, EveryNatural
<1> QED BY <1>3

(* A power grows with its exponent.                                        *)
LEMMA PowerIsMonotone ==
    ASSUME NEW base \in Nat, base >= 1, NEW k \in Nat, NEW n \in Nat, k <= n
    PROVE  Power(base, k) <= Power(base, n)
<1> DEFINE T == {m \in Nat : Power(base, k) <= Power(base, k + m)}
<1>1. 0 \in T
    BY PowerIsPositive
<1>2. ASSUME NEW m \in Nat, m \in T PROVE m + 1 \in T
    <2> DEFINE p == Power(base, k + m)
               q == Power(base, k)
    <2>1. p \in Nat /\ q \in Nat
        BY PowerIsPositive
    <2>2. k + (m + 1) = (k + m) + 1 /\ Power(base, (k + m) + 1) = base * p
        BY PowerOfNext
    <2>3. q <= p
        BY <1>2
    <2> HIDE DEF p, q
    <2>4. q <= base * p
        BY <2>1, <2>3
    <2> QED BY <2>2, <2>4 DEF q
<1>3. Nat \subseteq T
    <2> HIDE DEF T
    <2> QED BY <1>1, <1>2, EveryNatural
<1>4. n - k \in Nat /\ k + (n - k) = n
    OBVIOUS
<1>5. n - k \in T
    BY <1>3, <1>4
<1> QED BY <1>4, <1>5

(* It grows with its base.                                                 *)
LEMMA PowerOfLargerBase ==
    ASSUME NEW base \in Nat, base >= 2
    PROVE  \A n \in Nat : Power(2, n) <= Power(base, n)
<1> DEFINE T == {n \in Nat : Power(2, n) <= Power(base, n)}
<1>1. 0 \in T
    BY PowerOfZero
<1>2. ASSUME NEW n \in Nat, n \in T PROVE n + 1 \in T
    <2> DEFINE p == Power(base, n)
               q == Power(2, n)
    <2>1. p \in Nat /\ q \in Nat
        BY PowerIsPositive
    <2>2. Power(base, n + 1) = base * p /\ Power(2, n + 1) = 2 * q
        BY PowerOfNext
    <2>3. q <= p
        BY <1>2
    <2> HIDE DEF p, q
    <2>4. 2 * q <= base * p
        BY <2>1, <2>3
    <2> QED BY <2>2, <2>4
<1>3. Nat \subseteq T
    <2> HIDE DEF T
    <2> QED BY <1>1, <1>2, EveryNatural
<1> QED BY <1>3

(* A power is larger than its exponent.                                    *)
LEMMA PowerExceeds ==
    ASSUME NEW base \in Nat, base >= 2
    PROVE  \A n \in Nat : n < Power(base, n)
<1> DEFINE T == {n \in Nat : n < Power(base, n)}
<1>1. 0 \in T
    BY PowerOfZero
<1>2. ASSUME NEW n \in Nat, n \in T PROVE n + 1 \in T
    <2> DEFINE p == Power(base, n)
    <2>1. p \in Nat /\ Power(base, n + 1) = base * p /\ n < p
        BY <1>2, PowerOfNext, PowerIsPositive
    <2> HIDE DEF p
    <2>2. n + 1 < base * p
        BY <2>1
    <2> QED BY <2>1, <2>2
<1>3. Nat \subseteq T
    <2> HIDE DEF T
    <2> QED BY <1>1, <1>2, EveryNatural
<1> QED BY <1>3

-----------------------------------------------------------------------------
(* A number below a power has a number of digits up to its exponent,       *)
LEMMA DigitsAreFound ==
    ASSUME NEW base \in Nat, base >= 2, NEW v \in Nat, NEW most \in Nat, most >= 1,
           v < Power(base, most)
    PROVE  \E n \in 1 .. most : HasDigits(v, base, n)
<1> DEFINE T == {m \in Nat : v < Power(base, m + 1) => \E n \in 1 .. m + 1 : HasDigits(v, base, n)}
<1>1. 0 \in T
    BY DEF HasDigits
<1>2. ASSUME NEW m \in Nat, m \in T PROVE m + 1 \in T
    <2> SUFFICES ASSUME v < Power(base, (m + 1) + 1)
                 PROVE  \E n \in 1 .. (m + 1) + 1 : HasDigits(v, base, n)
        OBVIOUS
    <2>1. CASE v < Power(base, m + 1)
        <3>1. PICK n \in 1 .. m + 1 : HasDigits(v, base, n)
            BY <1>2, <2>1
        <3> QED BY <3>1
    <2>2. CASE ~(v < Power(base, m + 1))
        <3>1. ((m + 1) + 1) - 1 = m + 1 /\ Power(base, m + 1) \in Nat
            BY PowerIsPositive
        <3>2. HasDigits(v, base, (m + 1) + 1)
            BY <2>2, <3>1 DEF HasDigits
        <3> QED BY <3>2
    <2> QED BY <2>1, <2>2
<1>3. Nat \subseteq T
    <2> HIDE DEF T
    <2> QED BY <1>1, <1>2, EveryNatural
<1>4. most - 1 \in Nat /\ (most - 1) + 1 = most
    OBVIOUS
<1>5. most - 1 \in T
    BY <1>3, <1>4
<1> QED BY <1>4, <1>5

(* no two numbers of digits,                                               *)
LEMMA DigitsAreFewer ==
    ASSUME NEW base \in Nat, base >= 2, NEW v \in Nat,
           NEW n \in Nat, n >= 1, HasDigits(v, base, n), NEW m \in Nat, m >= 1, v < Power(base, m)
    PROVE  n <= m
<1> SUFFICES ASSUME n > m PROVE FALSE
    OBVIOUS
<1>1. n # 1 /\ n - 1 \in Nat /\ m <= n - 1
    OBVIOUS
<1>2. Power(base, n - 1) <= v
    BY <1>1 DEF HasDigits
<1>3. Power(base, m) <= Power(base, n - 1)
    BY <1>1, PowerIsMonotone
<1>4. Power(base, m) \in Nat /\ Power(base, n - 1) \in Nat
    BY <1>1, PowerIsPositive
<1>5. v < Power(base, m)
    OBVIOUS
<1> QED BY <1>2, <1>3, <1>4, <1>5

(* so exactly one.                                                         *)
LEMMA DigitsAreCounted ==
    ASSUME NEW base \in Nat, base >= 2, NEW v \in Nat,
           NEW n \in Nat, n >= 1, HasDigits(v, base, n),
           NEW m \in Nat, m >= 1, HasDigits(v, base, m)
    PROVE  n = m
<1>1. n <= m /\ m <= n
    BY DigitsAreFewer DEF HasDigits
<1> QED BY <1>1

(* A number has one digit if the base goes into it not once,               *)
LEMMA OneDigit ==
    ASSUME NEW base \in Nat, base >= 2, NEW v \in Nat,
           NEW n \in Nat, n >= 1, HasDigits(v, base, n), v < base
    PROVE  n = 1
<1>1. Power(base, 0 + 1) = base * Power(base, 0) /\ Power(base, 0) = 1 /\ 0 + 1 = 1
    BY PowerOfNext, PowerOfZero
<1>2. v < Power(base, 1)
    BY <1>1
<1>3. n <= 1
    BY <1>2, DigitsAreFewer
<1> QED BY <1>3

(* and otherwise one more than its quotient by the base.                   *)
LEMMA MoreDigits ==
    ASSUME NEW base \in Nat, base >= 2, NEW v \in Nat,
           NEW n \in Nat, n >= 1, HasDigits(v, base, n), v >= base
    PROVE  n >= 2 /\ HasDigits(v \div base, base, n - 1)
<1>1. Power(base, 0 + 1) = base * Power(base, 0) /\ Power(base, 0) = 1 /\ 0 + 1 = 1
    BY PowerOfNext, PowerOfZero
<1>2. n >= 2
    <2> SUFFICES ASSUME n = 1 PROVE FALSE
        OBVIOUS
    <2> QED BY <1>1 DEF HasDigits
<1> DEFINE p == Power(base, n - 1)
           q == Power(base, n - 2)
           w == v \div base
<1>3. /\ n - 1 \in Nat /\ n - 2 \in Nat /\ (n - 1) + 1 = n /\ (n - 2) + 1 = n - 1 /\ (n - 1) - 1 = n - 2
      /\ n # 1
    BY <1>2
<1>4. Power(base, n) = base * p /\ p \in Nat /\ p = base * q /\ q \in Nat
    <2>1. Power(base, (n - 1) + 1) = base * p
        BY <1>3, PowerOfNext
    <2>2. Power(base, (n - 2) + 1) = base * q
        BY <1>3, PowerOfNext
    <2>3. p \in Nat /\ q \in Nat
        BY <1>3, PowerIsPositive
    <2> HIDE DEF p, q
    <2> QED BY <1>3, <2>1, <2>2, <2>3 DEF p
<1>5. v < base * p /\ p <= v
    BY <1>3, <1>4 DEF HasDigits
<1>6. w \in Nat /\ base * w <= v /\ v < base * (w + 1)
    <2>1. v = base * w + (v % base) /\ v % base \in 0 .. base - 1 /\ w \in Nat
        OBVIOUS
    <2> HIDE DEF w
    <2> QED BY <2>1
<1> HIDE DEF p, q, w
<1>7. w < p
    <2> SUFFICES ASSUME w >= p PROVE FALSE
        BY <1>4, <1>6
    <2>1. base * w >= base * p
        BY <1>4, <1>6
    <2> QED BY <1>4, <1>5, <1>6, <2>1
<1>8. q <= w
    <2> SUFFICES ASSUME w + 1 <= q PROVE FALSE
        BY <1>4, <1>6
    <2>1. base * (w + 1) <= base * q
        BY <1>4, <1>6
    <2> QED BY <1>4, <1>5, <1>6, <2>1
<1>9. HasDigits(w, base, n - 1)
    BY <1>3, <1>7, <1>8 DEF HasDigits, p, q
<1> QED BY <1>2, <1>9 DEF w

-----------------------------------------------------------------------------
(* Two divisions are one by the product.                                   *)
LEMMA QuotientOfProduct ==
    ASSUME NEW v \in Nat, NEW a \in Nat, a >= 1, NEW b \in Nat, b >= 1
    PROVE  v \div (a * b) = (v \div a) \div b
OBVIOUS

(* The digits of a number in a base are below the base.                    *)
LEMMA DigitsTyped ==
    ASSUME NEW base \in Nat, base >= 2, NEW v \in Nat, NEW n \in Nat
    PROVE  /\ DigitsOf(v, base, n) \in Seq(0 .. base - 1)
           /\ Len(DigitsOf(v, base, n)) = n
           /\ \A i \in 1 .. n : DigitsOf(v, base, n)[i] = (v \div Power(base, n - i)) % base
<1>1. ASSUME NEW i \in 1 .. n PROVE (v \div Power(base, n - i)) % base \in 0 .. base - 1
    <2>1. n - i \in Nat
        OBVIOUS
    <2> DEFINE p == Power(base, n - i)
    <2>2. p \in Nat /\ p >= 1
        BY <2>1, PowerIsPositive
    <2> HIDE DEF p
    <2>3. v \div p \in Nat
        BY <2>2
    <2>4. (v \div p) % base \in 0 .. base - 1
        BY <2>3
    <2> QED BY <2>4 DEF p
<1> DEFINE d == DigitsOf(v, base, n)
<1>2. d = [i \in 1 .. n |-> (v \div Power(base, n - i)) % base]
    BY DEF DigitsOf
<1> HIDE DEF d
<1>3. d \in [1 .. n -> 0 .. base - 1]
    BY <1>1, <1>2
<1>4. d \in Seq(0 .. base - 1) /\ Len(d) = n
    BY <1>3
<1> QED BY <1>2, <1>4 DEF d

(* The last digit is the remainder, the others are those of the quotient.  *)
LEMMA LastDigit ==
    ASSUME NEW base \in Nat, base >= 2, NEW v \in Nat, NEW n \in Nat
    PROVE  DigitsOf(v, base, n + 1) = Append(DigitsOf(v \div base, base, n), v % base)
<1> DEFINE w == v \div base
           a == DigitsOf(v, base, n + 1)
           b == DigitsOf(w, base, n)
           c == Append(b, v % base)
<1>1. w \in Nat /\ v % base \in 0 .. base - 1
    OBVIOUS
<1>2. /\ a \in Seq(0 .. base - 1) /\ Len(a) = n + 1
      /\ \A i \in 1 .. n + 1 : a[i] = (v \div Power(base, (n + 1) - i)) % base
    BY DigitsTyped
<1>3. /\ b \in Seq(0 .. base - 1) /\ Len(b) = n
      /\ \A i \in 1 .. n : b[i] = (w \div Power(base, n - i)) % base
    BY <1>1, DigitsTyped
<1>4. ASSUME NEW i \in 1 .. n PROVE v \div Power(base, (n + 1) - i) = w \div Power(base, n - i)
    <2>1. n - i \in Nat /\ (n + 1) - i = (n - i) + 1
        OBVIOUS
    <2> DEFINE p == Power(base, n - i)
    <2>2. p \in Nat /\ p >= 1 /\ Power(base, (n + 1) - i) = base * p
        BY <2>1, PowerIsPositive, PowerOfNext
    <2> HIDE DEF p
    <2>3. base >= 1
        OBVIOUS
    <2>4. v \div (base * p) = (v \div base) \div p
        BY <2>2, <2>3, QuotientOfProduct
    <2> QED BY <2>2, <2>4 DEF p
<1>5. v \div Power(base, (n + 1) - (n + 1)) = v
    <2>1. (n + 1) - (n + 1) = 0
        OBVIOUS
    <2> QED BY <2>1, PowerOfZero
<1> HIDE DEF a, b, w
<1>6. c \in Seq(0 .. base - 1) /\ Len(c) = n + 1 /\ c[n + 1] = v % base /\ \A i \in 1 .. n : c[i] = b[i]
    BY <1>1, <1>3
<1> HIDE DEF c
<1>7. ASSUME NEW i \in 1 .. n + 1 PROVE a[i] = c[i]
    <2>1. CASE i = n + 1
        BY <1>2, <1>5, <1>6, <2>1
    <2>2. CASE i # n + 1
        <3>1. i \in 1 .. n
            BY <2>2
        <3> QED BY <1>2, <1>3, <1>4, <1>6, <3>1
    <2> QED BY <2>1, <2>2
<1>8. a = c
    BY <1>2, <1>6, <1>7, SeqEqual
<1> QED BY <1>8 DEF a, b, c, w

Zeros(n) == [i \in 1 .. n |-> 0]

LedByZeros(v, base, n, most) ==
    DigitsOf(v, base, most) = Zeros(most - n) \o DigitsOf(v, base, n)

(* More digits than a number has begin with zeros.                         *)
LEMMA LeadingZeros ==
    ASSUME NEW base \in Nat, base >= 2, NEW v \in Nat,
           NEW n \in Nat, v < Power(base, n), NEW most \in Nat, n <= most
    PROVE  LedByZeros(v, base, n, most)
<1> DEFINE a == DigitsOf(v, base, most)
           b == DigitsOf(v, base, n)
           z == Zeros(most - n)
           c == z \o b
<1>0. most - n \in Nat /\ 0 \in 0 .. base - 1
    OBVIOUS
<1>1. /\ a \in Seq(0 .. base - 1) /\ Len(a) = most
      /\ \A i \in 1 .. most : a[i] = (v \div Power(base, most - i)) % base
    BY DigitsTyped
<1>2. /\ b \in Seq(0 .. base - 1) /\ Len(b) = n
      /\ \A i \in 1 .. n : b[i] = (v \div Power(base, n - i)) % base
    BY DigitsTyped
<1>3. z \in Seq(0 .. base - 1) /\ Len(z) = most - n /\ \A i \in 1 .. most - n : z[i] = 0
    <2> DEFINE d == most - n
    <2> HIDE DEF d
    <2>1. d \in Nat
        BY <1>0 DEF d
    <2>2. /\ Zeros(d) \in Seq(0 .. base - 1) /\ Len(Zeros(d)) = d
          /\ \A i \in 1 .. d : Zeros(d)[i] = 0
        BY <1>0, <2>1 DEF Zeros
    <2> QED BY <2>2 DEF d
<1> HIDE DEF a, b, z
<1>4. c \in Seq(0 .. base - 1) /\ Len(c) = Len(z) + Len(b)
    BY <1>2, <1>3, ConcatProperties
<1>5. \A i \in 1 .. Len(z) + Len(b) : c[i] = IF i <= Len(z) THEN z[i] ELSE b[i - Len(z)]
    BY <1>2, <1>3, ConcatProperties, Zenon
<1> HIDE DEF c
<1>6. ASSUME NEW i \in 1 .. most PROVE a[i] = c[i]
    <2>0. i \in 1 .. Len(z) + Len(b) /\ i \in Int
        BY <1>2, <1>3
    <2>1. CASE i <= most - n
        <3>1. c[i] = 0
            <4>1. i <= Len(z) /\ i \in 1 .. most - n
                BY <1>3, <2>0, <2>1
            <4> QED BY <1>3, <1>5, <2>0, <4>1
        <3>2. most - i \in Nat /\ n <= most - i
            BY <2>0, <2>1
        <3> DEFINE p == Power(base, most - i)
                   q == Power(base, n)
        <3>3. q <= p
            BY <3>2, PowerIsMonotone
        <3>4. p \in Nat \ {0} /\ q \in Nat \ {0}
            BY <3>2, PowerIsPositive
        <3>5. v < q
            OBVIOUS
        <3> HIDE DEF p, q
        <3>6. v \div p = 0
            BY <3>3, <3>4, <3>5
        <3>7. 0 % base = 0
            OBVIOUS
        <3> QED BY <1>1, <3>1, <3>6, <3>7 DEF p
    <2>2. CASE ~(i <= most - n)
        <3>1. /\ ~(i <= Len(z)) /\ i - Len(z) = i - (most - n)
              /\ i - (most - n) \in 1 .. n /\ n - (i - (most - n)) = most - i
            BY <1>3, <2>0, <2>2
        <3>2. c[i] = b[i - (most - n)]
            BY <1>5, <2>0, <3>1
        <3> QED BY <1>1, <1>2, <3>1, <3>2
    <2> QED BY <2>1, <2>2
<1>7. Len(c) = most
    BY <1>0, <1>2, <1>3, <1>4
<1>8. a = c
    BY <1>1, <1>4, <1>6, <1>7, SeqEqual
<1> QED BY <1>8 DEF LedByZeros, a, b, z, c

-----------------------------------------------------------------------------
(* The generation cycle yields the digits.                                 *)
CountOf(v, base) == CHOOSE n \in Nat : n >= 1 /\ HasDigits(v, base, n)

TextStep(base, g, v) == Append(IF v \div base = 0 THEN << >> ELSE g[v \div base], v % base)

AreTexts(g, base, var) == g = [v \in 0 .. var |-> TextStep(base, g, v)]

Numerals(base, var) == [v \in 0 .. var |-> DigitsOf(v, base, CountOf(v, base))]

(* The number of digits is found.                                          *)
LEMMA CountIsRight ==
    ASSUME NEW base \in Nat, base >= 2, NEW v \in Nat
    PROVE  CountOf(v, base) \in Nat /\ CountOf(v, base) >= 1 /\ HasDigits(v, base, CountOf(v, base))
<1>1. v + 1 \in Nat /\ v + 1 >= 1 /\ v < Power(base, v + 1)
    <2>1. v + 1 < Power(base, v + 1)
        BY PowerExceeds
    <2>2. Power(base, v + 1) \in Nat
        BY PowerIsPositive
    <2> QED BY <2>1, <2>2
<1>2. \E n \in 1 .. v + 1 : HasDigits(v, base, n)
    BY <1>1, DigitsAreFound
<1>3. \E n \in Nat : n >= 1 /\ HasDigits(v, base, n)
    BY <1>2
<1> QED BY <1>3 DEF CountOf

(* No digits are the empty text.                                           *)
LEMMA NoDigits ==
    ASSUME NEW base \in Nat, base >= 2, NEW v \in Nat
    PROVE  DigitsOf(v, base, 0) = << >>
<1>1. DigitsOf(v, base, 0) \in Seq(0 .. base - 1) /\ Len(DigitsOf(v, base, 0)) = 0
    BY DigitsTyped
<1> QED BY <1>1, EmptySeq

(* The digits of a number are those of its quotient and its remainder.     *)
LEMMA NumeralGrows ==
    ASSUME NEW base \in Nat, base >= 2, NEW v \in Nat
    PROVE  DigitsOf(v, base, CountOf(v, base)) =
               Append(IF v \div base = 0 THEN << >>
                      ELSE DigitsOf(v \div base, base, CountOf(v \div base, base)), v % base)
<1> DEFINE n == CountOf(v, base)
           w == v \div base
<1>0. n \in Nat /\ n >= 1 /\ HasDigits(v, base, n) /\ w \in Nat /\ n - 1 \in Nat /\ (n - 1) + 1 = n
    BY CountIsRight
<1> HIDE DEF n
<1>1. DigitsOf(v, base, (n - 1) + 1) = Append(DigitsOf(w, base, n - 1), v % base)
    BY <1>0, LastDigit
<1>2. CASE w = 0
    <2>1. v < base
        BY <1>2
    <2>2. n = 1
        BY <1>0, <2>1, OneDigit
    <2>3. n - 1 = 0
        BY <2>2
    <2>4. DigitsOf(w, base, 0) = << >>
        BY <1>0, NoDigits
    <2> QED BY <1>0, <1>1, <1>2, <2>3, <2>4 DEF n
<1>3. CASE w # 0
    <2>1. v >= base
        BY <1>3
    <2>2. n >= 2 /\ HasDigits(w, base, n - 1)
        BY <1>0, <2>1, MoreDigits
    <2>3. CountOf(w, base) \in Nat /\ CountOf(w, base) >= 1 /\ HasDigits(w, base, CountOf(w, base))
        BY <1>0, CountIsRight
    <2> DEFINE m == CountOf(w, base)
    <2> HIDE DEF m, w
    <2>4. n - 1 \in Nat /\ n - 1 >= 1
        BY <1>0, <2>2
    <2>5. m = n - 1
        BY <1>0, <2>2, <2>3, <2>4, DigitsAreCounted DEF m
    <2> QED BY <1>0, <1>1, <1>3, <2>5 DEF n, m, w
<1> QED BY <1>2, <1>3

(* A quotient is smaller than the number, until it is 0.                   *)
LEMMA SmallerQuotient ==
    ASSUME NEW base \in Nat, base >= 2, NEW v \in Nat
    PROVE  /\ v \div base \in Nat /\ v \div base <= v
           /\ v \div base # 0 => v \div base < v
OBVIOUS

(* The digits satisfy the equation of the generation cycle,                *)
LEMMA NumeralsAreTexts ==
    ASSUME NEW base \in Nat, base >= 2, NEW var \in Nat
    PROVE  AreTexts(Numerals(base, var), base, var)
<1> DEFINE g == Numerals(base, var)
<1>1. ASSUME NEW v \in 0 .. var
      PROVE  DigitsOf(v, base, CountOf(v, base)) = TextStep(base, g, v)
    <2>1. v \in Nat /\ v \div base \in 0 .. var
        <3>1. v \in Nat
            OBVIOUS
        <3> QED BY <3>1, SmallerQuotient
    <2>2. g[v \div base] = DigitsOf(v \div base, base, CountOf(v \div base, base))
        BY <2>1 DEF Numerals
    <2> HIDE DEF g
    <2> QED BY <2>1, <2>2, NumeralGrows DEF TextStep
<1>2. g = [v \in 0 .. var |-> DigitsOf(v, base, CountOf(v, base))]
    BY DEF Numerals
<1> HIDE DEF g
<1>3. g = [v \in 0 .. var |-> TextStep(base, g, v)]
    BY <1>1, <1>2
<1> QED BY <1>3 DEF AreTexts, g

(* and nothing else does.                                                  *)
LEMMA TextsAreNumerals ==
    ASSUME NEW base \in Nat, base >= 2, NEW var \in Nat, NEW g, AreTexts(g, base, var)
    PROVE  \A v \in 0 .. var : g[v] = DigitsOf(v, base, CountOf(v, base))
<1> DEFINE Right(v) == g[v] = DigitsOf(v, base, CountOf(v, base))
           T == {k \in Nat : \A v \in 0 .. var : v <= k => Right(v)}
<1>1. ASSUME NEW v \in 0 .. var, v \div base # 0 => Right(v \div base) PROVE Right(v)
    <2>1. g[v] = TextStep(base, g, v)
        BY DEF AreTexts
    <2>2. v \in Nat
        OBVIOUS
    <2> QED BY <1>1, <2>1, <2>2, NumeralGrows DEF TextStep
<1>2. 0 \in T
    <2>1. ASSUME NEW v \in 0 .. var, v <= 0 PROVE Right(v)
        <3>1. v \in Nat /\ v = 0 /\ v \div base = 0
            BY <2>1
        <3> HIDE DEF Right
        <3> QED BY <1>1, <3>1
    <2> QED BY <2>1
<1>3. ASSUME NEW k \in Nat, k \in T PROVE k + 1 \in T
    <2>1. ASSUME NEW v \in 0 .. var, v <= k + 1 PROVE Right(v)
        <3>1. v \in Nat
            OBVIOUS
        <3>2. v \div base \in Nat /\ v \div base <= v /\ (v \div base # 0 => v \div base < v)
            BY <3>1, SmallerQuotient
        <3> DEFINE w == v \div base
        <3>3. w \in 0 .. var /\ (w # 0 => w <= k)
            BY <2>1, <3>2
        <3> HIDE DEF Right, w
        <3>4. w # 0 => Right(w)
            BY <1>3, <3>3
        <3> QED BY <1>1, <3>4 DEF w
    <2> HIDE DEF Right
    <2> QED BY <2>1
<1>4. Nat \subseteq T
    <2> HIDE DEF T
    <2> QED BY <1>2, <1>3, EveryNatural
<1>5. var \in T
    BY <1>4
<1> HIDE DEF Right
<1>6. \A v \in 0 .. var : Right(v)
    BY <1>5
<1> QED BY <1>6 DEF Right

(* What the generation cycle makes of a number is its digits.              *)
LEMMA GeneratedIsTheNumeral ==
    ASSUME NEW base \in Nat, base >= 2, NEW v \in Nat,
           NEW n \in Nat, n >= 1, HasDigits(v, base, n)
    PROVE  Generated(v, base) = DigitsOf(v, base, n)
<1> DEFINE g == CHOOSE h : AreTexts(h, base, v)
<1>1. Generated(v, base) = g[v]
    BY DEF Generated, AreTexts, TextStep
<1>2. AreTexts(g, base, v)
    BY NumeralsAreTexts
<1> HIDE DEF g
<1>3. g[v] = DigitsOf(v, base, CountOf(v, base))
    BY <1>2, TextsAreNumerals
<1>4. CountOf(v, base) = n
    BY CountIsRight, DigitsAreCounted
<1> QED BY <1>1, <1>3, <1>4

(* So is the text that is asked for.                                       *)
LEMMA NumeralIsFound ==
    ASSUME NEW base \in Nat, base >= 2, NEW v \in Nat, v < Power(2, Width)
    PROVE  \E n \in 1 .. Width : HasDigits(v, base, n) /\ NumeralOf(v, base) = DigitsOf(v, base, n)
<1>0. Width \in Nat /\ Width >= 1
    BY WidthAssumption
<1>1. v < Power(base, Width)
    <2>1. Power(2, Width) <= Power(base, Width)
        BY <1>0, PowerOfLargerBase
    <2>2. Power(2, Width) \in Nat
        BY <1>0, PowerIsPositive
    <2>3. Power(base, Width) \in Nat
        BY <1>0, PowerIsPositive
    <2> QED BY <2>1, <2>2, <2>3
<1>2. \E n \in 1 .. Width : HasDigits(v, base, n)
    BY <1>0, <1>1, DigitsAreFound
<1> QED BY <1>2 DEF NumeralOf

-----------------------------------------------------------------------------
(* Texts and the memory they are stored in.                                *)
Text == Seq(Int)

Block == [Memory -> Int]

Ending(terminator) == IF terminator THEN <<Nul>> ELSE << >>

(* w is the text a and behind it b.                                        *)
Joins(w, a, b) ==
    /\ w \in Text /\ Len(w) = Len(a) + Len(b)
    /\ \A i \in 1 .. Len(a) : w[i] = a[i]
    /\ \A i \in 1 .. Len(b) : w[Len(a) + i] = b[i]

(* A text behind another.                                                  *)
LEMMA ConcatJoins ==
    ASSUME NEW a \in Text, NEW b \in Text
    PROVE  Joins(a \o b, a, b)
<1> DEFINE w == a \o b
<1>1. w \in Text /\ Len(w) = Len(a) + Len(b)
    BY ConcatProperties DEF Text
<1>2. \A i \in 1 .. Len(a) + Len(b) : w[i] = IF i <= Len(a) THEN a[i] ELSE b[i - Len(a)]
    BY ConcatProperties, Zenon DEF Text
<1>3. Len(a) \in Nat /\ Len(b) \in Nat
    BY DEF Text
<1> HIDE DEF w
<1>4. ASSUME NEW i \in 1 .. Len(a) PROVE w[i] = a[i]
    <2>1. i \in 1 .. Len(a) + Len(b) /\ i <= Len(a)
        BY <1>3
    <2> QED BY <1>2, <2>1
<1>5. ASSUME NEW i \in 1 .. Len(b) PROVE w[Len(a) + i] = b[i]
    <2>1. /\ Len(a) + i \in 1 .. Len(a) + Len(b) /\ ~(Len(a) + i <= Len(a))
          /\ (Len(a) + i) - Len(a) = i
        BY <1>3
    <2> QED BY <1>2, <2>1
<1>6. Joins(w, a, b)
    BY <1>1, <1>4, <1>5 DEF Joins
<1> QED BY <1>6 DEF w

(* It does not matter which two of three texts are joined first.           *)
LEMMA ConcatInThree ==
    ASSUME NEW a \in Text, NEW b \in Text, NEW c \in Text
    PROVE  a \o (b \o c) = (a \o b) \o c
<1> DEFINE A == Int
<1>1. a \in Seq(A) /\ b \in Seq(A) /\ c \in Seq(A)
    BY DEF Text
<1> HIDE DEF A
<1> QED BY <1>1, ConcatAssociative

(* The empty text.                                                         *)
LEMMA EmptyText == << >> \in Text /\ Len(<< >>) = 0
BY DEF Text

(* A text of one character.                                                *)
LEMMA SingleTyped ==
    ASSUME NEW x \in Int
    PROVE  <<x>> \in Text /\ Len(<<x>>) = 1 /\ <<x>>[1] = x
BY DEF Text

(* The terminator as a text.                                               *)
LEMMA EndTyped ==
    ASSUME NEW terminator \in BOOLEAN
    PROVE  /\ Ending(terminator) \in Text /\ Len(Ending(terminator)) = Terminators(terminator)
           /\ Terminators(terminator) \in 0 .. 1
BY DEF Ending, Text, Terminators, Nul

(* Nothing before or behind a text leaves it as it is.                     *)
LEMMA ConcatEmpty ==
    ASSUME NEW a \in Text
    PROVE  a \o << >> = a /\ << >> \o a = a
BY ConcatEmptySeq DEF Text

(* The cells of a memory in which a text was stored.                       *)
IsStored(block, memory, at, text) ==
    /\ block \in Block
    /\ \A i \in Memory : i \in at .. at + Len(text) - 1 => block[i] = text[i - at + 1]
    /\ \A i \in Memory : i \notin at .. at + Len(text) - 1 => block[i] = memory[i]

(* The places of the memory are natural numbers.                           *)
LEMMA MemoryIsNumbers == Memory \subseteq Nat
BY WidthAssumption, MaxLenAssumption DEF Memory

(* A text is stored where it is put, and nothing else is changed.          *)
LEMMA StoredIs ==
    ASSUME NEW memory \in Block, NEW at \in Nat, NEW text \in Text
    PROVE  IsStored(Stored(memory, at, text), memory, at, text)
<1> DEFINE b == Stored(memory, at, text)
<1>0. Memory \subseteq Nat /\ Len(text) \in Nat
    BY MemoryIsNumbers DEF Text
<1>1. DOMAIN memory = Memory
    BY DEF Block
<1>2. b = [i \in Memory |-> IF i \in at .. at + Len(text) - 1 THEN text[i - at + 1] ELSE memory[i]]
    BY <1>1 DEF Stored
<1>3. ASSUME NEW i \in Memory, i \in at .. at + Len(text) - 1 PROVE text[i - at + 1] \in Int
    <2>1. i - at + 1 \in 1 .. Len(text)
        BY <1>0, <1>3
    <2> QED BY <2>1 DEF Text
<1>4. ASSUME NEW i \in Memory PROVE memory[i] \in Int
    BY DEF Block
<1> HIDE DEF b
<1>5. b \in [Memory -> Int]
    BY <1>2, <1>3, <1>4
<1>6. IsStored(b, memory, at, text)
    BY <1>2, <1>5 DEF IsStored, Block
<1> QED BY <1>6 DEF b

(* Memories with the same cells are the same.                              *)
LEMMA BlockEqual ==
    ASSUME NEW a \in Block, NEW b \in Block, \A i \in Memory : a[i] = b[i]
    PROVE  a = b
BY DEF Block

(* A memory in which nothing was written.                                  *)
LEMMA BlankTyped == Blank \in Block /\ \A i \in Memory : Blank[i] = Untouched
BY DEF Blank, Block, Untouched

(* Storing the empty text changes nothing.                                 *)
LEMMA NothingStored ==
    ASSUME NEW memory \in Block, NEW at \in Nat
    PROVE  Stored(memory, at, << >>) = memory
<1> DEFINE b == Stored(memory, at, << >>)
<1>1. IsStored(b, memory, at, << >>) /\ at .. at + Len(<< >>) - 1 = {}
    BY StoredIs, EmptyText
<1> HIDE DEF b
<1>2. b \in Block /\ \A i \in Memory : b[i] = memory[i]
    BY <1>1 DEF IsStored
<1>3. b = memory
    BY <1>2, BlockEqual
<1> QED BY <1>3 DEF b

(* Two texts stored one behind the other are stored as one.                *)
LEMMA StoredOneBehindTheOther ==
    ASSUME NEW memory \in Block, NEW at \in Nat, NEW a \in Text, NEW b \in Text
    PROVE  Stored(Stored(memory, at, a), at + Len(a), b) = Stored(memory, at, a \o b)
<1> DEFINE w == a \o b
           first == Stored(memory, at, a)
           second == Stored(first, at + Len(a), b)
           once == Stored(memory, at, w)
<1>0. Len(a) \in Nat /\ Len(b) \in Nat /\ at + Len(a) \in Nat /\ Memory \subseteq Nat
    BY MemoryIsNumbers DEF Text
<1>1. Joins(w, a, b) /\ w \in Text
    BY ConcatJoins DEF Joins
<1>2. IsStored(first, memory, at, a)
    BY StoredIs
<1>3. IsStored(second, first, at + Len(a), b)
    <2>1. first \in Block
        BY <1>2 DEF IsStored
    <2> HIDE DEF first
    <2> QED BY <1>0, <2>1, StoredIs
<1>4. IsStored(once, memory, at, w)
    <2> HIDE DEF w
    <2> QED BY <1>1, StoredIs
<1> HIDE DEF w, first, second, once
<1>5. ASSUME NEW i \in Memory PROVE second[i] = once[i]
    <2>0. i \in Nat /\ Len(w) = Len(a) + Len(b)
        BY <1>0, <1>1 DEF Joins
    <2>1. CASE i < at
        <3>1. /\ i \notin at .. at + Len(a) - 1 /\ i \notin at + Len(a) .. at + Len(a) + Len(b) - 1
              /\ i \notin at .. at + Len(w) - 1
            BY <1>0, <2>0, <2>1
        <3> QED BY <1>2, <1>3, <1>4, <3>1 DEF IsStored
    <2>2. CASE at <= i /\ i < at + Len(a)
        <3>1. /\ i \in at .. at + Len(a) - 1 /\ i \notin at + Len(a) .. at + Len(a) + Len(b) - 1
              /\ i \in at .. at + Len(w) - 1 /\ i - at + 1 \in 1 .. Len(a)
            BY <1>0, <2>0, <2>2
        <3>2. w[i - at + 1] = a[i - at + 1]
            BY <1>1, <3>1 DEF Joins
        <3> QED BY <1>2, <1>3, <1>4, <3>1, <3>2 DEF IsStored
    <2>3. CASE at + Len(a) <= i /\ i < at + Len(a) + Len(b)
        <3> DEFINE k == i - (at + Len(a)) + 1
        <3>1. /\ i \in at + Len(a) .. at + Len(a) + Len(b) - 1
              /\ i \in at .. at + Len(w) - 1 /\ k \in 1 .. Len(b) /\ i - at + 1 = Len(a) + k
            BY <1>0, <2>0, <2>3
        <3>2. w[Len(a) + k] = b[k]
            BY <1>1, <3>1 DEF Joins
        <3>3. second[i] = b[k]
            BY <1>3, <3>1 DEF IsStored
        <3>4. once[i] = w[i - at + 1]
            BY <1>4, <3>1 DEF IsStored
        <3> QED BY <3>1, <3>2, <3>3, <3>4
    <2>4. CASE at + Len(a) + Len(b) <= i
        <3>1. /\ i \notin at .. at + Len(a) - 1 /\ i \notin at + Len(a) .. at + Len(a) + Len(b) - 1
              /\ i \notin at .. at + Len(w) - 1
            BY <1>0, <2>0, <2>4
        <3> QED BY <1>2, <1>3, <1>4, <3>1 DEF IsStored
    <2> QED BY <1>0, <2>0, <2>1, <2>2, <2>3, <2>4
<1>6. second = once
    BY <1>3, <1>4, <1>5, BlockEqual DEF IsStored
<1> QED BY <1>6 DEF w, first, second, once

-----------------------------------------------------------------------------
(* The beginning of a text.                                                *)
Starts(a, w) == Len(a) <= Len(w) /\ \A i \in 1 .. Len(a) : a[i] = w[i]

(* A text is its own beginning.                                            *)
LEMMA StartsItself ==
    ASSUME NEW a \in Text
    PROVE  Starts(a, a)
BY DEF Starts, Text

(* The empty text begins every text.                                       *)
LEMMA EmptyStarts ==
    ASSUME NEW w \in Text
    PROVE  Starts(<< >>, w)
BY DEF Starts, Text

(* A text begins what is made by putting another behind it.                *)
LEMMA StartsConcat ==
    ASSUME NEW a \in Text, NEW b \in Text
    PROVE  Starts(a, a \o b)
<1> DEFINE w == a \o b
<1>1. Joins(w, a, b)
    BY ConcatJoins
<1> HIDE DEF w
<1>2. Len(a) <= Len(w)
    BY <1>1 DEF Joins, Text
<1>3. Starts(a, w)
    BY <1>1, <1>2 DEF Joins, Starts
<1> QED BY <1>3 DEF w

(* A beginning stays one if the same is put before both.                   *)
LEMMA StartsBehind ==
    ASSUME NEW s \in Text, NEW a \in Text, NEW w \in Text, Starts(a, w)
    PROVE  Starts(s \o a, s \o w)
<1> DEFINE x == s \o a
           y == s \o w
<1>0. Len(s) \in Nat /\ Len(a) \in Nat /\ Len(w) \in Nat /\ Len(a) <= Len(w)
    BY DEF Text, Starts
<1>1. Joins(x, s, a) /\ Joins(y, s, w)
    BY ConcatJoins
<1> HIDE DEF x, y
<1>2. Len(x) = Len(s) + Len(a) /\ Len(y) = Len(s) + Len(w)
    BY <1>1 DEF Joins
<1>3. ASSUME NEW i \in 1 .. Len(x) PROVE x[i] = y[i]
    <2>1. CASE i <= Len(s)
        <3>1. i \in 1 .. Len(s)
            BY <1>0, <2>1
        <3> QED BY <1>1, <3>1 DEF Joins
    <2>2. CASE i > Len(s)
        <3> DEFINE k == i - Len(s)
        <3>1. k \in 1 .. Len(a) /\ k \in 1 .. Len(w) /\ Len(s) + k = i
            BY <1>0, <1>2, <2>2
        <3> HIDE DEF k
        <3>2. x[Len(s) + k] = a[k] /\ y[Len(s) + k] = w[k] /\ a[k] = w[k]
            BY <1>1, <3>1 DEF Joins, Starts
        <3> QED BY <3>1, <3>2
    <2> QED BY <1>0, <1>2, <2>1, <2>2
<1>4. Starts(x, y)
    BY <1>0, <1>2, <1>3 DEF Starts
<1> QED BY <1>4 DEF x, y

(* The first characters of a text are its beginning.                       *)
LEMMA FirstOfText ==
    ASSUME NEW t \in Text, NEW c \in 0 .. Len(t)
    PROVE  /\ SubSeq(t, 1, c) \in Text /\ Len(SubSeq(t, 1, c)) = c
           /\ Starts(SubSeq(t, 1, c), t)
<1>0. Len(t) \in Nat /\ c \in Nat /\ t \in [1 .. Len(t) -> Int]
    BY DEF Text
<1> DEFINE x == SubSeq(t, 1, c)
<1>1. x = [i \in 1 .. c |-> t[i]]
    BY <1>0
<1> HIDE DEF x
<1>2. \A i \in 1 .. c : t[i] \in Int
    BY <1>0
<1>3. x \in [1 .. c -> Int]
    BY <1>1, <1>2
<1>4. x \in Seq(Int) /\ Len(x) = c
    BY <1>0, <1>3
<1>5. Starts(x, t)
    BY <1>0, <1>1, <1>4 DEF Starts
<1> QED BY <1>4, <1>5 DEF x, Text

(* All characters of a text are the text.                                  *)
LEMMA AllOfText ==
    ASSUME NEW t \in Text
    PROVE  SubSeq(t, 1, Len(t)) = t
<1>1. Len(t) \in 0 .. Len(t)
    BY DEF Text
<1> DEFINE x == SubSeq(t, 1, Len(t))
<1>2. x \in Text /\ Len(x) = Len(t) /\ Starts(x, t)
    BY <1>1, FirstOfText
<1> HIDE DEF x
<1>3. x = t
    BY <1>2, SeqEqual DEF Text, Starts
<1> QED BY <1>3 DEF x

(* The memory shows the first k characters of the text, and then nothing.  *)
Symbol == (0 .. 35) \cup {Minus, Point}

Shows(memory, wanted, maxLen, k) ==
    /\ k \in 0 .. Len(wanted)
    /\ \A i \in 0 .. maxLen - 1 : i < k => memory[i] = wanted[i + 1]
    /\ \A i \in 0 .. maxLen - 1 : i >= k => memory[i] \in {Untouched, Nul}

(* A beginning that is stored in a blank memory is shown.                  *)
LEMMA BeginningIsShown ==
    ASSUME NEW x \in Text, NEW wanted \in Text, Starts(x, wanted),
           NEW maxLen \in 0 .. MaxLen
    PROVE  Shows(Stored(Blank, 0, x), wanted, maxLen, Len(x))
<1> DEFINE b == Stored(Blank, 0, x)
<1>0. Blank \in Block /\ 0 \in Nat /\ Len(x) \in Nat /\ Len(wanted) \in Nat /\ Len(x) <= Len(wanted)
    BY BlankTyped DEF Text, Starts
<1>1. IsStored(b, Blank, 0, x)
    BY <1>0, StoredIs
<1> HIDE DEF b
<1>2. ASSUME NEW i \in 0 .. maxLen - 1 PROVE i \in Memory /\ i \in Nat
    BY WidthAssumption, MaxLenAssumption DEF Memory
<1>3. ASSUME NEW i \in 0 .. maxLen - 1, i < Len(x) PROVE b[i] = wanted[i + 1]
    <2>1. i \in 0 .. 0 + Len(x) - 1 /\ i - 0 + 1 = i + 1 /\ i + 1 \in 1 .. Len(x)
        BY <1>0, <1>2, <1>3
    <2>2. b[i] = x[i - 0 + 1]
        BY <1>1, <1>2, <2>1 DEF IsStored
    <2> QED BY <2>1, <2>2 DEF Starts
<1>4. ASSUME NEW i \in 0 .. maxLen - 1, i >= Len(x) PROVE b[i] = Untouched
    <2>1. i \notin 0 .. 0 + Len(x) - 1
        BY <1>0, <1>2, <1>4
    <2> QED BY <1>1, <1>2, <2>1, BlankTyped DEF IsStored
<1>5. Shows(b, wanted, maxLen, Len(x))
    BY <1>0, <1>3, <1>4 DEF Shows
<1> QED BY <1>5 DEF b

(* A terminator behind what is shown, or in the last cell of the buffer,   *)
(* leaves a beginning shown.                                               *)
LEMMA TerminatedIsShown ==
    ASSUME NEW memory \in Block, NEW wanted \in Text, NEW maxLen \in 0 .. MaxLen,
           NEW k, Shows(memory, wanted, maxLen, k),
           NEW e \in Nat, e >= k \/ e >= maxLen - 1
    PROVE  \E j \in Nat : Shows(Stored(memory, e, <<Nul>>), wanted, maxLen, j)
<1> DEFINE b == Stored(memory, e, <<Nul>>)
           j == IF e < k THEN e ELSE k
<1>0. <<Nul>> \in Text /\ Len(<<Nul>>) = 1 /\ <<Nul>>[1] = Nul /\ k \in 0 .. Len(wanted)
      /\ Len(wanted) \in Nat
    BY SingleTyped DEF Nul, Shows, Text
<1>1. IsStored(b, memory, e, <<Nul>>)
    BY <1>0, StoredIs
<1>2. j \in Nat /\ j \in 0 .. Len(wanted) /\ j <= k /\ j <= e /\ (j = k \/ j = e)
    BY <1>0
<1> HIDE DEF b, j
<1>3. ASSUME NEW i \in 0 .. maxLen - 1 PROVE i \in Memory /\ i \in Nat
    BY WidthAssumption, MaxLenAssumption DEF Memory
<1>4. ASSUME NEW i \in 0 .. maxLen - 1 PROVE b[i] = IF i = e THEN Nul ELSE memory[i]
    <2>1. CASE i = e
        <3>1. i \in e .. e + Len(<<Nul>>) - 1 /\ i - e + 1 = 1
            BY <1>0, <2>1
        <3>2. b[i] = <<Nul>>[i - e + 1]
            BY <1>1, <1>3, <3>1 DEF IsStored
        <3> QED BY <1>0, <2>1, <3>1, <3>2
    <2>2. CASE i # e
        <3>1. i \notin e .. e + Len(<<Nul>>) - 1
            BY <1>0, <1>3, <2>2
        <3> QED BY <1>1, <1>3, <2>2, <3>1 DEF IsStored
    <2> QED BY <2>1, <2>2
<1>5. ASSUME NEW i \in 0 .. maxLen - 1, i < j PROVE b[i] = wanted[i + 1]
    <2>1. i < k /\ i # e
        BY <1>0, <1>2, <1>3, <1>5
    <2> QED BY <1>4, <2>1 DEF Shows
<1>6. ASSUME NEW i \in 0 .. maxLen - 1, i >= j PROVE b[i] \in {Untouched, Nul}
    <2>1. CASE i = e
        BY <1>4, <2>1
    <2>2. CASE i # e
        <3>1. i >= k
            BY <1>0, <1>2, <1>3, <1>6, <2>2
        <3> QED BY <1>4, <2>2, <3>1 DEF Shows
    <2> QED BY <2>1, <2>2
<1>7. Shows(b, wanted, maxLen, j)
    BY <1>2, <1>5, <1>6 DEF Shows
<1> QED BY <1>2, <1>7 DEF b

-----------------------------------------------------------------------------
(* What a conversion of digits writes.                                     *)
IsNumeral(t, v, base) ==
    /\ Generated(v, base) = t
    /\ t \in Text /\ Len(t) >= 1
    /\ \A i \in 1 .. Len(t) : t[i] \in 0 .. 35

(* Digits are what the generation cycle makes.                             *)
LEMMA DigitsAreNumeral ==
    ASSUME NEW base \in 2 .. 36, NEW v \in Nat, NEW n \in Nat, n >= 1, HasDigits(v, base, n)
    PROVE  IsNumeral(DigitsOf(v, base, n), v, base) /\ Len(DigitsOf(v, base, n)) = n
<1> DEFINE d == DigitsOf(v, base, n)
<1>0. base \in Nat /\ base >= 2 /\ base <= 36
    OBVIOUS
<1>1. d \in Seq(0 .. base - 1) /\ Len(d) = n
    BY <1>0, DigitsTyped
<1>2. Generated(v, base) = d
    BY <1>0, GeneratedIsTheNumeral
<1> HIDE DEF d
<1>3. 0 .. base - 1 \subseteq 0 .. 35 /\ 0 .. base - 1 \subseteq Int
    BY <1>0
<1> DEFINE S == 0 .. base - 1
<1>4. d \in Text /\ \A i \in 1 .. Len(d) : d[i] \in 0 .. 35
    <2>1. d \in Seq(S) /\ S \subseteq 0 .. 35 /\ S \subseteq Int
        BY <1>1, <1>3
    <2> HIDE DEF S
    <2>2. \A i \in 1 .. Len(d) : d[i] \in S
        BY <2>1
    <2>3. \A i \in 1 .. Len(d) : d[i] \in Int
        BY <2>1, <2>2
    <2>4. d \in Seq(Int)
        BY <2>1, <2>3
    <2> QED BY <2>1, <2>2, <2>4 DEF Text
<1>5. IsNumeral(d, v, base) /\ Len(d) = n
    BY <1>1, <1>2, <1>4 DEF IsNumeral
<1> QED BY <1>5 DEF d

(* So is the text asked for of a number of Width bits.                     *)
LEMMA NumeralIsGenerated ==
    ASSUME NEW base \in 2 .. 36, NEW v \in Nat, v < Power(2, Width)
    PROVE  IsNumeral(NumeralOf(v, base), v, base)
<1>1. base \in Nat /\ base >= 2
    OBVIOUS
<1>2. PICK n \in 1 .. Width : HasDigits(v, base, n) /\ NumeralOf(v, base) = DigitsOf(v, base, n)
    BY <1>1, NumeralIsFound
<1>3. n \in Nat /\ n >= 1
    BY <1>2
<1> QED BY <1>2, <1>3, DigitsAreNumeral

FitsIn(t, maxLen, terminator) == maxLen = 0 \/ Len(t) + Terminators(terminator) <= maxLen

AllOf(outcome, memory, at, t, terminator) ==
    outcome = [memory |-> Stored(memory, at, t \o Ending(terminator)), length |-> Len(t)]

(* A number that fits is written with its terminator.                      *)
LEMMA NumberFits ==
    ASSUME NEW memory \in Block, NEW at \in Nat, NEW base \in 2 .. 36, NEW v \in Nat,
           NEW t, IsNumeral(t, v, base), NEW maxLen \in Nat, NEW terminator \in BOOLEAN,
           FitsIn(t, maxLen, terminator)
    PROVE  AllOf(UintToString(memory, at, v, maxLen, base, terminator), memory, at, t, terminator)
<1>0. /\ t \in Text /\ Len(t) \in Nat /\ Len(t) >= 1 /\ Generated(v, base) = t
      /\ Terminators(terminator) \in 0 .. 1 /\ (terminator => Terminators(terminator) = 1)
    BY DEF IsNumeral, Text, Terminators
<1>1. ~(maxLen = 1 /\ terminator)
    BY <1>0 DEF FitsIn
<1> DEFINE available == IF maxLen = 0 THEN Len(t) ELSE maxLen - Terminators(terminator)
<1>2. ShorterOf(Len(t), available) = Len(t)
    BY <1>0 DEF ShorterOf, FitsIn
<1>3. SubSeq(t, 1, ShorterOf(Len(t), available)) = t
    BY <1>0, <1>2, AllOfText
<1>4. UintToString(memory, at, v, maxLen, base, terminator) =
          [memory |-> Stored(Stored(memory, at, t), at + Len(t), Ending(terminator)), length |-> Len(t)]
    <2> HIDE DEF available
    <2> QED BY <1>0, <1>1, <1>3 DEF UintToString, Ending, available
<1>5. Stored(Stored(memory, at, t), at + Len(t), Ending(terminator)) = Stored(memory, at, t \o Ending(terminator))
    BY <1>0, EndTyped, StoredOneBehindTheOther
<1> QED BY <1>4, <1>5 DEF AllOf

CutOf(outcome, memory, at, t, maxLen, terminator, x) ==
    /\ x \in Text /\ Starts(x, t) /\ Len(x) = maxLen - Terminators(terminator)
    /\ \/ outcome.memory = Stored(memory, at, x)
       \/ terminator /\ outcome.memory = Stored(Stored(memory, at, x), at + Len(t), <<Nul>>)
    /\ ~terminator => outcome.length = Len(t)

(* Of one that does not, as much as there is place for is written; the     *)
(* terminator goes behind the whole.                                       *)
LEMMA NumberIsCut ==
    ASSUME NEW memory \in Block, NEW at \in Nat, NEW base \in 2 .. 36, NEW v \in Nat,
           NEW t, IsNumeral(t, v, base), NEW maxLen \in Nat, NEW terminator \in BOOLEAN,
           ~FitsIn(t, maxLen, terminator)
    PROVE  \E x : CutOf(UintToString(memory, at, v, maxLen, base, terminator),
                        memory, at, t, maxLen, terminator, x)
<1> DEFINE outcome == UintToString(memory, at, v, maxLen, base, terminator)
           c == maxLen - Terminators(terminator)
           x == SubSeq(t, 1, c)
<1>0. /\ t \in Text /\ Len(t) \in Nat /\ Len(t) >= 1 /\ Generated(v, base) = t
      /\ Terminators(terminator) \in 0 .. 1 /\ (terminator => Terminators(terminator) = 1)
      /\ maxLen # 0 /\ Len(t) + Terminators(terminator) > maxLen
    BY DEF IsNumeral, Text, Terminators, FitsIn
<1>1. c \in 0 .. Len(t) /\ c < Len(t) + 1
    BY <1>0
<1>2. x \in Text /\ Len(x) = c /\ Starts(x, t)
    BY <1>0, <1>1, FirstOfText
<1>3. ShorterOf(Len(t), c) = c
    BY <1>0, <1>1 DEF ShorterOf
<1> HIDE DEF x
<1>4. CASE maxLen = 1 /\ terminator
    <2>1. outcome = [memory |-> memory, length |-> 0]
        BY <1>4 DEF UintToString
    <2>0. maxLen = 1 /\ Terminators(terminator) = 1
        BY <1>4, Zenon DEF Terminators
    <2>2. c = 0
        BY <2>0
    <2>3. x = << >>
        <3>1. x \in Seq(Int) /\ Len(x) = 0
            BY <1>2, <2>2 DEF Text
        <3> QED BY <3>1, EmptySeq
    <2>4. Stored(memory, at, x) = memory
        BY <2>3, NothingStored
    <2>5. outcome.memory = Stored(memory, at, x)
        BY <2>1, <2>4
    <2> HIDE DEF outcome
    <2>6. CutOf(outcome, memory, at, t, maxLen, terminator, x)
        BY <1>2, <1>4, <2>5 DEF CutOf
    <2> QED BY <2>6 DEF outcome
<1>5. CASE ~(maxLen = 1 /\ terminator)
    <2>1. outcome = [memory |-> Stored(Stored(memory, at, x), at + Len(t), Ending(terminator)),
                     length |-> Len(t)]
        <3> HIDE DEF c
        <3> QED BY <1>0, <1>3, <1>5 DEF UintToString, Ending, c, x
    <2>2. CASE terminator
        <3>1. Ending(terminator) = <<Nul>>
            BY <2>2 DEF Ending
        <3>2. outcome.memory = Stored(Stored(memory, at, x), at + Len(t), <<Nul>>)
            BY <2>1, <3>1
        <3> HIDE DEF outcome
        <3>3. CutOf(outcome, memory, at, t, maxLen, terminator, x)
            BY <1>2, <2>2, <3>2 DEF CutOf
        <3> QED BY <3>3 DEF outcome
    <2>3. CASE ~terminator
        <3>1. Ending(terminator) = << >>
            BY <2>3 DEF Ending
        <3>2. Stored(memory, at, x) \in Block
            BY <1>2, StoredIs DEF IsStored
        <3>3. at + Len(t) \in Nat
            BY <1>0
        <3>4. outcome.memory = Stored(memory, at, x) /\ outcome.length = Len(t)
            BY <2>1, <3>1, <3>2, <3>3, NothingStored
        <3> HIDE DEF outcome
        <3>5. CutOf(outcome, memory, at, t, maxLen, terminator, x)
            BY <1>2, <2>3, <3>4 DEF CutOf
        <3> QED BY <3>5 DEF outcome
    <2> QED BY <2>2, <2>3
<1> QED BY <1>4, <1>5

-----------------------------------------------------------------------------
(* A number behind a text that was written before, within the limit that   *)
(* is left.                                                                *)
Behind(s, v, maxLen, base, terminator) ==
    UintToString(Stored(Blank, 0, s), Len(s), v, LimitFrom(maxLen, Len(s)), base, terminator)

(* A text stored behind another in a blank memory.                         *)
LEMMA StoredInBlank ==
    ASSUME NEW s \in Text, NEW t \in Text
    PROVE  /\ Stored(Blank, 0, s) \in Block
           /\ Stored(Stored(Blank, 0, s), Len(s), t) = Stored(Blank, 0, s \o t)
<1>1. Blank \in Block /\ 0 \in Nat /\ 0 + Len(s) = Len(s)
    BY BlankTyped DEF Text
<1>2. Stored(Blank, 0, s) \in Block
    BY <1>1, StoredIs DEF IsStored
<1>3. Stored(Stored(Blank, 0, s), 0 + Len(s), t) = Stored(Blank, 0, s \o t)
    BY <1>1, StoredOneBehindTheOther
<1> QED BY <1>1, <1>2, <1>3

(* The length of two texts.                                                *)
LEMMA ConcatTyped ==
    ASSUME NEW a \in Text, NEW b \in Text
    PROVE  a \o b \in Text /\ Len(a \o b) = Len(a) + Len(b) /\ Len(a) \in Nat /\ Len(b) \in Nat
<1>1. Joins(a \o b, a, b)
    BY ConcatJoins
<1> QED BY <1>1 DEF Joins, Text

FitsBehind(s, t, maxLen, terminator) ==
    maxLen = 0 \/ Len(s) + Len(t) + Terminators(terminator) <= maxLen

AllBehind(outcome, s, t, terminator) ==
    /\ outcome.memory = Stored(Blank, 0, (s \o t) \o Ending(terminator))
    /\ outcome.length = Len(t)

(* A number that fits behind a text is written there.                      *)
LEMMA BehindFits ==
    ASSUME NEW s \in Text, NEW base \in 2 .. 36, NEW v \in Nat,
           NEW t, IsNumeral(t, v, base), NEW maxLen \in Nat, NEW terminator \in BOOLEAN,
           FitsBehind(s, t, maxLen, terminator)
    PROVE  AllBehind(Behind(s, v, maxLen, base, terminator), s, t, terminator)
<1> DEFINE limit == LimitFrom(maxLen, Len(s))
           m == Stored(Blank, 0, s)
<1>0. /\ t \in Text /\ Len(t) \in Nat /\ Len(t) >= 1 /\ Len(s) \in Nat
      /\ Terminators(terminator) \in 0 .. 1 /\ Ending(terminator) \in Text
    BY EndTyped DEF IsNumeral, Text
<1>1. limit \in Nat /\ (limit = 0 \/ Len(t) + Terminators(terminator) <= limit)
    BY <1>0 DEF LimitFrom, FitsBehind
<1>2. m \in Block
    BY <1>0, StoredInBlank
<1>3. Behind(s, v, maxLen, base, terminator) =
          [memory |-> Stored(m, Len(s), t \o Ending(terminator)), length |-> Len(t)]
    <2>0. FitsIn(t, limit, terminator) /\ Len(s) \in Nat
        BY <1>0, <1>1 DEF FitsIn
    <2> HIDE DEF limit, m
    <2>1. AllOf(UintToString(m, Len(s), v, limit, base, terminator), m, Len(s), t, terminator)
        BY <1>1, <1>2, <2>0, NumberFits
    <2> QED BY <2>1 DEF Behind, AllOf, limit, m
<1>4. t \o Ending(terminator) \in Text
    BY <1>0, ConcatTyped
<1>5. Stored(m, Len(s), t \o Ending(terminator)) = Stored(Blank, 0, s \o (t \o Ending(terminator)))
    BY <1>4, StoredInBlank
<1>6. s \o (t \o Ending(terminator)) = (s \o t) \o Ending(terminator)
    BY <1>0, ConcatInThree
<1> QED BY <1>3, <1>5, <1>6 DEF AllBehind

CutBehind(outcome, s, t, maxLen, terminator) ==
    /\ \E k \in Nat : Shows(outcome.memory, s \o t, maxLen, k)
    /\ ~terminator => outcome.length = Len(t)
    /\ ~terminator /\ Len(s) < maxLen =>
           \E y \in Text : /\ Starts(y, s \o t) /\ Len(y) = maxLen
                           /\ outcome.memory = Stored(Blank, 0, y)

(* Of one that does not, a beginning is shown, even if nothing was left of *)
(* the limit and so the number was written without one.                    *)
LEMMA BehindIsCut ==
    ASSUME NEW s \in Text, NEW base \in 2 .. 36, NEW v \in Nat,
           NEW t, IsNumeral(t, v, base), NEW maxLen \in 0 .. MaxLen, NEW terminator \in BOOLEAN,
           Len(s) <= maxLen, ~FitsBehind(s, t, maxLen, terminator)
    PROVE  CutBehind(Behind(s, v, maxLen, base, terminator), s, t, maxLen, terminator)
<1> DEFINE limit == LimitFrom(maxLen, Len(s))
           m == Stored(Blank, 0, s)
           o == Behind(s, v, maxLen, base, terminator)
           w == s \o t
<1>0. /\ t \in Text /\ Len(t) \in Nat /\ Len(t) >= 1 /\ Len(s) \in Nat
      /\ Terminators(terminator) \in 0 .. 1 /\ Ending(terminator) \in Text /\ maxLen \in Nat
      /\ w \in Text /\ Len(w) = Len(s) + Len(t) /\ m \in Block
      /\ limit = maxLen - Len(s) /\ limit \in Nat
      /\ maxLen # 0 /\ Len(s) + Len(t) + Terminators(terminator) > maxLen
    <2>1. /\ t \in Text /\ Len(t) >= 1 /\ maxLen \in Nat
          /\ Terminators(terminator) \in 0 .. 1 /\ Ending(terminator) \in Text
        BY MaxLenAssumption, EndTyped DEF IsNumeral
    <2>2. w \in Text /\ Len(w) = Len(s) + Len(t) /\ Len(s) \in Nat /\ Len(t) \in Nat
        BY <2>1, ConcatTyped
    <2>3. m \in Block
        BY <2>1, StoredInBlank
    <2>4. maxLen # 0 /\ Len(s) + Len(t) + Terminators(terminator) > maxLen
        BY <2>1, <2>2 DEF FitsBehind
    <2>5. limit = maxLen - Len(s) /\ limit \in Nat
        BY <2>1, <2>2, <2>4 DEF LimitFrom
    <2> QED BY <2>1, <2>2, <2>3, <2>4, <2>5
<1>1. o = UintToString(m, Len(s), v, limit, base, terminator)
    BY DEF Behind
<1> HIDE DEF limit, m, o, w
<1>2. CASE limit = 0
    <2>1. o = [memory |-> Stored(m, Len(s), t \o Ending(terminator)), length |-> Len(t)]
        <3>1. FitsIn(t, limit, terminator)
            BY <1>2 DEF FitsIn
        <3>2. AllOf(o, m, Len(s), t, terminator)
            BY <1>0, <1>1, <3>1, NumberFits
        <3> QED BY <3>2 DEF AllOf
    <2>2. Stored(Stored(m, Len(s), t), Len(s) + Len(t), Ending(terminator))
              = Stored(m, Len(s), t \o Ending(terminator))
        BY <1>0, StoredOneBehindTheOther
    <2>3. Stored(m, Len(s), t) = Stored(Blank, 0, w)
        BY <1>0, StoredInBlank DEF m, w
    <2>4. o.memory = Stored(Stored(Blank, 0, w), Len(w), Ending(terminator)) /\ o.length = Len(t)
        BY <1>0, <2>1, <2>2, <2>3
    <2>5. Shows(Stored(Blank, 0, w), w, maxLen, Len(w)) /\ Stored(Blank, 0, w) \in Block
        BY <1>0, StartsItself, BeginningIsShown, StoredInBlank
    <2>6. \E k \in Nat : Shows(o.memory, w, maxLen, k)
        <3>1. CASE terminator
            <4>1. Ending(terminator) = <<Nul>> /\ Len(w) \in Nat
                BY <1>0, <3>1 DEF Ending
            <4> DEFINE e == Len(w)
                       b == Stored(Blank, 0, w)
            <4>2. e \in Nat /\ (e >= e \/ e >= maxLen - 1) /\ b \in Block /\ Shows(b, w, maxLen, e)
                BY <2>5, <4>1
            <4>3. o.memory = Stored(b, e, <<Nul>>)
                BY <2>4, <4>1
            <4> HIDE DEF e, b
            <4> QED BY <1>0, <4>2, <4>3, TerminatedIsShown
        <3>2. CASE ~terminator
            <4>1. Ending(terminator) = << >> /\ Len(w) \in Nat
                BY <1>0, <3>2 DEF Ending
            <4>2. o.memory = Stored(Blank, 0, w)
                BY <2>4, <2>5, <4>1, NothingStored
            <4> QED BY <2>5, <4>1, <4>2
        <3> QED BY <3>1, <3>2
    <2>7. ~(Len(s) < maxLen)
        BY <1>0, <1>2
    <2> QED BY <2>4, <2>6, <2>7 DEF CutBehind, o, w
<1>3. CASE limit # 0
    <2>1. ~FitsIn(t, limit, terminator)
        BY <1>0, <1>3 DEF FitsIn
    <2>2. PICK x : CutOf(o, m, Len(s), t, limit, terminator, x)
        <3>1. \E x : CutOf(UintToString(m, Len(s), v, limit, base, terminator),
                           m, Len(s), t, limit, terminator, x)
            <4>1. m \in Block /\ Len(s) \in Nat /\ limit \in Nat
                BY <1>0
            <4> QED BY <2>1, <4>1, NumberIsCut
        <3> QED BY <1>1, <3>1, Zenon
    <2>3. x \in Text /\ Starts(x, t) /\ Len(x) = limit - Terminators(terminator)
        BY <2>2 DEF CutOf
    <2> DEFINE y == s \o x
    <2>4. y \in Text /\ Len(y) = Len(s) + Len(x) /\ Stored(m, Len(s), x) = Stored(Blank, 0, y)
        BY <2>3, ConcatTyped, StoredInBlank DEF m
    <2>5. Starts(y, w)
        BY <1>0, <2>3, StartsBehind DEF w
    <2> HIDE DEF y
    <2>6. Shows(Stored(Blank, 0, y), w, maxLen, Len(y)) /\ Stored(Blank, 0, y) \in Block
        BY <1>0, <2>4, <2>5, BeginningIsShown, StoredInBlank
    <2>7. \/ o.memory = Stored(Blank, 0, y)
          \/ terminator /\ o.memory = Stored(Stored(Blank, 0, y), Len(s) + Len(t), <<Nul>>)
        BY <2>2, <2>4 DEF CutOf
    <2>8. Len(y) \in Nat /\ Len(s) + Len(t) \in Nat /\ Len(s) + Len(t) >= Len(y)
        BY <1>0, <2>3, <2>4, <2>5 DEF Starts
    <2>9. \E k \in Nat : Shows(o.memory, w, maxLen, k)
        <3>1. CASE o.memory = Stored(Blank, 0, y)
            BY <2>6, <2>8, <3>1
        <3>2. CASE o.memory = Stored(Stored(Blank, 0, y), Len(s) + Len(t), <<Nul>>)
            <4> DEFINE e == Len(s) + Len(t)
            <4>1. e \in Nat /\ (e >= Len(y) \/ e >= maxLen - 1)
                BY <2>8
            <4> HIDE DEF e
            <4>2. \E j \in Nat : Shows(Stored(Stored(Blank, 0, y), e, <<Nul>>), w, maxLen, j)
                BY <1>0, <2>6, <4>1, TerminatedIsShown
            <4> QED BY <3>2, <4>2 DEF e
        <3> QED BY <2>7, <3>1, <3>2
    <2>10. ~terminator => Len(y) = maxLen
        BY <1>0, <2>3, <2>4 DEF Terminators
    <2>11. ~terminator => o.length = Len(t)
        BY <2>2 DEF CutOf
    <2> QED BY <2>4, <2>5, <2>7, <2>9, <2>10, <2>11 DEF CutBehind, o, w
<1> QED BY <1>2, <1>3

-----------------------------------------------------------------------------
(* Integers.                                                               *)
Exactly(outcome, wanted, terminator) ==
    /\ outcome.memory = Stored(Blank, 0, wanted \o Ending(terminator))
    /\ outcome.length = Len(wanted)

Partly(memory, wanted, maxLen) == \E k \in Nat : Shows(memory, wanted, maxLen, k)

Inside(memory, maxLen) == \A i \in Memory : i >= maxLen => memory[i] = Untouched

(* The sign as a text.                                                     *)
LEMMA SignTyped ==
    ASSUME NEW negative \in BOOLEAN
    PROVE  /\ Sign(negative) \in Text /\ Len(Sign(negative)) \in 0 .. 1
           /\ Len(Sign(negative)) = IF negative THEN 1 ELSE 0
           /\ negative => Sign(negative) = <<Minus>>
           /\ ~negative => Sign(negative) = << >>
<1>1. /\ <<Minus>> \in Text /\ Len(<<Minus>>) = 1 /\ << >> \in Text /\ Len(<< >>) = 0
      /\ 0 \in 0 .. 1 /\ 1 \in 0 .. 1
    BY SingleTyped, EmptyText DEF Minus
<1>2. CASE negative
    <2>1. Sign(negative) = <<Minus>>
        BY <1>2 DEF Sign
    <2>2. Len(Sign(negative)) = 1
        BY <1>1, <2>1
    <2>3. Len(Sign(negative)) = IF negative THEN 1 ELSE 0
        BY <1>2, <2>2, Zenon
    <2> QED BY <1>1, <1>2, <2>1, <2>2, <2>3, Zenon
<1>3. CASE ~negative
    <2>1. Sign(negative) = << >>
        BY <1>3 DEF Sign
    <2>2. Len(Sign(negative)) = 0
        BY <1>1, <2>1
    <2>3. Len(Sign(negative)) = IF negative THEN 1 ELSE 0
        BY <1>3, <2>2, Zenon
    <2> QED BY <1>1, <1>3, <2>1, <2>2, <2>3, Zenon
<1> QED BY <1>2, <1>3

(* A blank memory shows nothing, the beginning of every text.              *)
LEMMA NothingIsShown ==
    ASSUME NEW wanted \in Text, NEW maxLen \in 0 .. MaxLen
    PROVE  Partly(Blank, wanted, maxLen)
<1>1. << >> \in Text /\ Starts(<< >>, wanted) /\ Len(<< >>) = 0
    BY EmptyText, EmptyStarts
<1>2. Stored(Blank, 0, << >>) = Blank
    BY BlankTyped, NothingStored
<1>3. Shows(Stored(Blank, 0, << >>), wanted, maxLen, Len(<< >>))
    BY <1>1, BeginningIsShown
<1> QED BY <1>1, <1>2, <1>3 DEF Partly

(* A text no longer than the buffer changes nothing behind it.             *)
LEMMA ShortStaysInside ==
    ASSUME NEW y \in Text, NEW maxLen \in Nat, Len(y) <= maxLen
    PROVE  Inside(Stored(Blank, 0, y), maxLen)
<1> DEFINE b == Stored(Blank, 0, y)
<1>1. IsStored(b, Blank, 0, y) /\ Len(y) \in Nat
    BY BlankTyped, StoredIs DEF Text
<1> HIDE DEF b
<1>2. ASSUME NEW i \in Memory, i >= maxLen PROVE b[i] = Untouched
    <2>1. i \notin 0 .. 0 + Len(y) - 1
        BY <1>1, <1>2, MemoryIsNumbers
    <2> QED BY <1>1, <2>1, BlankTyped DEF IsStored
<1> QED BY <1>2 DEF Inside, b

(* An unsigned number is one behind nothing.                               *)
LEMMA UnsignedIs ==
    ASSUME NEW v, NEW maxLen \in Nat, NEW base, NEW terminator
    PROVE  UintToString(Blank, 0, v, maxLen, base, terminator) = Behind(<< >>, v, maxLen, base, terminator)
<1>1. Stored(Blank, 0, << >>) = Blank /\ Len(<< >>) = 0
    BY BlankTyped, NothingStored, EmptyText
<1>2. LimitFrom(maxLen, 0) = maxLen
    BY DEF LimitFrom
<1> QED BY <1>1, <1>2 DEF Behind

(* UintToString writes the digits, or shows their beginning.               *)
LEMMA UnsignedIsRight ==
    ASSUME NEW base \in 2 .. 36, NEW v \in Nat, NEW t, IsNumeral(t, v, base),
           NEW maxLen \in 0 .. MaxLen, NEW terminator \in BOOLEAN,
           NEW o, o = UintToString(Blank, 0, v, maxLen, base, terminator)
    PROVE  /\ FitsIn(t, maxLen, terminator) => Exactly(o, t, terminator)
           /\ ~FitsIn(t, maxLen, terminator) =>
                  /\ Partly(o.memory, t, maxLen)
                  /\ ~terminator /\ maxLen > 0 => Inside(o.memory, maxLen)
<1> DEFINE s == << >>
<1>0. /\ maxLen \in Nat /\ t \in Text /\ s \in Text /\ Len(s) = 0 /\ s \o t = t
      /\ Len(t) \in Nat /\ Terminators(terminator) \in 0 .. 1
    BY MaxLenAssumption, EmptyText, ConcatEmpty, EndTyped DEF IsNumeral, Text
<1>1. o = Behind(s, v, maxLen, base, terminator)
    BY <1>0, UnsignedIs
<1> HIDE DEF s
<1>2. ASSUME FitsIn(t, maxLen, terminator) PROVE Exactly(o, t, terminator)
    <2>1. FitsBehind(s, t, maxLen, terminator)
        BY <1>0, <1>2 DEF FitsIn, FitsBehind
    <2>2. AllBehind(o, s, t, terminator)
        BY <1>0, <1>1, <2>1, BehindFits
    <2> QED BY <1>0, <2>2 DEF Exactly, AllBehind
<1>3. ASSUME ~FitsIn(t, maxLen, terminator)
      PROVE  /\ Partly(o.memory, t, maxLen)
             /\ ~terminator /\ maxLen > 0 => Inside(o.memory, maxLen)
    <2>1. /\ maxLen # 0 /\ Len(s) < maxLen /\ Len(s) <= maxLen
          /\ ~FitsBehind(s, t, maxLen, terminator)
        BY <1>0, <1>3 DEF FitsIn, FitsBehind
    <2>2. CutBehind(o, s, t, maxLen, terminator)
        BY <1>0, <1>1, <2>1, BehindIsCut
    <2>3. ASSUME ~terminator PROVE Inside(o.memory, maxLen)
        <3>1. PICK y \in Text : Len(y) = maxLen /\ o.memory = Stored(Blank, 0, y)
            BY <2>1, <2>2, <2>3 DEF CutBehind
        <3>2. Len(y) <= maxLen
            BY <1>0, <3>1
        <3> QED BY <1>0, <3>1, <3>2, ShortStaysInside
    <2>4. Partly(o.memory, t, maxLen)
        BY <1>0, <2>2 DEF CutBehind, Partly
    <2> QED BY <2>3, <2>4
<1> QED BY <1>2, <1>3

IntOutcome(outcome, s, number, maxLen, terminator) ==
    outcome = [memory |-> number.memory,
               length |-> Len(s) + IF maxLen # 0 /\ number.length > LimitFrom(maxLen, Len(s))
                                   THEN LimitFrom(maxLen, Len(s)) - Terminators(terminator)
                                   ELSE number.length]

(* IntToString writes the sign and behind it the absolute value; that of   *)
(* the smallest number too, as an unsigned one.                            *)
LEMMA IntIs ==
    ASSUME NEW base \in 2 .. 36, NEW v \in Int, NEW maxLen \in Nat, NEW terminator \in BOOLEAN,
           ~(maxLen = 1 /\ terminator),
           NEW size \in Nat, size < Power(2, Width), size = IF v < 0 THEN -v ELSE v,
           NEW s, s = Sign(v < 0), NEW number, number = Behind(s, size, maxLen, base, terminator)
    PROVE  IntOutcome(IntToString(Blank, v, maxLen, base, terminator), s, number, maxLen, terminator)
<1>1. Terminators(terminator) \in 0 .. 1 /\ (terminator => Terminators(terminator) = 1)
      /\ (~terminator => Terminators(terminator) = 0)
    BY DEF Terminators
<1>2. maxLen = 0 \/ 0 < maxLen - Terminators(terminator)
    BY <1>1
<1>3. (IF v < 0 THEN -v ELSE v) % Power(2, Width) = size
    <2>1. Power(2, Width) \in Nat \ {0}
        BY WidthAssumption, PowerIsPositive
    <2> DEFINE p == Power(2, Width)
    <2> HIDE DEF p
    <2>2. size % p = size
        BY <2>1 DEF p
    <2> QED BY <2>2 DEF p
<1>4. CASE v < 0
    <2>1. s = <<Minus>> /\ Len(s) = 1
        BY <1>4, SingleTyped DEF Sign, Minus
    <2>2. number = UintToString(Stored(Blank, 0, <<Minus>>), 1, size, LimitFrom(maxLen, 1), base, terminator)
        BY <2>1 DEF Behind
    <2> QED BY <1>2, <1>3, <1>4, <2>1, <2>2 DEF IntToString, IntOutcome
<1>5. CASE ~(v < 0)
    <2>1. s = << >> /\ Len(s) = 0
        BY <1>5, EmptyText DEF Sign
    <2>2. number = UintToString(Stored(Blank, 0, << >>), 0, size, LimitFrom(maxLen, 0), base, terminator)
        BY <2>1 DEF Behind
    <2> QED BY <1>3, <1>5, <2>1, <2>2 DEF IntToString, IntOutcome
<1> QED BY <1>4, <1>5

(* One place is enough for a sign.                                         *)
LEMMA AtMostOne ==
    ASSUME NEW a \in 0 .. 1, NEW n \in Nat, n # 0
    PROVE  a <= n
OBVIOUS

(* IntToString writes sign and digits, or shows their beginning.           *)
LEMMA IntIsRight ==
    ASSUME NEW base \in 2 .. 36, NEW v \in Int,
           NEW size \in Nat, size < Power(2, Width), size = IF v < 0 THEN -v ELSE v,
           NEW s, s = Sign(v < 0), NEW t, IsNumeral(t, size, base),
           NEW maxLen \in 0 .. MaxLen, NEW terminator \in BOOLEAN,
           NEW o, o = IntToString(Blank, v, maxLen, base, terminator)
    PROVE  /\ FitsIn(s \o t, maxLen, terminator) => Exactly(o, s \o t, terminator)
           /\ ~FitsIn(s \o t, maxLen, terminator) =>
                  /\ Partly(o.memory, s \o t, maxLen)
                  /\ ~terminator /\ maxLen > Len(s) => Inside(o.memory, maxLen)
<1> DEFINE w == s \o t
           limit == LimitFrom(maxLen, Len(s))
           number == Behind(s, size, maxLen, base, terminator)
<1>0. /\ maxLen \in Nat /\ t \in Text /\ Len(t) \in Nat /\ Len(t) >= 1
      /\ s \in Text /\ Len(s) \in 0 .. 1
      /\ w \in Text /\ Len(w) = Len(s) + Len(t)
      /\ Terminators(terminator) \in 0 .. 1 /\ (terminator => Terminators(terminator) = 1)
    <2>1. maxLen \in Nat /\ t \in Text /\ Len(t) \in Nat /\ Len(t) >= 1
        BY MaxLenAssumption DEF IsNumeral, Text
    <2>2. s \in Text /\ Len(s) \in 0 .. 1
        <3>1. (v < 0) \in BOOLEAN
            OBVIOUS
        <3> QED BY <3>1, SignTyped
    <2>3. w \in Text /\ Len(w) = Len(s) + Len(t)
        BY <2>1, <2>2, ConcatTyped
    <2>4. Terminators(terminator) \in 0 .. 1 /\ (terminator => Terminators(terminator) = 1)
        BY DEF Terminators
    <2> QED BY <2>1, <2>2, <2>3, <2>4
<1>1. CASE maxLen = 1 /\ terminator
    <2>1. o = [memory |-> Blank, length |-> 0]
        BY <1>1 DEF IntToString
    <2>2. maxLen = 1 /\ Terminators(terminator) = 1
        BY <1>0, <1>1
    <2>3. ~FitsIn(w, maxLen, terminator)
        BY <1>0, <2>2 DEF FitsIn
    <2>4. Partly(Blank, w, maxLen)
        BY <1>0, NothingIsShown
    <2>5. o.memory = Blank
        BY <2>1
    <2>6. Partly(o.memory, w, maxLen)
        BY <2>4, <2>5
    <2> HIDE DEF w
    <2> QED BY <1>1, <2>3, <2>6, Zenon DEF w
<1>2. CASE ~(maxLen = 1 /\ terminator)
    <2>1. IntOutcome(o, s, number, maxLen, terminator)
        <3> HIDE DEF number
        <3>1. number = Behind(s, size, maxLen, base, terminator)
            BY DEF number
        <3> QED BY <1>0, <1>2, <3>1, IntIs, Zenon
    <2>2. o.memory = number.memory
        BY <2>1 DEF IntOutcome
    <2>3. ASSUME FitsIn(w, maxLen, terminator) PROVE Exactly(o, w, terminator)
        <3>1. FitsBehind(s, t, maxLen, terminator)
            BY <1>0, <2>3 DEF FitsIn, FitsBehind
        <3>2. AllBehind(number, s, t, terminator)
            BY <1>0, <3>1, BehindFits
        <3>3. ~(maxLen # 0 /\ Len(t) > limit)
            BY <1>0, <3>1 DEF LimitFrom, FitsBehind
        <3>4. number.length = Len(t) /\ number.memory = Stored(Blank, 0, w \o Ending(terminator))
            BY <3>2 DEF AllBehind
        <3> HIDE DEF number, w
        <3>5. o.length = Len(s) + Len(t)
            BY <2>1, <3>3, <3>4 DEF IntOutcome
        <3> QED BY <1>0, <2>2, <3>4, <3>5 DEF Exactly
    <2>4. ASSUME ~FitsIn(w, maxLen, terminator)
          PROVE  /\ Partly(o.memory, w, maxLen)
                 /\ ~terminator /\ maxLen > Len(s) => Inside(o.memory, maxLen)
        <3>1. maxLen # 0 /\ Len(w) + Terminators(terminator) > maxLen
            <4> HIDE DEF w
            <4> QED BY <1>0, <2>4 DEF FitsIn
        <3>2. Len(s) <= maxLen
            <4>1. Len(s) \in 0 .. 1 /\ maxLen \in Nat /\ maxLen # 0
                BY <1>0, <3>1, Zenon
            <4> DEFINE a == Len(s)
            <4> HIDE DEF a
            <4>2. a \in 0 .. 1
                BY <4>1 DEF a
            <4>3. a <= maxLen
                BY <4>1, <4>2, AtMostOne
            <4> QED BY <4>3 DEF a
        <3>3. ~FitsBehind(s, t, maxLen, terminator)
            BY <1>0, <3>1 DEF FitsBehind
        <3>4. CutBehind(number, s, t, maxLen, terminator)
            BY <1>0, <3>2, <3>3, BehindIsCut
        <3>5. ASSUME ~terminator, maxLen > Len(s) PROVE Inside(o.memory, maxLen)
            <4>1. Len(s) < maxLen
                BY <1>0, <3>5
            <4>2. PICK y \in Text : Len(y) = maxLen /\ number.memory = Stored(Blank, 0, y)
                BY <3>4, <3>5, <4>1 DEF CutBehind
            <4>3. Len(y) <= maxLen /\ o.memory = Stored(Blank, 0, y)
                BY <1>0, <2>2, <4>2
            <4> QED BY <1>0, <4>2, <4>3, ShortStaysInside
        <3> HIDE DEF number
        <3>6. Partly(o.memory, w, maxLen)
            BY <2>2, <3>4 DEF Partly, CutBehind
        <3> QED BY <3>5, <3>6
    <2> QED BY <2>3, <2>4
<1> QED BY <1>1, <1>2

-----------------------------------------------------------------------------
(* Floating numbers: what stands before the point.                         *)
IsSign(s, negative) ==
    /\ s = Sign(negative) /\ s \in Text /\ Len(s) <= 1
    /\ negative => s = <<Minus>> /\ Len(s) = 1
    /\ ~negative => s = << >> /\ Len(s) = 0

(* A sign is a text of at most one character.                              *)
LEMMA SignIs ==
    ASSUME NEW negative \in BOOLEAN
    PROVE  IsSign(Sign(negative), negative)
<1>1. /\ Sign(negative) \in Text
      /\ negative => Sign(negative) = <<Minus>> /\ Len(Sign(negative)) = 1
      /\ ~negative => Sign(negative) = << >> /\ Len(Sign(negative)) = 0
    BY SignTyped, Zenon
<1> DEFINE n == Len(Sign(negative))
<1>2. n <= 1
    <2>1. n \in 0 .. 1
        BY SignTyped
    <2> HIDE DEF n
    <2> QED BY <2>1
<1> QED BY <1>1, <1>2, Zenon DEF IsSign

PartOutcome(part, s, number, maxLen) ==
    /\ part = [memory |-> part.memory, length |-> part.length]
    /\ part.memory = number.memory
    /\ part.length = Len(s) + IF maxLen # 0 THEN ShorterOf(number.length, LimitFrom(maxLen, Len(s)))
                             ELSE number.length

(* What stands before the point is written like an integer.                *)
LEMMA IntegerPartIs ==
    ASSUME NEW negative \in BOOLEAN, NEW v, NEW maxLen \in Nat, maxLen # 1 \/ ~negative,
           NEW s, IsSign(s, negative), NEW number, number = Behind(s, v, maxLen, 10, FALSE)
    PROVE  PartOutcome(IntegerPart(Blank, negative, v, maxLen), s, number, maxLen)
<1>1. CASE negative
    <2>1. s = <<Minus>> /\ Len(s) = 1 /\ maxLen # 1
        BY <1>1 DEF IsSign
    <2>2. number = UintToString(Stored(Blank, 0, <<Minus>>), 1, v, LimitFrom(maxLen, 1), 10, FALSE)
        BY <2>1 DEF Behind
    <2> QED BY <1>1, <2>1, <2>2 DEF IntegerPart, PartOutcome
<1>2. CASE ~negative
    <2>1. s = << >> /\ Len(s) = 0
        BY <1>2 DEF IsSign
    <2>2. number = UintToString(Stored(Blank, 0, << >>), 0, v, LimitFrom(maxLen, 0), 10, FALSE)
        BY <2>1 DEF Behind
    <2> DEFINE n == UintToString(Stored(Blank, 0, << >>), 0, v, LimitFrom(maxLen, 0), 10, FALSE)
               part == IntegerPart(Blank, negative, v, maxLen)
    <2>3. ~(negative /\ maxLen # 1)
        BY <1>2
    <2>4. part =
              [memory |-> n.memory,
               length |-> 0 + IF maxLen # 0 THEN ShorterOf(n.length, LimitFrom(maxLen, 0)) ELSE n.length]
        BY <2>3, Zenon DEF IntegerPart
    <2>5. number = n
        BY <2>2
    <2> HIDE DEF n, part
    <2>6. part.memory = number.memory
        BY <2>4, <2>5
    <2>7. part.length = 0 + IF maxLen # 0 THEN ShorterOf(number.length, LimitFrom(maxLen, 0))
                            ELSE number.length
        BY <2>4, <2>5
    <2>8. Len(s) = 0
        BY <2>1
    <2>9. part = [memory |-> part.memory, length |-> part.length]
        BY <2>4
    <2>10. PartOutcome(part, s, number, maxLen)
        BY <2>6, <2>7, <2>8, <2>9 DEF PartOutcome
    <2> QED BY <2>10 DEF part
<1> QED BY <1>1, <1>2

Writes(part, w) ==
    /\ part = [memory |-> part.memory, length |-> part.length]
    /\ part.memory = Stored(Blank, 0, w) /\ part.length = Len(w)

(* Whether a number fits without a terminator.                             *)
LEMMA FitsUnterminated ==
    ASSUME NEW s, NEW t, Len(s) \in Nat, Len(t) \in Nat, NEW maxLen \in Nat
    PROVE  FitsBehind(s, t, maxLen, FALSE) <=> maxLen = 0 \/ Len(s) + Len(t) <= maxLen
<1> DEFINE end == Terminators(FALSE)
<1>1. end = 0
    BY DEF Terminators
<1>2. FitsBehind(s, t, maxLen, FALSE) <=> maxLen = 0 \/ Len(s) + Len(t) + end <= maxLen
    BY DEF FitsBehind
<1> HIDE DEF end
<1>3. Len(s) + Len(t) + end = Len(s) + Len(t)
    BY <1>1
<1> QED BY <1>2, <1>3

(* The part before the point is written if it fits,                        *)
LEMMA IntegerPartFits ==
    ASSUME NEW negative \in BOOLEAN, NEW v \in Nat, NEW t, IsNumeral(t, v, 10),
           NEW maxLen \in Nat, NEW s, IsSign(s, negative),
           maxLen = 0 \/ Len(s \o t) <= maxLen
    PROVE  Writes(IntegerPart(Blank, negative, v, maxLen), s \o t)
<1> DEFINE w == s \o t
           number == Behind(s, v, maxLen, 10, FALSE)
           part == IntegerPart(Blank, negative, v, maxLen)
<1>0. /\ s \in Text /\ t \in Text /\ w \in Text /\ Len(w) = Len(s) + Len(t)
      /\ Len(s) \in Nat /\ Len(t) \in Nat /\ Len(t) >= 1
    <2>1. s \in Text /\ t \in Text /\ Len(t) >= 1
        BY DEF IsSign, IsNumeral
    <2> QED BY <2>1, ConcatTyped
<1>10. Ending(FALSE) = << >>
    BY DEF Ending
<1>1. negative => Len(s) = 1
    BY DEF IsSign
<1> HIDE DEF w
<1>9. maxLen = 0 \/ Len(s) + Len(t) <= maxLen
    BY <1>0 DEF w
<1>2. maxLen # 1 \/ ~negative
    <2>1. ASSUME negative, maxLen = 1 PROVE FALSE
        <3>1. Len(s) = 1
            BY <1>1, <2>1
        <3> QED BY <1>0, <1>9, <2>1, <3>1
    <2> QED BY <2>1
<1>3. FitsBehind(s, t, maxLen, FALSE)
    BY <1>0, <1>9, FitsUnterminated
<1>4. AllBehind(number, s, t, FALSE)
    <2>1. FALSE \in BOOLEAN /\ 10 \in 2 .. 36
        OBVIOUS
    <2> QED BY <1>0, <1>3, <2>1, BehindFits
<1> HIDE DEF number, part
<1>5. number.length = Len(t) /\ number.memory = Stored(Blank, 0, w)
    <2>1. w \o << >> = w
        BY <1>0, ConcatEmpty
    <2> QED BY <1>0, <1>4, <1>10, <2>1 DEF AllBehind, w
<1>6. PartOutcome(part, s, number, maxLen)
    <2>1. number = Behind(s, v, maxLen, 10, FALSE)
        BY DEF number
    <2> QED BY <1>2, <2>1, IntegerPartIs DEF part
<1>7. maxLen # 0 => ShorterOf(Len(t), LimitFrom(maxLen, Len(s))) = Len(t)
    BY <1>0, <1>3 DEF ShorterOf, LimitFrom, FitsBehind
<1>8. part.length = Len(w)
    BY <1>0, <1>5, <1>6, <1>7 DEF PartOutcome
<1> QED BY <1>5, <1>6, <1>8 DEF Writes, PartOutcome, part, w

(* and fills the buffer if it does not.                                    *)
LEMMA IntegerPartIsCut ==
    ASSUME NEW negative \in BOOLEAN, NEW v \in Nat, NEW t, IsNumeral(t, v, 10),
           NEW maxLen \in 0 .. MaxLen, NEW s, IsSign(s, negative),
           maxLen >= 2, Len(s \o t) > maxLen
    PROVE  \E y \in Text : /\ Starts(y, s \o t) /\ Len(y) = maxLen
                           /\ Writes(IntegerPart(Blank, negative, v, maxLen), y)
<1> DEFINE w == s \o t
           number == Behind(s, v, maxLen, 10, FALSE)
           part == IntegerPart(Blank, negative, v, maxLen)
<1>0. /\ s \in Text /\ t \in Text /\ w \in Text /\ Len(w) = Len(s) + Len(t)
      /\ Len(s) \in Nat /\ Len(s) <= 1 /\ Len(t) \in Nat /\ Len(t) >= 1 /\ maxLen \in Nat
    <2>1. s \in Text /\ t \in Text /\ Len(t) >= 1 /\ Len(s) <= 1
        BY DEF IsSign, IsNumeral
    <2> QED BY <2>1, ConcatTyped, MaxLenAssumption
<1>8. Len(s) + Len(t) > maxLen
    BY <1>0
<1>1. Len(s) < maxLen /\ Len(s) <= maxLen /\ ~FitsBehind(s, t, maxLen, FALSE)
    <2>1. Len(s) < maxLen /\ Len(s) <= maxLen /\ ~(maxLen = 0 \/ Len(s) + Len(t) <= maxLen)
        BY <1>0, <1>8
    <2> QED BY <1>0, <2>1, FitsUnterminated
<1>2. CutBehind(number, s, t, maxLen, FALSE)
    <2>1. FALSE \in BOOLEAN /\ 10 \in 2 .. 36
        OBVIOUS
    <2> QED BY <1>0, <1>1, <2>1, BehindIsCut
<1> HIDE DEF number, part, w
<1>3. PICK y \in Text : Starts(y, w) /\ Len(y) = maxLen /\ number.memory = Stored(Blank, 0, y)
    BY <1>1, <1>2 DEF CutBehind, w
<1>4. number.length = Len(t)
    BY <1>2 DEF CutBehind
<1>5. PartOutcome(part, s, number, maxLen)
    <2>1. maxLen # 1 \/ ~negative
        BY <1>0
    <2>2. number = Behind(s, v, maxLen, 10, FALSE)
        BY DEF number
    <2> QED BY <1>0, <2>1, <2>2, IntegerPartIs DEF part
<1>6. Len(s) + ShorterOf(Len(t), LimitFrom(maxLen, Len(s))) = maxLen /\ maxLen # 0
    BY <1>0, <1>1, <1>8 DEF ShorterOf, LimitFrom
<1>7. Writes(part, y)
    BY <1>3, <1>4, <1>5, <1>6 DEF Writes, PartOutcome
<1> QED BY <1>3, <1>7 DEF part, w

-----------------------------------------------------------------------------
(* The point and what stands behind it.                                    *)
ZerosWritten(missing, point, maxLen, terminator) ==
    IF missing < 0 THEN 0
    ELSE IF maxLen = 0 THEN missing
    ELSE ShorterOf(missing, maxLen - Terminators(terminator) - point)

ToPoint(w, z) == w \o (<<Point>> \o Zeros(z))

(* A text of zeros.                                                        *)
LEMMA ZerosTyped ==
    ASSUME NEW n \in Nat
    PROVE  Zeros(n) \in Text /\ Len(Zeros(n)) = n /\ \A i \in 1 .. n : Zeros(n)[i] = 0
<1> DEFINE z == Zeros(n)
<1>1. z = [i \in 1 .. n |-> 0]
    BY DEF Zeros
<1> HIDE DEF z
<1>2. z \in [1 .. n -> Int]
    BY <1>1
<1>3. z \in Seq(Int) /\ Len(z) = n /\ \A i \in 1 .. n : z[i] = 0
    BY <1>1, <1>2
<1> QED BY <1>3 DEF z, Text

(* A text, the point and zeros.                                            *)
LEMMA ToPointTyped ==
    ASSUME NEW w \in Text, NEW z \in Nat
    PROVE  ToPoint(w, z) \in Text /\ Len(ToPoint(w, z)) = Len(w) + 1 + z
<1>1. <<Point>> \in Text /\ Len(<<Point>>) = 1
    BY SingleTyped DEF Point
<1>2. Zeros(z) \in Text /\ Len(Zeros(z)) = z
    BY ZerosTyped
<1>3. <<Point>> \o Zeros(z) \in Text /\ Len(<<Point>> \o Zeros(z)) = 1 + z
    BY <1>1, <1>2, ConcatTyped
<1> DEFINE b == <<Point>> \o Zeros(z)
<1> HIDE DEF b
<1>4. w \o b \in Text /\ Len(w \o b) = Len(w) + (1 + z) /\ Len(w) \in Nat
    BY <1>3, ConcatTyped DEF b
<1> QED BY <1>4 DEF ToPoint, b

(* The point and the zeros are stored one behind the other, and behind     *)
(* them the digits.                                                        *)
LEMMA FractionPartIs ==
    ASSUME NEW w \in Text, NEW before, Writes(before, w), NEW f, NEW t, IsNumeral(t, f, 10),
           NEW maxLen, NEW precision, NEW terminator,
           NEW z \in Nat, z = ZerosWritten(precision - Len(t), Len(w) + 1, maxLen, terminator),
           NEW s, s = ToPoint(w, z), NEW number, number = Behind(s, f, maxLen, 10, terminator)
    PROVE  IntOutcome(FractionPart(before, f, maxLen, precision, terminator),
                      s, number, maxLen, terminator)
<1>1. s \in Text /\ Len(s) = Len(w) + 1 + z
    BY ToPointTyped
<1>2. Stored(before.memory, before.length, <<Point>> \o Zeros(z)) = Stored(Blank, 0, s)
    <2>1. <<Point>> \o Zeros(z) \in Text
        BY SingleTyped, ZerosTyped, ConcatTyped DEF Point
    <2> DEFINE b == <<Point>> \o Zeros(z)
    <2> HIDE DEF b
    <2>2. Stored(Stored(Blank, 0, w), Len(w), b) = Stored(Blank, 0, w \o b)
        BY <2>1, StoredInBlank DEF b
    <2> QED BY <2>2 DEF Writes, ToPoint, b
<1>3. Generated(f, 10) = t /\ before.length = Len(w)
    BY DEF IsNumeral, Writes
<1>4. FractionPart(before, f, maxLen, precision, terminator) =
          [memory |-> number.memory,
           length |-> Len(w) + 1 + z + IF maxLen # 0 /\ number.length > LimitFrom(maxLen, Len(w) + 1 + z)
                                   THEN LimitFrom(maxLen, Len(w) + 1 + z) - Terminators(terminator)
                                   ELSE number.length]
    <2>1. number = UintToString(Stored(before.memory, before.length, <<Point>> \o Zeros(z)),
                                Len(w) + 1 + z, f, LimitFrom(maxLen, Len(w) + 1 + z), 10, terminator)
        BY <1>1, <1>2 DEF Behind
    <2> QED BY <1>3, <2>1, Zenon DEF FractionPart, ZerosWritten, Zeros
<1> QED BY <1>1, <1>4 DEF IntOutcome

(* The decimals: the point, leading zeros, and the digits of the fraction. *)
LEMMA DecimalsAre ==
    ASSUME NEW precision \in Nat, precision > 0, NEW f \in Nat, f < Power(10, precision)
    PROVE  \E t : /\ IsNumeral(t, f, 10) /\ Len(t) <= precision
                  /\ Decimals(f, precision) = <<Point>> \o (Zeros(precision - Len(t)) \o t)
<1>0. 10 \in Nat /\ 10 >= 2 /\ 10 \in 2 .. 36 /\ precision >= 1
    OBVIOUS
<1>1. PICK n \in 1 .. precision : HasDigits(f, 10, n)
    BY <1>0, DigitsAreFound
<1>2. n \in Nat /\ n >= 1 /\ n <= precision /\ f < Power(10, n)
    BY <1>1 DEF HasDigits
<1> DEFINE t == DigitsOf(f, 10, n)
<1>3. IsNumeral(t, f, 10) /\ Len(t) = n
    BY <1>0, <1>1, <1>2, DigitsAreNumeral
<1>4. DigitsOf(f, 10, precision) = Zeros(precision - n) \o t
    <2> DEFINE ten == 10
    <2>1. ten \in Nat /\ ten >= 2 /\ f < Power(ten, n)
        BY <1>2
    <2> HIDE DEF ten
    <2>2. LedByZeros(f, ten, n, precision)
        BY <1>2, <2>1, LeadingZeros
    <2> QED BY <2>2 DEF ten, LedByZeros
<1> HIDE DEF t
<1>5. Decimals(f, precision) = <<Point>> \o (Zeros(precision - Len(t)) \o t)
    <2>1. Decimals(f, precision) = <<Point>> \o DigitsOf(f, 10, precision)
        BY <1>0 DEF Decimals
    <2> QED BY <1>3, <1>4, <2>1
<1>6. IsNumeral(t, f, 10) /\ Len(t) <= precision
    BY <1>2, <1>3
<1> QED BY <1>5, <1>6, Zenon

(* All that is written if there is place for it.                           *)
LEMMA DecimalsBehind ==
    ASSUME NEW w \in Text, NEW z \in Nat, NEW t \in Text
    PROVE  /\ ToPoint(w, z) \o t = w \o (<<Point>> \o (Zeros(z) \o t))
           /\ w \o (<<Point>> \o (Zeros(z) \o t)) \in Text
           /\ Len(w \o (<<Point>> \o (Zeros(z) \o t))) = Len(w) + 1 + z + Len(t)
<1> DEFINE p == <<Point>>
           o == Zeros(z)
<1>1. p \in Text /\ o \in Text
    BY SingleTyped, ZerosTyped DEF Point
<1>2. ToPoint(w, z) = w \o (p \o o)
    BY DEF ToPoint
<1>3. ToPoint(w, z) \in Text /\ Len(ToPoint(w, z)) = Len(w) + 1 + z
    BY ToPointTyped
<1> HIDE DEF p, o
<1>4. p \o o \in Text
    BY <1>1, ConcatTyped
<1>5. w \o ((p \o o) \o t) = (w \o (p \o o)) \o t
    BY <1>4, ConcatInThree
<1>6. p \o (o \o t) = (p \o o) \o t
    BY <1>1, ConcatInThree
<1>7. ToPoint(w, z) \o t = w \o (p \o (o \o t))
    BY <1>2, <1>5, <1>6
<1>8. ToPoint(w, z) \o t \in Text /\ Len(ToPoint(w, z) \o t) = Len(w) + 1 + z + Len(t)
    BY <1>3, ConcatTyped
<1> QED BY <1>7, <1>8 DEF p, o

(* What fits is exact, and so is the length that is returned.              *)
LEMMA OutcomeIsExact ==
    ASSUME NEW s \in Text, NEW t \in Text, NEW maxLen \in Nat, NEW terminator \in BOOLEAN,
           FitsBehind(s, t, maxLen, terminator), NEW number, AllBehind(number, s, t, terminator),
           NEW o, IntOutcome(o, s, number, maxLen, terminator)
    PROVE  Exactly(o, s \o t, terminator)
<1> DEFINE w == s \o t
           end == Terminators(terminator)
<1>1. Len(w) = Len(s) + Len(t) /\ Len(s) \in Nat /\ Len(t) \in Nat
    BY ConcatTyped
<1>2. end \in 0 .. 1 /\ (maxLen = 0 \/ Len(s) + Len(t) + end <= maxLen)
    BY DEF FitsBehind, Terminators
<1>3. number.length = Len(t) /\ number.memory = Stored(Blank, 0, w \o Ending(terminator))
    BY DEF AllBehind
<1> HIDE DEF w, end
<1>4. ~(maxLen # 0 /\ Len(t) > LimitFrom(maxLen, Len(s)))
    BY <1>1, <1>2 DEF LimitFrom
<1>5. o.memory = number.memory
    BY DEF IntOutcome
<1>6. o.length = Len(s) + Len(t)
    BY <1>3, <1>4 DEF IntOutcome
<1> QED BY <1>1, <1>3, <1>5, <1>6 DEF Exactly, w

FractionFitsIn(w, precision, maxLen, terminator) ==
    maxLen = 0 \/ Len(w) + 1 + precision + Terminators(terminator) <= maxLen

Fractional(t, precision) == <<Point>> \o (Zeros(precision - Len(t)) \o t)

(* A fraction that fits is written with its leading zeros.                 *)
LEMMA FractionFits ==
    ASSUME NEW w \in Text, NEW before, Writes(before, w), NEW f \in Nat, NEW t, IsNumeral(t, f, 10),
           NEW precision \in Nat, Len(t) <= precision,
           NEW maxLen \in Nat, NEW terminator \in BOOLEAN,
           FractionFitsIn(w, precision, maxLen, terminator)
    PROVE  Exactly(FractionPart(before, f, maxLen, precision, terminator),
                   w \o Fractional(t, precision), terminator)
<1> DEFINE z == precision - Len(t)
           s == ToPoint(w, z)
           number == Behind(s, f, maxLen, 10, terminator)
           o == FractionPart(before, f, maxLen, precision, terminator)
<1>0. t \in Text /\ Len(t) \in Nat /\ Len(w) \in Nat /\ z \in Nat
    BY DEF IsNumeral, Text
<1>1. z = ZerosWritten(z, Len(w) + 1, maxLen, terminator)
    <2> DEFINE end == Terminators(terminator)
    <2>1. end \in 0 .. 1 /\ (maxLen = 0 \/ Len(w) + 1 + precision + end <= maxLen)
        BY DEF FractionFitsIn, Terminators
    <2> HIDE DEF end
    <2>2. ~(z < 0) /\ (maxLen = 0 \/ z <= maxLen - end - (Len(w) + 1))
        BY <1>0, <2>1
    <2>3. maxLen = 0 \/ ShorterOf(z, maxLen - end - (Len(w) + 1)) = z
        BY <1>0, <2>1, <2>2 DEF ShorterOf
    <2> HIDE DEF z
    <2> QED BY <2>2, <2>3 DEF ZerosWritten, end
<1>2. s \in Text /\ Len(s) = Len(w) + 1 + z
    BY <1>0, ToPointTyped
<1>3. FitsBehind(s, t, maxLen, terminator)
    <2> DEFINE end == Terminators(terminator)
    <2>1. end \in 0 .. 1 /\ (maxLen = 0 \/ Len(w) + 1 + precision + end <= maxLen)
        BY DEF FractionFitsIn, Terminators
    <2> HIDE DEF end
    <2>2. maxLen = 0 \/ Len(s) + Len(t) + end <= maxLen
        <3> HIDE DEF s
        <3> QED BY <1>0, <1>2, <2>1
    <2> HIDE DEF s
    <2> QED BY <2>2 DEF FitsBehind, end
<1>4. s \o t = w \o Fractional(t, precision)
    BY <1>0, DecimalsBehind DEF Fractional
<1> HIDE DEF s
<1>5. AllBehind(number, s, t, terminator)
    <2>1. 10 \in 2 .. 36
        OBVIOUS
    <2> QED BY <1>2, <1>3, <2>1, BehindFits
<1>6. IntOutcome(o, s, number, maxLen, terminator)
    <2>1. number = Behind(s, f, maxLen, 10, terminator) /\ s = ToPoint(w, z)
        BY DEF s
    <2> HIDE DEF number
    <2> QED BY <1>0, <1>1, <2>1, FractionPartIs
<1> HIDE DEF number, o
<1>7. Exactly(o, s \o t, terminator)
    BY <1>0, <1>2, <1>3, <1>5, <1>6, OutcomeIsExact
<1> QED BY <1>4, <1>7 DEF o

(* With fewer zeros than are missing a text is still a beginning.          *)
LEMMA FewerZerosStart ==
    ASSUME NEW w \in Text, NEW z \in Nat, NEW missing \in Nat, z <= missing, NEW t \in Text
    PROVE  Starts(ToPoint(w, z), w \o (<<Point>> \o (Zeros(missing) \o t)))
<1> DEFINE a == Zeros(z)
           b == Zeros(missing)
           p == <<Point>>
<1>1. /\ a \in Text /\ Len(a) = z /\ (\A i \in 1 .. z : a[i] = 0)
      /\ b \in Text /\ Len(b) = missing /\ (\A i \in 1 .. missing : b[i] = 0)
      /\ p \in Text
    BY ZerosTyped, SingleTyped DEF Point
<1>2. ToPoint(w, z) = w \o (p \o a)
    BY DEF ToPoint
<1> HIDE DEF a, b, p
<1>3. Starts(b, b \o t) /\ b \o t \in Text /\ Len(b) <= Len(b \o t)
    BY <1>1, StartsConcat, ConcatTyped DEF Starts
<1> DEFINE c == b \o t
<1> HIDE DEF c
<1>4. Starts(a, c)
    <2>1. Starts(b, c) /\ c \in Text /\ Len(c) \in Nat
        BY <1>3 DEF c, Text
    <2> QED BY <1>1, <2>1 DEF Starts
<1>5. Starts(p \o a, p \o c) /\ p \o a \in Text /\ p \o c \in Text
    <2>1. c \in Text
        BY <1>3 DEF c
    <2> QED BY <1>1, <1>4, <2>1, StartsBehind, ConcatTyped
<1>6. Starts(w \o (p \o a), w \o (p \o c))
    BY <1>5, StartsBehind
<1> QED BY <1>2, <1>6 DEF b, c, p

(* What is cut before two texts differ shows either.                       *)
LEMMA ShownOfAnother ==
    ASSUME NEW memory, NEW s \in Text, NEW w \in Text, NEW maxLen \in Nat,
           NEW other, Starts(s, other), Starts(s, w), Len(s) >= maxLen,
           Partly(memory, other, maxLen)
    PROVE  Partly(memory, w, maxLen)
<1>1. PICK k \in Nat : Shows(memory, other, maxLen, k)
    BY DEF Partly
<1> DEFINE j == IF k <= Len(s) THEN k ELSE Len(s)
<1>2. Len(s) \in Nat /\ Len(w) \in Nat /\ Len(s) <= Len(w)
    BY DEF Text, Starts
<1>3. j \in Nat /\ j <= k /\ j <= Len(s) /\ j \in 0 .. Len(w) /\ (j = k \/ j = Len(s))
    BY <1>2
<1> HIDE DEF j
<1>4. ASSUME NEW i \in 0 .. maxLen - 1, i < j PROVE memory[i] = w[i + 1]
    <2>1. i < k /\ i + 1 \in 1 .. Len(s)
        BY <1>2, <1>3, <1>4
    <2>2. memory[i] = other[i + 1]
        BY <1>1, <2>1 DEF Shows
    <2>3. s[i + 1] = other[i + 1] /\ s[i + 1] = w[i + 1]
        BY <2>1 DEF Starts
    <2> QED BY <2>2, <2>3
<1>5. ASSUME NEW i \in 0 .. maxLen - 1, i >= j PROVE memory[i] \in {Untouched, Nul}
    <2>1. i >= k
        BY <1>2, <1>3, <1>5
    <2> QED BY <1>1, <2>1 DEF Shows
<1>6. Shows(memory, w, maxLen, j)
    BY <1>3, <1>4, <1>5 DEF Shows
<1> QED BY <1>3, <1>6 DEF Partly

(* Of a fraction that does not fit a beginning is shown: if there is not   *)
(* place for all zeros, no digit is written behind them.                   *)
LEMMA FractionIsCut ==
    ASSUME NEW w \in Text, NEW before, Writes(before, w), NEW f \in Nat, NEW t, IsNumeral(t, f, 10),
           NEW precision \in Nat, Len(t) <= precision,
           NEW maxLen \in 0 .. MaxLen, NEW terminator \in BOOLEAN,
           Len(w) < maxLen - 1, ~FractionFitsIn(w, precision, maxLen, terminator)
    PROVE  Partly(FractionPart(before, f, maxLen, precision, terminator).memory,
                  w \o Fractional(t, precision), maxLen)
<1>0. /\ t \in Text /\ Len(t) \in Nat /\ Len(t) >= 1 /\ Len(w) \in Nat /\ maxLen \in Nat
    BY MaxLenAssumption DEF IsNumeral, Text
<1>e. PICK end : end = Terminators(terminator)
    OBVIOUS
<1>f. end \in Nat /\ end <= 1
    BY <1>e DEF Terminators
<1>1. maxLen # 0 /\ Len(w) + 1 + precision + end > maxLen
    <2>1. ~(maxLen = 0 \/ Len(w) + 1 + precision + end <= maxLen)
        BY <1>e DEF FractionFitsIn
    <2> QED BY <1>0, <1>f, <2>1
<1>m. PICK missing : missing = precision - Len(t)
    OBVIOUS
<1>r. PICK room : room = maxLen - end - (Len(w) + 1)
    OBVIOUS
<1>z. PICK z : z = ShorterOf(missing, room)
    OBVIOUS
<1>2. /\ missing \in Nat /\ room \in Nat /\ z \in Nat /\ z <= missing
      /\ z = missing \/ z = room
      /\ Len(w) + 1 + z <= maxLen /\ Len(w) + 1 + z + Len(t) + end > maxLen
      /\ z = room => Len(w) + 1 + z + end = maxLen
    <2>1. PICK l : l = Len(w)
        OBVIOUS
    <2>2. PICK k : k = Len(t)
        OBVIOUS
    <2>3. /\ missing \in Nat /\ room \in Nat /\ z \in Nat /\ z <= missing
          /\ z = missing \/ z = room
          /\ l + 1 + z <= maxLen /\ l + 1 + z + k + end > maxLen
          /\ z = room => l + 1 + z + end = maxLen
        <3>1. /\ l \in Nat /\ k \in Nat /\ k >= 1 /\ k <= precision
              /\ l < maxLen - 1 /\ l + 1 + precision + end > maxLen
              /\ missing = precision - k /\ room = maxLen - end - (l + 1)
            BY <1>0, <1>1, <1>m, <1>r, <2>1, <2>2
        <3> QED BY <1>0, <1>f, <1>z, <3>1 DEF ShorterOf
    <2> QED BY <2>1, <2>2, <2>3
<1>3. z = ZerosWritten(precision - Len(t), Len(w) + 1, maxLen, terminator)
    <2>1. z = ShorterOf(precision - Len(t), maxLen - Terminators(terminator) - (Len(w) + 1))
        BY <1>e, <1>m, <1>r, <1>z
    <2>2. ~(precision - Len(t) < 0)
        BY <1>0
    <2> QED BY <1>1, <2>1, <2>2, Zenon DEF ZerosWritten
<1>s. PICK s : s = ToPoint(w, z)
    OBVIOUS
<1>4. s \in Text /\ Len(s) = Len(w) + 1 + z
    BY <1>2, <1>s, ToPointTyped
<1>n. PICK number : number = Behind(s, f, maxLen, 10, terminator)
    OBVIOUS
<1>o. PICK o : o = FractionPart(before, f, maxLen, precision, terminator)
    OBVIOUS
<1>5. o.memory = number.memory
    <2>1. IntOutcome(o, s, number, maxLen, terminator)
        BY <1>2, <1>3, <1>s, <1>n, <1>o, FractionPartIs
    <2> QED BY <2>1 DEF IntOutcome
<1>w. PICK wanted : wanted = w \o Fractional(t, precision)
    OBVIOUS
<1>6. wanted \in Text /\ wanted = w \o (<<Point>> \o (Zeros(missing) \o t))
    BY <1>0, <1>2, <1>m, <1>w, DecimalsBehind DEF Fractional
<1>7. Starts(s, wanted)
    BY <1>0, <1>2, <1>6, <1>s, FewerZerosStart
<1>8. z = missing => s \o t = wanted
    <2>1. s \o t = w \o (<<Point>> \o (Zeros(z) \o t))
        BY <1>0, <1>2, <1>s, DecimalsBehind
    <2> QED BY <1>6, <2>1
<1>10. 10 \in 2 .. 36
    OBVIOUS
<1>11. Len(s) <= maxLen /\ Len(s) + Len(t) + end > maxLen
    BY <1>2, <1>4
<1>12. ~FitsBehind(s, t, maxLen, terminator)
    <2>1. Len(s) \in Nat
        BY <1>4 DEF Text
    <2>2. ~(maxLen = 0 \/ Len(s) + Len(t) + end <= maxLen)
        BY <1>0, <1>1, <1>f, <1>11, <2>1
    <2> QED BY <2>2, <1>e DEF FitsBehind
<1>13. CutBehind(number, s, t, maxLen, terminator)
    BY <1>4, <1>10, <1>11, <1>12, <1>n, BehindIsCut
<1>14. Partly(number.memory, s \o t, maxLen)
    BY <1>13 DEF CutBehind, Partly
<1>15. CASE z = missing
    <2>1. Partly(o.memory, wanted, maxLen)
        BY <1>5, <1>8, <1>14, <1>15
    <2> QED BY <2>1, <1>o, <1>w
<1>16. CASE z = room /\ ~terminator
    <2>1. end = 0
        BY <1>16, <1>e DEF Terminators
    <2>2. Len(s) >= maxLen
        BY <1>0, <1>2, <1>4, <1>16, <2>1
    <2>3. Starts(s, s \o t)
        BY <1>0, <1>4, StartsConcat
    <2>5. PICK other : other = s \o t
        OBVIOUS
    <2>4. Partly(number.memory, wanted, maxLen)
        <3>1. Starts(s, other) /\ Partly(number.memory, other, maxLen)
            BY <1>14, <2>3, <2>5
        <3>2. PICK memory : memory = number.memory
            OBVIOUS
        <3>3. Partly(memory, wanted, maxLen)
            BY <1>0, <1>4, <1>6, <1>7, <2>2, <3>1, <3>2, ShownOfAnother
        <3> QED BY <3>2, <3>3
    <2> QED BY <1>5, <1>o, <1>w, <2>4
<1>17. CASE z = room /\ terminator
    <2>1. end = 1
        BY <1>17, <1>e DEF Terminators
    <2>2. LimitFrom(maxLen, Len(s)) = 1
        <3>1. Len(s) + 1 = maxLen /\ Len(s) \in Nat
            BY <1>0, <1>2, <1>4, <1>17, <2>1
        <3> QED BY <1>0, <1>1, <3>1 DEF LimitFrom
    <2>3. number = [memory |-> Stored(Blank, 0, s), length |-> 0]
        <3>1. number = UintToString(Stored(Blank, 0, s), Len(s), f, 1, 10, terminator)
            BY <1>n, <2>2 DEF Behind
        <3> QED BY <1>17, <3>1 DEF UintToString
    <2>4. Shows(Stored(Blank, 0, s), wanted, maxLen, Len(s)) /\ Len(s) \in Nat
        <3>1. Shows(Stored(Blank, 0, s), wanted, maxLen, Len(s))
            BY <1>4, <1>6, <1>7, BeginningIsShown
        <3> QED BY <1>4, <3>1 DEF Text
    <2>5. Partly(number.memory, wanted, maxLen)
        BY <2>3, <2>4 DEF Partly
    <2> QED BY <1>5, <1>o, <1>w, <2>5
<1> QED BY <1>2, <1>15, <1>16, <1>17

-----------------------------------------------------------------------------
(* Floating numbers as a whole.                                            *)
EndAt(length, maxLen) == IF maxLen = 0 \/ length < maxLen THEN length ELSE maxLen - 1

TooSmall(maxLen, precision) == maxLen # 0 /\ precision > 0 /\ maxLen < 3

WithFraction(length, maxLen, precision) == precision > 0 /\ (maxLen = 0 \/ length < maxLen - 1)

PlainOutcome(o, before, maxLen, terminator) ==
    /\ o.length = before.length
    /\ terminator => o.memory = Stored(before.memory, EndAt(before.length, maxLen), <<Nul>>)
    /\ ~terminator => o.memory = before.memory

FloatOutcome(o, before, f, maxLen, precision, terminator) ==
    /\ TooSmall(maxLen, precision) => o.memory = Blank
    /\ ~TooSmall(maxLen, precision) /\ WithFraction(before.length, maxLen, precision)
         => o = FractionPart(before, f, maxLen, precision, terminator)
    /\ ~TooSmall(maxLen, precision) /\ ~WithFraction(before.length, maxLen, precision)
         => PlainOutcome(o, before, maxLen, terminator)

(* The three ways on from the part before the point.                       *)
LEMMA FloatIs ==
    ASSUME NEW negative, NEW v, NEW f, NEW maxLen, NEW precision, NEW terminator \in BOOLEAN,
           NEW before, before = IntegerPart(Blank, negative, v, maxLen),
           before = [memory |-> before.memory, length |-> before.length],
           NEW o, o = FloatToString(Blank, negative, v, f, maxLen, precision, terminator)
    PROVE  FloatOutcome(o, before, f, maxLen, precision, terminator)
<1>1. CASE TooSmall(maxLen, precision)
    <2>1. o = [memory |-> Blank, length |-> 0]
        BY <1>1 DEF FloatToString, TooSmall
    <2> QED BY <1>1, <2>1 DEF FloatOutcome
<1>2. CASE ~TooSmall(maxLen, precision) /\ WithFraction(before.length, maxLen, precision)
    <2>1. o = FractionPart(before, f, maxLen, precision, terminator)
        BY <1>2 DEF FloatToString, TooSmall, WithFraction
    <2> QED BY <1>2, <2>1 DEF FloatOutcome
<1>3. CASE ~TooSmall(maxLen, precision) /\ ~WithFraction(before.length, maxLen, precision)
    <2>1. CASE terminator
        <3>1. o = [before EXCEPT !.memory = Stored(@, EndAt(before.length, maxLen), <<Nul>>)]
            BY <1>3, <2>1 DEF FloatToString, TooSmall, WithFraction, EndAt
        <3>2. /\ o.memory = Stored(before.memory, EndAt(before.length, maxLen), <<Nul>>)
              /\ o.length = before.length
            BY <3>1
        <3> QED BY <1>3, <2>1, <3>2 DEF FloatOutcome, PlainOutcome
    <2>2. CASE ~terminator
        <3>1. o = before
            BY <1>3, <2>2 DEF FloatToString, TooSmall, WithFraction
        <3> QED BY <1>3, <2>2, <3>1 DEF FloatOutcome, PlainOutcome
    <2> QED BY <2>1, <2>2
<1> QED BY <1>1, <1>2, <1>3

(* A number without a fraction gets its terminator behind it,              *)
LEMMA PlainFits ==
    ASSUME NEW w \in Text, NEW before, Writes(before, w), NEW maxLen \in Nat,
           NEW terminator \in BOOLEAN, FitsIn(w, maxLen, terminator),
           NEW o, PlainOutcome(o, before, maxLen, terminator)
    PROVE  Exactly(o, w, terminator)
<1>1. before.memory = Stored(Blank, 0, w) /\ before.length = Len(w) /\ o.length = Len(w)
    BY DEF Writes, PlainOutcome
<1>2. Stored(Blank, 0, w) \in Block /\ w \o << >> = w /\ Len(w) \in Nat
    BY StoredInBlank, ConcatEmpty DEF Text
<1>3. CASE terminator
    <2>1. Ending(terminator) = <<Nul>> /\ <<Nul>> \in Text
        BY <1>3, SingleTyped DEF Ending, Nul
    <2>2. PICK end : end = Terminators(terminator)
        OBVIOUS
    <2>3. end = 1
        BY <1>3, <2>2, Zenon DEF Terminators
    <2>4. maxLen = 0 \/ Len(w) + end <= maxLen
        BY <2>2 DEF FitsIn
    <2>5. EndAt(Len(w), maxLen) = Len(w)
        BY <1>2, <2>3, <2>4 DEF EndAt
    <2>6. o.memory = Stored(Stored(Blank, 0, w), Len(w), <<Nul>>)
        BY <1>1, <1>3, <2>5 DEF PlainOutcome
    <2>7. o.memory = Stored(Blank, 0, w \o <<Nul>>)
        BY <2>1, <2>6, StoredInBlank
    <2> QED BY <1>1, <2>1, <2>7 DEF Exactly
<1>4. CASE ~terminator
    <2>1. Ending(terminator) = << >>
        BY <1>4 DEF Ending
    <2>2. o.memory = Stored(Blank, 0, w)
        BY <1>1, <1>4 DEF PlainOutcome
    <2> QED BY <1>1, <1>2, <2>1, <2>2 DEF Exactly
<1> QED BY <1>3, <1>4

(* or, if it was cut, in the last cell of the buffer.                      *)
LEMMA PlainIsCut ==
    ASSUME NEW y \in Text, NEW before, Writes(before, y), NEW wanted \in Text, Starts(y, wanted),
           NEW maxLen \in 0 .. MaxLen, maxLen # 0,
           NEW terminator \in BOOLEAN, NEW o, PlainOutcome(o, before, maxLen, terminator)
    PROVE  Partly(o.memory, wanted, maxLen)
<1>1. before.memory = Stored(Blank, 0, y) /\ before.length = Len(y)
    BY DEF Writes
<1>2. maxLen \in Nat /\ Len(y) \in Nat
    BY MaxLenAssumption DEF Text
<1>3. Stored(Blank, 0, y) \in Block
    BY StoredInBlank, EmptyText
<1>4. Shows(Stored(Blank, 0, y), wanted, maxLen, Len(y))
    BY BeginningIsShown
<1>5. CASE terminator
    <2>1. PICK e : e = EndAt(Len(y), maxLen)
        OBVIOUS
    <2>2. e \in Nat /\ (e >= Len(y) \/ e >= maxLen - 1)
        BY <1>2, <2>1 DEF EndAt
    <2>3. o.memory = Stored(Stored(Blank, 0, y), e, <<Nul>>)
        BY <1>1, <1>5, <2>1 DEF PlainOutcome
    <2>4. PICK b : b = Stored(Blank, 0, y)
        OBVIOUS
    <2>5. b \in Block /\ Shows(b, wanted, maxLen, Len(y))
        BY <1>3, <1>4, <2>4
    <2>6. \E j \in Nat : Shows(Stored(b, e, <<Nul>>), wanted, maxLen, j)
        BY <2>2, <2>5, TerminatedIsShown
    <2> QED BY <2>3, <2>4, <2>6 DEF Partly
<1>6. CASE ~terminator
    <2>1. o.memory = Stored(Blank, 0, y)
        BY <1>1, <1>6 DEF PlainOutcome
    <2> QED BY <1>2, <1>4, <2>1 DEF Partly
<1> QED BY <1>5, <1>6

(* The text of a floating number: what stands before the point and,        *)
(* behind it, the decimals.                                                *)
IsDecimals(d, f, precision) ==
    /\ precision = 0 => d = << >>
    /\ precision > 0 => \E t : IsNumeral(t, f, 10) /\ Len(t) <= precision /\ d = Fractional(t, precision)

(* The decimals that are asked for.                                        *)
LEMMA DecimalsAreDecimals ==
    ASSUME NEW precision \in Nat, NEW f \in Nat, f < Power(10, precision)
    PROVE  IsDecimals(Decimals(f, precision), f, precision)
<1>1. CASE precision = 0
    <2>1. Decimals(f, precision) = << >>
        BY <1>1 DEF Decimals
    <2> QED BY <1>1, <2>1 DEF IsDecimals
<1>2. CASE precision > 0
    <2>1. PICK t : /\ IsNumeral(t, f, 10) /\ Len(t) <= precision
                   /\ Decimals(f, precision) = <<Point>> \o (Zeros(precision - Len(t)) \o t)
        BY <1>2, DecimalsAre
    <2>2. Decimals(f, precision) = Fractional(t, precision)
        BY <2>1 DEF Fractional
    <2>3. precision # 0
        BY <1>2
    <2>4. \E u : IsNumeral(u, f, 10) /\ Len(u) <= precision
                 /\ Decimals(f, precision) = Fractional(u, precision)
        BY <2>1, <2>2
    <2> QED BY <2>3, <2>4, Zenon DEF IsDecimals
<1> QED BY <1>1, <1>2

(* The length of the decimals.                                             *)
LEMMA FractionalTyped ==
    ASSUME NEW w \in Text, NEW f, NEW t, IsNumeral(t, f, 10), NEW precision \in Nat, Len(t) <= precision
    PROVE  /\ Fractional(t, precision) \in Text
           /\ Len(Fractional(t, precision)) = 1 + precision
<1>1. t \in Text /\ Len(t) \in Nat
    BY DEF IsNumeral, Text
<1>2. PICK z : z = precision - Len(t)
    OBVIOUS
<1>3. z \in Nat /\ z + Len(t) = precision
    BY <1>1, <1>2
<1>4. Zeros(z) \o t \in Text /\ Len(Zeros(z) \o t) = z + Len(t)
    <2>1. PICK a : a = Zeros(z)
        OBVIOUS
    <2>2. a \in Text /\ Len(a) = z
        BY <1>3, <2>1, ZerosTyped
    <2> QED BY <1>1, <2>1, <2>2, ConcatTyped
<1>5. PICK c : c = Zeros(z) \o t
    OBVIOUS
<1>6. PICK p : p = <<Point>>
    OBVIOUS
<1>7. p \in Text /\ Len(p) = 1
    BY <1>6, SingleTyped DEF Point
<1>8. p \o c \in Text /\ Len(p \o c) = 1 + precision
    BY <1>3, <1>4, <1>5, <1>7, ConcatTyped
<1> QED BY <1>2, <1>5, <1>6, <1>8 DEF Fractional

(* A beginning stays one if more is put behind the text.                   *)
LEMMA StartsMore ==
    ASSUME NEW y \in Text, NEW w \in Text, NEW d \in Text, Starts(y, w)
    PROVE  Starts(y, w \o d)
<1>1. PICK x : x = w \o d
    OBVIOUS
<1>2. Starts(w, x) /\ Len(y) \in Nat /\ Len(w) \in Nat /\ x \in Text
    BY <1>1, StartsConcat, ConcatTyped DEF Text
<1>3. Len(x) \in Nat
    BY <1>2 DEF Text
<1>4. Starts(y, x)
    BY <1>2, <1>3 DEF Starts
<1> QED BY <1>1, <1>4

(* FloatToString writes sign, digits and decimals if they fit,             *)
LEMMA FloatFits ==
    ASSUME NEW negative \in BOOLEAN, NEW v \in Nat, NEW t, IsNumeral(t, v, 10),
           NEW s, IsSign(s, negative), NEW f \in Nat, NEW precision \in Nat,
           NEW d, IsDecimals(d, f, precision),
           NEW maxLen \in Nat, NEW terminator \in BOOLEAN,
           FitsIn((s \o t) \o d, maxLen, terminator),
           NEW o, o = FloatToString(Blank, negative, v, f, maxLen, precision, terminator)
    PROVE  Exactly(o, (s \o t) \o d, terminator)
<1>1. PICK w : w = s \o t
    OBVIOUS
<1>2. s \in Text /\ t \in Text /\ Len(t) >= 1
    BY DEF IsSign, IsNumeral
<1>3. w \in Text /\ Len(w) = Len(s) + Len(t) /\ Len(s) \in Nat /\ Len(t) \in Nat
    BY <1>1, <1>2, ConcatTyped
<1>4. PICK end : end = Terminators(terminator)
    OBVIOUS
<1>5. end \in Nat /\ end <= 1
    BY <1>4 DEF Terminators
<1>6. PICK before : before = IntegerPart(Blank, negative, v, maxLen)
    OBVIOUS
<1>7. CASE precision = 0
    <2>1. w \o d = w
        BY <1>3, <1>7, ConcatEmpty DEF IsDecimals
    <2>2. FitsIn(w, maxLen, terminator)
        BY <1>1, <2>1
    <2>3. maxLen = 0 \/ Len(w) <= maxLen
        <3>1. maxLen = 0 \/ Len(w) + end <= maxLen
            BY <1>4, <2>2 DEF FitsIn
        <3> QED BY <1>3, <1>5, <3>1
    <2>4. Writes(before, w)
        BY <1>1, <1>6, <2>3, IntegerPartFits
    <2>5. FloatOutcome(o, before, f, maxLen, precision, terminator)
        BY <1>6, <2>4, FloatIs DEF Writes
    <2>6. ~TooSmall(maxLen, precision) /\ ~WithFraction(before.length, maxLen, precision)
        BY <1>7 DEF TooSmall, WithFraction
    <2>7. PlainOutcome(o, before, maxLen, terminator)
        BY <2>5, <2>6 DEF FloatOutcome
    <2>8. Exactly(o, w, terminator)
        BY <1>3, <2>2, <2>4, <2>7, PlainFits
    <2> QED BY <1>1, <2>1, <2>8
<1>8. CASE precision # 0
    <2>0. precision > 0
        BY <1>8
    <2>1. PICK u : IsNumeral(u, f, 10) /\ Len(u) <= precision /\ d = Fractional(u, precision)
        BY <2>0 DEF IsDecimals
    <2>2. d \in Text /\ Len(d) = 1 + precision
        BY <1>3, <2>1, FractionalTyped
    <2>3. Len(w \o d) = Len(w) + (1 + precision)
        BY <1>3, <2>2, ConcatTyped
    <2>4. maxLen = 0 \/ Len(w) + 1 + precision + end <= maxLen
        <3>1. maxLen = 0 \/ Len(w \o d) + end <= maxLen
            BY <1>1, <1>4 DEF FitsIn
        <3> QED BY <1>3, <1>5, <2>3, <3>1
    <2>5. maxLen = 0 \/ Len(w) <= maxLen
        BY <1>3, <1>5, <2>0, <2>4
    <2>6. Writes(before, w)
        BY <1>1, <1>6, <2>5, IntegerPartFits
    <2>7. FloatOutcome(o, before, f, maxLen, precision, terminator)
        BY <1>6, <2>6, FloatIs DEF Writes
    <2>8. ~TooSmall(maxLen, precision) /\ WithFraction(before.length, maxLen, precision)
        <3>1. before.length = Len(w) /\ Len(w) >= 1
            BY <1>2, <1>3, <2>6 DEF Writes
        <3> QED BY <1>3, <1>5, <2>0, <2>4, <3>1 DEF TooSmall, WithFraction
    <2>9. o = FractionPart(before, f, maxLen, precision, terminator)
        BY <2>7, <2>8 DEF FloatOutcome
    <2>10. FractionFitsIn(w, precision, maxLen, terminator)
        BY <1>4, <2>4 DEF FractionFitsIn
    <2>11. Exactly(o, w \o Fractional(u, precision), terminator)
        BY <1>3, <2>1, <2>6, <2>9, <2>10, FractionFits
    <2> QED BY <1>1, <2>1, <2>11
<1> QED BY <1>7, <1>8

(* and shows a beginning of them if they do not and there is place for     *)
(* more than one character.                                                *)
LEMMA FloatIsCut ==
    ASSUME NEW negative \in BOOLEAN, NEW v \in Nat, NEW t, IsNumeral(t, v, 10),
           NEW s, IsSign(s, negative), NEW f \in Nat, NEW precision \in Nat,
           NEW d, IsDecimals(d, f, precision),
           NEW maxLen \in 0 .. MaxLen, NEW terminator \in BOOLEAN,
           ~FitsIn((s \o t) \o d, maxLen, terminator), maxLen # 1,
           NEW o, o = FloatToString(Blank, negative, v, f, maxLen, precision, terminator)
    PROVE  Partly(o.memory, (s \o t) \o d, maxLen)
<1>1. PICK w : w = s \o t
    OBVIOUS
<1>2. s \in Text /\ t \in Text /\ Len(t) >= 1 /\ maxLen \in Nat
    BY MaxLenAssumption DEF IsSign, IsNumeral
<1>3. w \in Text /\ Len(w) = Len(s) + Len(t) /\ Len(s) \in Nat /\ Len(t) \in Nat
    BY <1>1, <1>2, ConcatTyped
<1>4. PICK end : end = Terminators(terminator)
    OBVIOUS
<1>5. end \in Nat /\ end <= 1
    BY <1>4 DEF Terminators
<1>6. PICK before : before = IntegerPart(Blank, negative, v, maxLen)
    OBVIOUS
<1>7. d \in Text /\ (precision > 0 => Len(d) = 1 + precision)
    <2>1. CASE precision = 0
        BY <2>1, EmptyText DEF IsDecimals
    <2>2. CASE precision # 0
        <3>1. precision > 0
            BY <2>2
        <3>2. PICK u : IsNumeral(u, f, 10) /\ Len(u) <= precision /\ d = Fractional(u, precision)
            BY <3>1 DEF IsDecimals
        <3> QED BY <1>3, <3>2, FractionalTyped
    <2> QED BY <2>1, <2>2
<1>8. PICK wanted : wanted = w \o d
    OBVIOUS
<1>9. wanted \in Text /\ Len(wanted) = Len(w) + Len(d) /\ Len(d) \in Nat
    BY <1>3, <1>7, <1>8, ConcatTyped
<1>10. maxLen # 0 /\ maxLen >= 2 /\ Len(wanted) + end > maxLen
    <2>1. ~(maxLen = 0 \/ Len(wanted) + end <= maxLen)
        BY <1>1, <1>4, <1>8 DEF FitsIn
    <2> QED BY <1>2, <1>5, <1>9, <2>1
<1>11. PICK y \in Text : /\ Writes(before, y) /\ Starts(y, w)
                         /\ Len(w) <= maxLen => y = w
                         /\ Len(w) > maxLen => Len(y) = maxLen
    <2>1. CASE Len(w) <= maxLen
        <3>1. Writes(before, w)
            BY <1>1, <1>2, <1>6, <2>1, IntegerPartFits
        <3>2. Starts(w, w) /\ ~(Len(w) > maxLen)
            BY <1>2, <1>3, <2>1, StartsItself
        <3> QED BY <1>3, <3>1, <3>2
    <2>2. CASE Len(w) > maxLen
        <3>1. \E x \in Text : Starts(x, w) /\ Len(x) = maxLen /\ Writes(before, x)
            BY <1>1, <1>6, <1>10, <2>2, IntegerPartIsCut
        <3>2. ~(Len(w) <= maxLen)
            BY <1>2, <1>3, <2>2
        <3> QED BY <3>1, <3>2
    <2> QED BY <1>2, <1>3, <2>1, <2>2
<1>17. Writes(before, y) /\ y \in Text
    BY <1>11, Zenon
<1>18. Starts(y, w)
    BY <1>11, Zenon
<1>19. (Len(w) <= maxLen => y = w) /\ (Len(w) > maxLen => Len(y) = maxLen)
    BY <1>11, Zenon
<1>12. Starts(y, wanted)
    BY <1>3, <1>7, <1>8, <1>17, <1>18, StartsMore
<1>13. FloatOutcome(o, before, f, maxLen, precision, terminator)
    BY <1>6, <1>17, FloatIs DEF Writes
<1>14. CASE TooSmall(maxLen, precision)
    <2>1. o.memory = Blank
        BY <1>13, <1>14 DEF FloatOutcome
    <2>2. Partly(Blank, wanted, maxLen)
        BY <1>9, NothingIsShown
    <2> QED BY <1>1, <1>8, <2>1, <2>2
<1>15. CASE ~TooSmall(maxLen, precision) /\ ~WithFraction(before.length, maxLen, precision)
    <2>1. PlainOutcome(o, before, maxLen, terminator)
        BY <1>13, <1>15 DEF FloatOutcome
    <2>2. Partly(o.memory, wanted, maxLen)
        BY <1>9, <1>10, <1>17, <1>12, <2>1, PlainIsCut
    <2> QED BY <1>1, <1>8, <2>2
<1>16. CASE ~TooSmall(maxLen, precision) /\ WithFraction(before.length, maxLen, precision)
    <2>1. precision > 0 /\ before.length < maxLen - 1 /\ before.length = Len(y)
        BY <1>10, <1>17, <1>16 DEF WithFraction, Writes
    <2>2. y = w /\ Len(w) < maxLen - 1
        <3>1. Len(y) # maxLen
            BY <1>2, <2>1
        <3>2. Len(w) <= maxLen
            BY <1>2, <1>3, <1>19, <3>1
        <3> QED BY <1>19, <2>1, <3>2
    <2>3. PICK u : IsNumeral(u, f, 10) /\ Len(u) <= precision /\ d = Fractional(u, precision)
        BY <2>1 DEF IsDecimals
    <2>4. ~FractionFitsIn(w, precision, maxLen, terminator)
        <3>1. ~(maxLen = 0 \/ Len(w) + 1 + precision + end <= maxLen)
            <4>1. Len(wanted) = Len(w) + (1 + precision)
                BY <1>7, <1>9, <2>1
            <4> QED BY <1>2, <1>3, <1>5, <1>10, <4>1
        <3> QED BY <1>4, <3>1 DEF FractionFitsIn
    <2>5. o = FractionPart(before, f, maxLen, precision, terminator)
        BY <1>13, <1>16 DEF FloatOutcome
    <2>6. Partly(o.memory, w \o Fractional(u, precision), maxLen)
        BY <1>3, <1>17, <2>2, <2>3, <2>4, <2>5, FractionIsCut
    <2> QED BY <1>1, <2>3, <2>6
<1> QED BY <1>14, <1>15, <1>16

-----------------------------------------------------------------------------
(* What is shown of a text of symbols is its beginning.                    *)
AllSymbols(w) == \A i \in 1 .. Len(w) : w[i] \in Symbol

(* Two texts of symbols are one.                                           *)
LEMMA ConcatSymbols ==
    ASSUME NEW a \in Text, NEW b \in Text, AllSymbols(a), AllSymbols(b)
    PROVE  AllSymbols(a \o b)
<1>1. PICK w : w = a \o b
    OBVIOUS
<1>2. Joins(w, a, b) /\ Len(a) \in Nat /\ Len(b) \in Nat
    BY <1>1, ConcatJoins DEF Text
<1>3. ASSUME NEW i \in 1 .. Len(w) PROVE w[i] \in Symbol
    <2>0. Len(w) = Len(a) + Len(b)
        BY <1>2 DEF Joins
    <2>1. CASE i <= Len(a)
        <3>1. i \in 1 .. Len(a)
            BY <1>2, <2>1
        <3> QED BY <1>2, <3>1 DEF Joins, AllSymbols
    <2>2. CASE i > Len(a)
        <3>1. PICK k : k = i - Len(a)
            OBVIOUS
        <3>2. k \in 1 .. Len(b) /\ Len(a) + k = i
            BY <1>2, <2>0, <2>2, <3>1
        <3>3. w[Len(a) + k] = b[k]
            BY <1>2, <3>2 DEF Joins
        <3> QED BY <3>2, <3>3 DEF AllSymbols
    <2> QED BY <1>2, <2>1, <2>2
<1> QED BY <1>1, <1>3 DEF AllSymbols

(* So is the empty text,                                                   *)
LEMMA EmptySymbols == AllSymbols(<< >>)
BY EmptyText DEF AllSymbols

(* a numeral,                                                              *)
LEMMA NumeralSymbols ==
    ASSUME NEW t, NEW v, NEW base, IsNumeral(t, v, base)
    PROVE  AllSymbols(t)
BY DEF IsNumeral, AllSymbols, Symbol

(* a sign,                                                                 *)
LEMMA SignSymbols ==
    ASSUME NEW s, NEW negative \in BOOLEAN, IsSign(s, negative)
    PROVE  AllSymbols(s)
<1>1. AllSymbols(<<Minus>>)
    BY SingleTyped DEF AllSymbols, Symbol, Minus
<1> QED BY <1>1, EmptySymbols DEF IsSign

(* and the decimals.                                                       *)
LEMMA DecimalsSymbols ==
    ASSUME NEW f, NEW precision \in Nat, NEW d, IsDecimals(d, f, precision)
    PROVE  d \in Text /\ AllSymbols(d)
<1>1. CASE precision = 0
    BY <1>1, EmptyText, EmptySymbols DEF IsDecimals
<1>2. CASE precision # 0
    <2>1. precision > 0
        BY <1>2
    <2>2. PICK t : IsNumeral(t, f, 10) /\ Len(t) <= precision /\ d = Fractional(t, precision)
        BY <2>1 DEF IsDecimals
    <2>3. t \in Text /\ Len(t) \in Nat /\ AllSymbols(t)
        <3>1. t \in Text /\ Len(t) \in Nat
            BY <2>2 DEF IsNumeral, Text
        <3>2. AllSymbols(t)
            BY <2>2, NumeralSymbols
        <3> QED BY <3>1, <3>2
    <2>4. PICK n : n = precision - Len(t)
        OBVIOUS
    <2>5. PICK z : z = Zeros(n)
        OBVIOUS
    <2>6. PICK p : p = <<Point>>
        OBVIOUS
    <2>7. p \in Text /\ AllSymbols(p)
        BY <2>6, SingleTyped DEF AllSymbols, Symbol, Point
    <2>8. n \in Nat
        BY <2>2, <2>3, <2>4
    <2>9. z \in Text /\ AllSymbols(z)
        BY <2>5, <2>8, ZerosTyped DEF AllSymbols, Symbol
    <2>10. z \o t \in Text /\ AllSymbols(z \o t)
        BY <2>3, <2>9, ConcatTyped, ConcatSymbols
    <2>11. p \o (z \o t) \in Text /\ AllSymbols(p \o (z \o t))
        BY <2>7, <2>10, ConcatTyped, ConcatSymbols
    <2> QED BY <2>2, <2>4, <2>5, <2>6, <2>11 DEF Fractional
<1> QED BY <1>1, <1>2

IsPrefix(written, memory, wanted) ==
    \A i \in written : /\ 0 .. i \subseteq written
                       /\ i < Len(wanted) /\ memory[i] = wanted[i + 1]

(* What is shown of a text of symbols is its beginning, without a gap.     *)
LEMMA ShownIsPrefix ==
    ASSUME NEW memory, NEW wanted \in Text, AllSymbols(wanted), NEW maxLen \in Nat,
           Partly(memory, wanted, maxLen),
           NEW written, written = {i \in 0 .. maxLen - 1 : memory[i] \notin {Untouched, Nul}}
    PROVE  IsPrefix(written, memory, wanted)
<1>1. PICK k \in Nat : Shows(memory, wanted, maxLen, k)
    BY DEF Partly
<1>2. Len(wanted) \in Nat /\ k <= Len(wanted)
    BY <1>1 DEF Text, Shows
<1>3. ASSUME NEW i \in 0 .. maxLen - 1, i < k
      PROVE  i \in written /\ memory[i] = wanted[i + 1]
    <2>1. memory[i] = wanted[i + 1] /\ i + 1 \in 1 .. Len(wanted)
        BY <1>1, <1>2, <1>3 DEF Shows
    <2>2. wanted[i + 1] \in Symbol
        BY <2>1 DEF AllSymbols
    <2>3. wanted[i + 1] \notin {Untouched, Nul}
        BY <2>2 DEF Symbol, Untouched, Nul, Minus, Point
    <2> QED BY <2>1, <2>3
<1>4. ASSUME NEW i \in written PROVE i \in 0 .. maxLen - 1 /\ i < k
    <2>1. i \in 0 .. maxLen - 1 /\ memory[i] \notin {Untouched, Nul}
        OBVIOUS
    <2>2. ~(i >= k)
        BY <1>1, <2>1 DEF Shows
    <2> QED BY <2>1, <2>2
<1>5. ASSUME NEW i \in written PROVE 0 .. i \subseteq written
    <2>1. i \in 0 .. maxLen - 1 /\ i < k
        BY <1>4
    <2>2. ASSUME NEW j \in 0 .. i PROVE j \in written
        <3>1. j \in 0 .. maxLen - 1 /\ j < k
            BY <2>1
        <3> QED BY <1>3, <3>1
    <2> QED BY <2>2
<1>6. ASSUME NEW i \in written PROVE i < Len(wanted) /\ memory[i] = wanted[i + 1]
    <2>1. i \in 0 .. maxLen - 1 /\ i < k
        BY <1>4
    <2>2. memory[i] = wanted[i + 1]
        BY <1>3, <2>1
    <2> QED BY <1>2, <2>1, <2>2
<1> QED BY <1>5, <1>6, Zenon DEF IsPrefix

-----------------------------------------------------------------------------
(* A call that is made right, and what is kept of it.                      *)
MadeRight(function, wanted, maxLen, terminator, o) ==
    /\ wanted \in Text /\ AllSymbols(wanted) /\ maxLen \in Nat /\ terminator \in BOOLEAN
    /\ FitsIn(wanted, maxLen, terminator) => Exactly(o, wanted, terminator)
    /\ ~FitsIn(wanted, maxLen, terminator) =>
           /\ ~(function = "FloatToString" /\ maxLen = 1) => Partly(o.memory, wanted, maxLen)
           /\ function # "FloatToString" /\ ~terminator /\ maxLen > Len(Sign(wanted[1] = Minus))
                => Inside(o.memory, maxLen)

(* A call that is made right leaves the properties true.                   *)
LEMMA MadeRightIsRight ==
    ASSUME NEW function, NEW wanted, NEW maxLen, NEW terminator, NEW o,
           MadeRight(function, wanted, maxLen, terminator, o),
           CallMade(function, wanted, maxLen, terminator, o)
    PROVE  ExactWhenItFits' /\ PrefixWhenCut'
<1>1. /\ call'.of = function /\ call'.wanted = wanted /\ call'.maxLen = maxLen
      /\ call'.terminator = terminator /\ call'.memory = o.memory /\ call'.length = o.length
    BY DEF CallMade
<1>2. wanted \in Text /\ AllSymbols(wanted) /\ maxLen \in Nat /\ terminator \in BOOLEAN
    BY DEF MadeRight
<1>3. Terminated' = wanted \o Ending(terminator)
    BY <1>1 DEF Terminated, Ending
<1>4. Fits' <=> FitsIn(wanted, maxLen, terminator)
    <2>1. Len(wanted \o Ending(terminator)) = Len(wanted) + Terminators(terminator)
        BY <1>2, EndTyped, ConcatTyped
    <2>2. Fits' <=> maxLen = 0 \/ Len(wanted \o Ending(terminator)) <= maxLen
        BY <1>1, <1>3 DEF Fits
    <2> QED BY <2>1, <2>2 DEF FitsIn
<1>5. ASSUME Fits'
      PROVE  call'.memory = Stored(Blank, 0, Terminated)' /\ call'.length = Len(call'.wanted)
    <2>1. Exactly(o, wanted, terminator)
        BY <1>4, <1>5 DEF MadeRight
    <2>2. Stored(Blank, 0, Terminated)' = Stored(Blank, 0, wanted \o Ending(terminator))
        BY <1>3 DEF Stored, Blank, Memory, Untouched
    <2> QED BY <1>1, <2>1, <2>2 DEF Exactly
<1>6. ExactWhenItFits'
    BY <1>5 DEF ExactWhenItFits
<1>7. ASSUME ~Fits', ~(function = "FloatToString" /\ maxLen = 1)
      PROVE  IsPrefix(Written', o.memory, wanted)
    <2>1. Partly(o.memory, wanted, maxLen)
        BY <1>4, <1>7 DEF MadeRight
    <2>2. Written' = {i \in 0 .. maxLen - 1 : o.memory[i] \notin {Untouched, Nul}}
        BY <1>1 DEF Written, Untouched, Nul
    <2>3. PICK memory : memory = o.memory
        OBVIOUS
    <2>4. PICK written : written = Written'
        OBVIOUS
    <2>5. IsPrefix(written, memory, wanted)
        BY <1>2, <2>1, <2>2, <2>3, <2>4, ShownIsPrefix
    <2> QED BY <2>3, <2>4, <2>5
<1>8. ASSUME ~Fits', function # "FloatToString", ~terminator, maxLen > Len(Sign(wanted[1] = Minus))
      PROVE  Inside(o.memory, maxLen)
    BY <1>4, <1>8 DEF MadeRight
<1>9. PrefixWhenCut'
    BY <1>1, <1>7, <1>8 DEF PrefixWhenCut, IsPrefix, Inside, Memory, Untouched, Sign, Minus
<1> QED BY <1>6, <1>9

(* A text begins with a minus if it is that of a negative number.          *)
LEMMA FirstOfSigned ==
    ASSUME NEW negative \in BOOLEAN, NEW s, IsSign(s, negative),
           NEW t, NEW v, NEW base, IsNumeral(t, v, base)
    PROVE  (s \o t)[1] = Minus <=> negative
<1>1. PICK w : w = s \o t
    OBVIOUS
<1>2. s \in Text /\ t \in Text /\ Len(t) >= 1 /\ Len(t) \in Nat
    BY DEF IsSign, IsNumeral, Text
<1>3. Joins(w, s, t)
    BY <1>1, <1>2, ConcatJoins
<1>4. CASE negative
    <2>1. s = <<Minus>> /\ Len(s) = 1
        BY <1>4 DEF IsSign
    <2>2. w[1] = s[1]
        BY <1>3, <2>1 DEF Joins
    <2> QED BY <1>1, <1>4, <2>1, <2>2, SingleTyped DEF Minus
<1>5. CASE ~negative
    <2>1. s = << >>
        BY <1>5 DEF IsSign
    <2>2. w = t
        BY <1>1, <1>2, <2>1, ConcatEmpty
    <2>3. t[1] \in 0 .. 35
        BY <1>2 DEF IsNumeral
    <2> QED BY <1>1, <1>5, <2>2, <2>3 DEF Minus
<1> QED BY <1>4, <1>5

(* UintToString is made right for every number of Width bits,              *)
LEMMA UnsignedMadeRight ==
    ASSUME NEW maxLen \in 0 .. MaxLen, NEW terminator \in BOOLEAN,
           NEW v \in Unsigned, NEW base \in Base
    PROVE  MadeRight("UintToString", NumeralOf(v, base), maxLen, terminator,
                     UintToString(Blank, 0, v, maxLen, base, terminator))
<1>1. v \in Nat /\ v < Power(2, Width)
    <2>1. PICK p : p = Power(2, Width)
        OBVIOUS
    <2>2. p \in Nat
        BY <2>1, PowerIsPositive, WidthAssumption
    <2>3. v \in 0 .. p - 1
        BY <2>1, UnsignedAssumption
    <2> QED BY <2>1, <2>2, <2>3
<1>2. base \in 2 .. 36 /\ maxLen \in Nat
    BY BaseAssumption, MaxLenAssumption
<1>3. PICK t : t = NumeralOf(v, base)
    OBVIOUS
<1>4. IsNumeral(t, v, base)
    BY <1>1, <1>2, <1>3, NumeralIsGenerated
<1>5. t \in Text /\ AllSymbols(t) /\ Len(t) >= 1
    <2>1. t \in Text /\ Len(t) >= 1
        BY <1>4 DEF IsNumeral
    <2> QED BY <1>4, <2>1, NumeralSymbols
<1>6. PICK o : o = UintToString(Blank, 0, v, maxLen, base, terminator)
    OBVIOUS
<1>7. /\ FitsIn(t, maxLen, terminator) => Exactly(o, t, terminator)
      /\ ~FitsIn(t, maxLen, terminator) =>
             /\ Partly(o.memory, t, maxLen)
             /\ ~terminator /\ maxLen > 0 => Inside(o.memory, maxLen)
    BY <1>1, <1>2, <1>4, <1>6, UnsignedIsRight
<1>8. maxLen > Len(Sign(t[1] = Minus)) => maxLen > 0
    <2>1. t[1] # Minus
        <3>1. Len(t) \in Nat
            BY <1>5 DEF Text
        <3>2. 1 \in 1 .. Len(t)
            BY <1>5, <3>1
        <3>3. t[1] \in 0 .. 35
            BY <1>4, <3>2 DEF IsNumeral
        <3> QED BY <3>3 DEF Minus
    <2>2. Sign(t[1] = Minus) = << >>
        BY <2>1 DEF Sign
    <2> QED BY <2>2, EmptyText
<1>9. MadeRight("UintToString", t, maxLen, terminator, o)
    BY <1>2, <1>5, <1>7, <1>8 DEF MadeRight
<1> QED BY <1>3, <1>6, <1>9

(* IntToString for every signed one,                                       *)
LEMMA SignedMadeRight ==
    ASSUME NEW maxLen \in 0 .. MaxLen, NEW terminator \in BOOLEAN,
           NEW v \in Signed, NEW base \in Base
    PROVE  MadeRight("IntToString", Sign(v < 0) \o NumeralOf(IF v < 0 THEN -v ELSE v, base),
                     maxLen, terminator, IntToString(Blank, v, maxLen, base, terminator))
<1>0. PICK size : size = IF v < 0 THEN -v ELSE v
    OBVIOUS
<1>1. v \in Int /\ size \in Nat /\ size < Power(2, Width)
    <2>1. PICK p : p = Power(2, Width)
        OBVIOUS
    <2>2. PICK h : h = Power(2, Width - 1)
        OBVIOUS
    <2>3. h \in Nat /\ h >= 1 /\ p = 2 * h
        <3>1. Width - 1 \in Nat /\ Width = (Width - 1) + 1
            BY WidthAssumption
        <3>2. h \in Nat /\ h >= 1
            BY <2>2, <3>1, PowerIsPositive
        <3>3. p = 2 * h
            <4>1. PICK n : n = Width - 1
                OBVIOUS
            <4>2. n \in Nat /\ Width = n + 1
                BY <3>1, <4>1
            <4>3. Power(2, n + 1) = 2 * Power(2, n)
                BY <4>2, PowerOfNext
            <4> QED BY <2>1, <2>2, <4>1, <4>2, <4>3
        <3> QED BY <3>2, <3>3
    <2>4. v \in -h .. h - 1
        BY <2>2, SignedAssumption
    <2>5. v \in Int /\ size \in Nat /\ size <= h
        BY <1>0, <2>3, <2>4
    <2> QED BY <2>1, <2>3, <2>5
<1>2. base \in 2 .. 36 /\ maxLen \in Nat
    BY BaseAssumption, MaxLenAssumption
<1>3. PICK t : t = NumeralOf(size, base)
    OBVIOUS
<1>4. IsNumeral(t, size, base)
    BY <1>1, <1>2, <1>3, NumeralIsGenerated
<1>5. PICK negative : negative = (v < 0)
    OBVIOUS
<1>6. negative \in BOOLEAN
    BY <1>5
<1>7. PICK s : s = Sign(negative)
    OBVIOUS
<1>8. IsSign(s, negative)
    BY <1>6, <1>7, SignIs
<1>9. s \in Text /\ AllSymbols(s) /\ t \in Text /\ AllSymbols(t)
    <2>1. s \in Text /\ t \in Text
        BY <1>4, <1>8 DEF IsSign, IsNumeral
    <2> QED BY <1>4, <1>6, <1>8, <2>1, NumeralSymbols, SignSymbols
<1>10. PICK w : w = s \o t
    OBVIOUS
<1>11. w \in Text /\ AllSymbols(w)
    BY <1>9, <1>10, ConcatTyped, ConcatSymbols
<1>12. PICK o : o = IntToString(Blank, v, maxLen, base, terminator)
    OBVIOUS
<1>13. /\ FitsIn(w, maxLen, terminator) => Exactly(o, w, terminator)
       /\ ~FitsIn(w, maxLen, terminator) =>
              /\ Partly(o.memory, w, maxLen)
              /\ ~terminator /\ maxLen > Len(s) => Inside(o.memory, maxLen)
    <2>1. s = Sign(v < 0)
        BY <1>5, <1>7
    <2> QED BY <1>0, <1>1, <1>2, <1>4, <1>10, <1>12, <2>1, IntIsRight
<1>14. Sign(w[1] = Minus) = s
    <2>1. w[1] = Minus <=> negative
        BY <1>4, <1>6, <1>8, <1>10, FirstOfSigned
    <2> QED BY <1>6, <1>7, <2>1 DEF Sign
<1>15. MadeRight("IntToString", w, maxLen, terminator, o)
    BY <1>2, <1>11, <1>13, <1>14 DEF MadeRight
<1> QED BY <1>0, <1>3, <1>5, <1>7, <1>10, <1>12, <1>15

(* and FloatToString for every two parts and every precision.              *)
LEMMA FloatMadeRight ==
    ASSUME NEW maxLen \in 0 .. MaxLen, NEW terminator \in BOOLEAN,
           NEW v \in Whole, NEW f \in Fraction, NEW precision \in Precision, NEW negative \in BOOLEAN,
           f < Power(10, precision)
    PROVE  MadeRight("FloatToString", Sign(negative) \o NumeralOf(v, 10) \o Decimals(f, precision),
                     maxLen, terminator,
                     FloatToString(Blank, negative, v, f, maxLen, precision, terminator))
<1>1. v \in Nat /\ v < Power(2, Width) /\ f \in Nat /\ precision \in Nat
    <2>1. PICK p : p = Power(2, Width)
        OBVIOUS
    <2>2. p \in Nat
        BY <2>1, PowerIsPositive, WidthAssumption
    <2>3. v \in 0 .. p - 1 /\ f \in Nat /\ precision \in Nat
        BY <2>1, UnsignedAssumption, WholeAssumption, PrecisionAssumption
    <2> QED BY <2>1, <2>2, <2>3
<1>2. 10 \in 2 .. 36 /\ maxLen \in Nat
    BY MaxLenAssumption
<1>3. PICK t : t = NumeralOf(v, 10)
    OBVIOUS
<1>4. IsNumeral(t, v, 10)
    BY <1>1, <1>2, <1>3, NumeralIsGenerated
<1>7. PICK s : s = Sign(negative)
    OBVIOUS
<1>8. IsSign(s, negative)
    BY <1>7, SignIs
<1>9. PICK d : d = Decimals(f, precision)
    OBVIOUS
<1>10. IsDecimals(d, f, precision)
    BY <1>1, <1>9, DecimalsAreDecimals
<1>11. s \in Text /\ AllSymbols(s) /\ t \in Text /\ AllSymbols(t) /\ d \in Text /\ AllSymbols(d)
    <2>1. s \in Text /\ t \in Text
        BY <1>4, <1>8 DEF IsSign, IsNumeral
    <2>2. AllSymbols(s) /\ AllSymbols(t)
        BY <1>4, <1>8, NumeralSymbols, SignSymbols
    <2> QED BY <1>1, <1>10, <2>1, <2>2, DecimalsSymbols
<1>12. s \o t \in Text /\ AllSymbols(s \o t)
    BY <1>11, ConcatTyped, ConcatSymbols
<1>13. PICK w : w = (s \o t) \o d
    OBVIOUS
<1>14. w \in Text /\ AllSymbols(w)
    BY <1>11, <1>12, <1>13, ConcatTyped, ConcatSymbols
<1>15. PICK o : o = FloatToString(Blank, negative, v, f, maxLen, precision, terminator)
    OBVIOUS
<1>16. FitsIn(w, maxLen, terminator) => Exactly(o, w, terminator)
    BY <1>1, <1>2, <1>4, <1>8, <1>10, <1>13, <1>15, FloatFits
<1>17. ~FitsIn(w, maxLen, terminator) /\ maxLen # 1 => Partly(o.memory, w, maxLen)
    BY <1>1, <1>2, <1>4, <1>8, <1>10, <1>13, <1>15, FloatIsCut
<1>18. MadeRight("FloatToString", w, maxLen, terminator, o)
    BY <1>2, <1>14, <1>16, <1>17 DEF MadeRight
<1> QED BY <1>3, <1>7, <1>9, <1>13, <1>15, <1>18

(* So every call is.                                                       *)
LEMMA ConvertIsRight ==
    ASSUME Convert
    PROVE  ExactWhenItFits' /\ PrefixWhenCut'
<1>1. PICK maxLen \in 0 .. MaxLen, terminator \in BOOLEAN :
           \/ \E v \in Unsigned, base \in Base :
                  CallMade("UintToString", NumeralOf(v, base), maxLen, terminator,
                           UintToString(Blank, 0, v, maxLen, base, terminator))
           \/ \E v \in Signed, base \in Base :
                  CallMade("IntToString", Sign(v < 0) \o NumeralOf(IF v < 0 THEN -v ELSE v, base),
                           maxLen, terminator,
                           IntToString(Blank, v, maxLen, base, terminator))
           \/ \E v \in Whole, fpartInt \in Fraction, precision \in Precision, negative \in BOOLEAN :
                  /\ fpartInt < Power(10, precision)
                  /\ CallMade("FloatToString",
                              Sign(negative) \o NumeralOf(v, 10) \o Decimals(fpartInt, precision),
                              maxLen, terminator,
                              FloatToString(Blank, negative, v, fpartInt, maxLen, precision, terminator))
    BY Zenon DEF Convert
<1>2. CASE \E v \in Unsigned, base \in Base :
                  CallMade("UintToString", NumeralOf(v, base), maxLen, terminator,
                           UintToString(Blank, 0, v, maxLen, base, terminator))
    BY <1>2, UnsignedMadeRight, MadeRightIsRight, Zenon
<1>3. CASE \E v \in Signed, base \in Base :
                  CallMade("IntToString", Sign(v < 0) \o NumeralOf(IF v < 0 THEN -v ELSE v, base),
                           maxLen, terminator,
                           IntToString(Blank, v, maxLen, base, terminator))
    BY <1>3, SignedMadeRight, MadeRightIsRight, Zenon
<1>4. CASE \E v \in Whole, fpartInt \in Fraction, precision \in Precision, negative \in BOOLEAN :
                  /\ fpartInt < Power(10, precision)
                  /\ CallMade("FloatToString",
                              Sign(negative) \o NumeralOf(v, 10) \o Decimals(fpartInt, precision),
                              maxLen, terminator,
                              FloatToString(Blank, negative, v, fpartInt, maxLen, precision, terminator))
    BY <1>4, FloatMadeRight, MadeRightIsRight, Zenon
<1> QED BY <1>1, <1>2, <1>3, <1>4

(* Each call converts as it promises.                                      *)
THEOREM ConversionsAreRight == ConvertersSpec => [](ExactWhenItFits /\ PrefixWhenCut)
<1> DEFINE Right == ExactWhenItFits /\ PrefixWhenCut
<1>1. ConvertersInit => Right
    BY DEF ConvertersInit, ExactWhenItFits, PrefixWhenCut
<1>2. Right /\ [Convert]_call => Right'
    <2>1. ASSUME Right, Convert PROVE Right'
        BY <2>1, ConvertIsRight
    <2>2. ASSUME Right, call' = call PROVE Right'
        <3>1. ExactWhenItFits'
            BY <2>2 DEF ExactWhenItFits, Fits, Terminated, Stored, Blank, Memory, NoCall,
                        Untouched, Nul
        <3>2. PrefixWhenCut'
            BY <2>2 DEF PrefixWhenCut, Fits, Terminated, Written, Memory, NoCall,
                        Untouched, Nul, Sign, Minus
        <3> QED BY <3>1, <3>2
    <2> QED BY <2>1, <2>2
<1> QED BY <1>1, <1>2, PTL DEF ConvertersSpec

(* A number whose text fits into the buffer is written exactly, with its   *)
(* terminator and nothing else, and the length returned is that of the     *)
(* text: UintToString, IntToString and FloatToString with any width of the *)
(* numbers, base, precision and limit.                                     *)
THEOREM TextIsExact == ConvertersSpec => []ExactWhenItFits
BY ConversionsAreRight, PTL

(* Of a number that does not fit, the buffer never shows a wrong digit, a  *)
(* gap or a digit of something else: what is in it is the beginning of the *)
(* text, except that FloatToString with a limit of one character may show  *)
(* the first digit without the sign.  An integer without a terminator, and *)
(* with a limit that leaves at least one place behind the sign, also       *)
(* writes nothing at the limit or behind.  (IntToString(-123, buffer, 1,   *)
(* 10, false) is not covered: nothing is left behind the sign, which       *)
(* UintToString takes as no limit; nor is what a terminator or a float     *)
(* writes behind the buffer.)                                              *)
THEOREM TextIsBegun == ConvertersSpec => []PrefixWhenCut
BY ConversionsAreRight, PTL
=============================================================================

------------------------------ MODULE Terminal ------------------------------
(***************************************************************************)
(* The command line (src/Terminal.cpp): an interrupt stores the characters *)
(* of a port in its ring buffer and hands the buffer to the terminal's     *)
(* task, which edits the line, echoes it and runs the command in it.       *)
(*                                                                         *)
(* The strings of the line are the code's: cells of one array, told apart  *)
(* by the terminators that parse and earlier lines have left in it.        *)
(*                                                                         *)
(* allowed, fixed at the start, names what goes on that some of the        *)
(* properties exclude:                                                     *)
(*   "twoRings"     two ports use the terminal;                            *)
(*   "mainLoop"     no task: read is a slot of SignalMainLoop, which       *)
(*                  forgets the activations that arrive while it runs;     *)
(*   "cancel"       Ctrl+C, which prompts anew and keeps the line;         *)
(*   "busyConsole"  a port that is not free when a character is echoed.    *)
(***************************************************************************)
EXTENDS Integers, Sequences, FiniteSets

CONSTANTS Letter,         \* the characters from 0x21 to 0x7E
          Space, Enter, Cancel, Other, Nul,
          Ring, Console,  \* the ring buffers; that of the first port
          MaxWaiting,     \* the place in a ring buffer
          NoRing, Leaving,
          LastCharPos,    \* m_LastCharPos
          MaxArgCounter,  \* m_MaxArgCounter
          Command,        \* the names in listCmd, "help" not among them
          Usage           \* the sets of exceptions to explore

Printable == Letter \cup {Space}
Char == Printable \cup {Enter, Cancel, Other}
Calls == {"twoRings", "mainLoop", "cancel", "busyConsole"}
Null == -1
NoString == <<Nul>>
Garbled == <<Nul>>

ASSUME CharAssumption ==
    /\ Letter \cap {Space, Enter, Cancel, Other, Nul} = {}
    /\ Space \notin {Enter, Cancel, Other, Nul} /\ Enter \notin {Cancel, Other, Nul}
    /\ Cancel \notin {Other, Nul} /\ Other # Nul
    /\ Command \subseteq Seq(Letter) \ {<< >>}
ASSUME RingAssumption == Console \in Ring /\ {NoRing, Leaving} \cap Ring = {} /\ MaxWaiting \in Nat \ {0}
ASSUME SizeAssumption == LastCharPos \in Nat \ {0} /\ MaxArgCounter \in Nat
ASSUME UsageAssumption == Usage \subseteq SUBSET Calls

VARIABLES
    waiting,      \* the characters in each ring buffer
    mailbox,      \* m_newDataQueue, or m_data and m_activated of the signal
    reading,      \* the argument of read, NoRing if it does not run, Leaving
                  \* between its last pop and its return
    m_bufferStr, m_endLine,
    logEnable,    \* of Log
    shown,        \* what the console shows behind its last prompt, Garbled
                  \* if that is not only what was typed
    line,         \* history: the characters taken since the last Enter
    ran,          \* what the last step has run, NothingRan if it has not
    allowed

editor == <<m_bufferStr, m_endLine, line>>
terminalVars == <<waiting, mailbox, reading, editor, logEnable, shown, ran, allowed>>

Without(calls) == calls \cap allowed = {}

NothingRan == [argc |-> Null]

Init == /\ waiting = [r \in Ring |-> << >>]
        /\ mailbox = NoRing /\ reading = NoRing
        /\ m_bufferStr = [i \in 0 .. LastCharPos |-> Nul] /\ m_endLine = 0
        /\ line = << >> /\ shown = << >>
        /\ logEnable = TRUE
        /\ ran = NothingRan
        /\ allowed \in Usage
-----------------------------------------------------------------------------
(* The interrupt: push, which a full ring refuses, and run.  The queue of  *)
(* the task holds one ring and drops another one; the signal keeps the     *)
(* last.                                                                   *)
Receive(r, c) ==
    /\ r # Console => "twoRings" \in allowed
    /\ c = Cancel => "cancel" \in allowed
    /\ Len(waiting[r]) < MaxWaiting
    /\ waiting' = [waiting EXCEPT ![r] = Append(@, c)]
    /\ mailbox' = IF mailbox = NoRing \/ "mainLoop" \in allowed THEN r ELSE mailbox
    /\ ran' = NothingRan
    /\ UNCHANGED <<reading, editor, logEnable, shown, allowed>>

StartRead ==
    /\ reading = NoRing /\ mailbox # NoRing
    /\ reading' = mailbox
    /\ mailbox' = IF "mainLoop" \in allowed THEN mailbox ELSE NoRing
    /\ ran' = NothingRan
    /\ UNCHANGED <<waiting, editor, logEnable, shown, allowed>>

RingFoundEmpty ==
    /\ reading \in Ring
    /\ waiting[reading] = << >>
    /\ reading' = Leaving
    /\ ran' = NothingRan
    /\ UNCHANGED <<waiting, mailbox, editor, logEnable, shown, allowed>>

EndRead_ClearsTheQueue ==
    /\ reading = Leaving
    /\ reading' = NoRing
    /\ mailbox' = NoRing
    /\ ran' = NothingRan
    /\ UNCHANGED <<waiting, editor, logEnable, shown, allowed>>
(* SignalMainLoop clears m_activated when the slot has returned. *)
EndRead ==
    /\ reading = Leaving
    /\ reading' = NoRing
    /\ mailbox' = IF "mainLoop" \in allowed THEN NoRing ELSE mailbox
    /\ ran' = NothingRan
    /\ UNCHANGED <<waiting, editor, logEnable, shown, allowed>>

Popped(c) ==
    /\ reading \in Ring
    /\ waiting[reading] # << >>
    /\ c = Head(waiting[reading])
    /\ waiting' = [waiting EXCEPT ![reading] = Tail(@)]
    /\ UNCHANGED <<mailbox, reading, allowed>>

(* A Log() prints if it finds the console free. *)
Printed(text) ==
    \/ shown' = text
    \/ "busyConsole" \in allowed /\ shown' = Garbled

Echoed(c) == IF shown = Garbled THEN Garbled ELSE Append(shown, c)
-----------------------------------------------------------------------------
PutChar_OneTooMany(c) ==
    /\ Popped(c)
    /\ c \in Printable
    /\ m_endLine <= LastCharPos
    /\ m_bufferStr' = [m_bufferStr EXCEPT ![m_endLine] = c]
    /\ m_endLine' = m_endLine + 1
    /\ line' = Append(line, c)
    /\ Printed(Echoed(c))
    /\ ran' = NothingRan
    /\ UNCHANGED logEnable
PutChar(c) ==
    /\ Popped(c)
    /\ c \in Printable
    /\ m_endLine < LastCharPos
    /\ m_bufferStr' = [m_bufferStr EXCEPT ![m_endLine] = c]
    /\ m_endLine' = m_endLine + 1
    /\ line' = Append(line, c)
    /\ Printed(Echoed(c))
    /\ ran' = NothingRan
    /\ UNCHANGED logEnable

(* A full line, a character that is not printed, Backspace. *)
IgnoreChar_EchoesIt(c) ==
    /\ Popped(c)
    /\ c = Other \/ (c \in Printable /\ m_endLine = LastCharPos)
    /\ ran' = NothingRan
    /\ Printed(Echoed(c))
    /\ UNCHANGED <<editor, logEnable>>
IgnoreChar(c) ==
    /\ Popped(c)
    /\ c = Other \/ (c \in Printable /\ m_endLine = LastCharPos)
    /\ ran' = NothingRan
    /\ UNCHANGED <<editor, logEnable, shown>>

CancelLine ==
    /\ Popped(Cancel)
    /\ Printed(<< >>)
    /\ logEnable' = FALSE
    /\ ran' = NothingRan
    /\ UNCHANGED editor
-----------------------------------------------------------------------------
(* parse: a terminator behind the line, and one instead of each space. *)
Terminated_LeavesTheEnd(buffer, end) ==
    [i \in DOMAIN buffer |->
        IF i < end /\ buffer[i] = Space THEN Nul ELSE buffer[i]]
Terminated(buffer, end) ==
    [i \in DOMAIN buffer |->
        IF i = end \/ (i < end /\ buffer[i] = Space) THEN Nul ELSE buffer[i]]

(* The string that a char* to cell i is. *)
CString(buffer, i) ==
    LET length == CHOOSE n \in 0 .. LastCharPos + 1 - i :
                     /\ i + n \in DOMAIN buffer => buffer[i + n] = Nul
                     /\ \A k \in i .. i + n - 1 : buffer[k] # Nul
    IN  [k \in 1 .. length |-> buffer[i + k - 1]]

(* setArguments: m_arg, one pointer behind each terminator of the line. *)
Arguments(buffer, end) ==
    LET ends      == {i \in 0 .. end - 1 : buffer[i] = Nul}
        behind(k) == {i \in ends : Cardinality({j \in ends : j < i}) = k}
    IN  [k \in 0 .. MaxArgCounter - 1 |->
            IF behind(k) = {} THEN Null ELSE (CHOOSE i \in behind(k) : TRUE) + 1]

Run(buffer, end) ==
    LET m_arg == Arguments(buffer, end)
    IN  [typed |-> line,
         name  |-> CString(buffer, 0),
         argc  |-> Cardinality({i \in 0 .. end - 1 : buffer[i] = Nul}),
         args  |-> [k \in DOMAIN m_arg |->
                       IF m_arg[k] = Null THEN NoString ELSE CString(buffer, m_arg[k])]]

ParseLine ==
    IF m_endLine = 0
    THEN ran' = NothingRan /\ UNCHANGED <<m_bufferStr, logEnable>>
    ELSE /\ m_bufferStr' = Terminated(m_bufferStr, m_endLine)
         /\ IF CString(m_bufferStr', 0) \in Command
            THEN ran' = Run(m_bufferStr', m_endLine) /\ logEnable' = FALSE
            ELSE ran' = NothingRan /\ UNCHANGED logEnable

(* The command has returned and the prompt follows. *)
EnterLine ==
    /\ Popped(Enter)
    /\ ParseLine
    /\ m_endLine' = 0
    /\ line' = << >>
    /\ Printed(<< >>)
-----------------------------------------------------------------------------
(* The rest of the program: a message on the console, and enable. *)
OtherLog ==
    /\ logEnable
    /\ shown' = Garbled
    /\ ran' = NothingRan
    /\ UNCHANGED <<waiting, mailbox, reading, editor, logEnable, allowed>>

EnableLogs ==
    /\ logEnable' = TRUE
    /\ ran' = NothingRan
    /\ UNCHANGED <<waiting, mailbox, reading, editor, shown, allowed>>

read == StartRead \/ RingFoundEmpty \/ EndRead
        \/ (\E c \in Char : PutChar(c) \/ IgnoreChar(c)) \/ CancelLine \/ EnterLine

Next == \/ \E r \in Ring, c \in Char : Receive(r, c)
        \/ read
        \/ OtherLog \/ EnableLogs

(* The task, or the main loop, runs whenever it has something to do. *)
Spec == Init /\ [][Next]_terminalVars /\ WF_terminalVars(read)
-----------------------------------------------------------------------------
(* The words of a line from each place on, one between any two spaces. *)
WordsFrom(s) ==
    LET words[p \in 1 .. Len(s) + 1] ==
            LET spaces == {q \in p .. Len(s) : s[q] = Space}
                first  == CHOOSE q \in spaces : \A other \in spaces : q <= other
            IN  IF spaces = {} THEN <<SubSeq(s, p, Len(s))>>
                ELSE <<SubSeq(s, p, first - 1)>> \o words[first + 1]
    IN  words

Words(s) == WordsFrom(s)[1]

(* The terminator has its cell behind the longest line. *)
TypeOK ==
    /\ waiting \in [Ring -> Seq(Char)]
    /\ mailbox \in Ring \cup {NoRing} /\ reading \in Ring \cup {NoRing, Leaving}
    /\ m_bufferStr \in [0 .. LastCharPos -> Printable \cup {Nul}]
    /\ m_endLine \in 0 .. LastCharPos
    /\ logEnable \in BOOLEAN
    /\ allowed \in Usage

(* A command is given the words of its line, argument by argument, and of  *)
(* no line before it; the rest of the array are null pointers.  (It is     *)
(* told of all words, of those for which the array has no place too.)      *)
CommandGetsItsWords ==
    ran # NothingRan =>
        LET words == Words(ran.typed)
        IN  /\ ran.name = words[1]
            /\ ran.argc = Len(words) - 1
            /\ \A k \in 0 .. MaxArgCounter - 1 :
                   ran.args[k] = IF k + 1 < Len(words) THEN words[k + 2] ELSE NoString

(* On a console without messages the line that Enter will run is the one   *)
(* to be seen behind the prompt.                                           *)
ConsoleShowsTheLine ==
    ~logEnable /\ Without({"cancel", "busyConsole"}) => shown = line

(* Characters do not stay in the ring buffer until others come: the last   *)
(* pop of a read and the notification of the next one leave no gap.        *)
CharactersDoNotWait ==
    Without({"twoRings", "mainLoop"}) =>
        \A r \in Ring : \A n \in 1 .. MaxWaiting :
            Len(waiting[r]) = n ~> Len(waiting[r]) # n
=============================================================================

# Verification of MCU_Modules

TLA+ specifications of the modules of this repository, the TLC runs that check
them on small instances, and theorems checked by TLAPS.  `PROJECT.json` lists
the runs, which definition models which lines, the mutants that show that each
property can fail, and the findings.

## 1. The system

The repository is a library of header and source modules for single-core
microcontrollers.  It is used from two kinds of context: interrupt handlers of
peripherals, and the main context (the main loop, or a task of the RTOS build).

| Component | State | Operations | Interacts with |
|---|---|---|---|
| `RingBuffer` (`include/RingBuffer.h`) | array, write head, read tail | `push`, `pushOverwrite`, `pop`, `peek`, `drop`, `clear`, sizes | filled by an interrupt, emptied by the terminal or a parser |
| `MessageRingBuffer` (same file) | array of messages, head, tail | the same, one message at a time | as above |
| `SignalInterface`, `Signal` (`src/SignalInterface.cpp`, `include/Signal.h`) | one pool of connection nodes for all signals; per signal a list and a cursor | `connect`, `disconnect`, `disconnectAll`, `activ` | runs slots, which call all of these again |
| `SignalTime`, `SignalMainLoop` (`nonRtos/LoopSignals.h`) | period and next time; `m_activated` | `setPeriod`, `activ`, construction, destruction | register themselves with `EventLoop` |
| `EventLoop` (`nonRtos/EventLoop.cpp`) | list of registered signals, an iterator | `connect`, `disconnect`, `loop` | calls `runSlots` of every signal in the list |
| `SoftTimer` (`nonRtos/SwTimer.cpp`) | mode, a `SignalTime` whose slot it is | `start`, `stop`, `run` | stops its own signal from inside its own handler |
| `Log` (`src/Loger.cpp`) | the line, `busy`, masks, the table of `Once` | construction, `<<`, destruction | used by every context |
| `Terminal` (`src/Terminal.cpp`) | the edited line, arguments | `run`, `read`, `parse` | pops from a ring buffer; a queue and a task in the RTOS build |
| `ParserInterface` (`include/ParserIface.h`) | parser state, packet size | `parseNewData` | peeks, drops and pops from a ring buffer |
| `Converters` (`src/Converters.cpp`) | none | numbers to text | used by `Log` |

What makes the code hard to test, and correct when it is:

* **Ring buffers.**  Producer and consumer share no lock; each owns one index
  and reads the other's, in one order only.  One cell stays free, blocks wrap
  around the end of the array, indexes wrap around the type.  `pushOverwrite`
  breaks the ownership: it stores the consumer's index.  Correct: every byte
  comes out once and in order; a refused push changes nothing.
* **Signals.**  Slots run in the middle of a walk through a list that they may
  change; the cursor belongs to the signal, not to the walk; the nodes come from
  one pool.  Correct: an activation runs every connected slot once, in the order
  of connection, and no node is lost or in two lists.
* **Main loop.**  Handlers register and deregister signals in the list that the
  loop walks; interrupts activate signals at any time.  Correct: what is
  registered is visited in every pass, every activation is handled, every period
  elapses again, nothing dead or stopped is called.
* **Log.**  One line and one flag for all contexts, taken by a constructor in
  two steps with a callback between them and released by every destructor; the
  sender reads the line after the destructor.  Correct: what is sent is one
  message, whole but for its end, and the logger never locks itself out.
* **Terminal.**  The line, its words and the pointers to them share arrays that
  Enter does not clear; characters arrive while others are read.  Correct: a
  command gets the words of its own line, the console shows it, no character
  waits for another one.
* **Parser.**  Portions end anywhere, the state outlives the call, headers may
  be wrong.  Correct: the packets of the stream are handled in order and once,
  and the ring buffer gets room again.
* **Converters.**  Limits, signs, zeros and terminators meet at the last cells of
  the caller's buffer.  Correct: the text asked for, or its beginning, and
  nothing behind the limit.

## 2. Modules

| Module | Models | Kind |
|---|---|---|
| `RingIndex` | the index arithmetic both ring buffers share | operators |
| `RingState` | the members of `RingBuffer` and what its calls compute from them | operators, used by the three below |
| `IndexMask` | extends `RingBuffer` with `& IndexMask` and `size_t` differences, bit by bit | compared with `RingIndex` |
| `ByteFifo` | a bounded queue of bytes that may lose its oldest | abstract specification |
| `RingBuffer` | every call of `RingBuffer`, one step per call | implements `ByteFifo` |
| `SpscFifo` | a bounded queue of two contexts | abstract specification |
| `RingBufferSpsc` | `push` against `pop`, `peek`, `drop`, one step per shared access | implements `SpscFifo` |
| `RingBufferOverwrite` | extends `RingBufferSpsc` with `pushOverwrite` step by step | implements `SpscFifo` without it |
| `LossyFifo` | a bounded queue whose producer displaces the oldest message | abstract specification |
| `MessageRingBuffer` | every call of `MessageRingBuffer`, one step per shared access | implements `LossyFifo` |
| `SignalBus` | signals with ordered sets of slots, activations with what is left to run | abstract specification |
| `SignalSlots` | the pool, the lists and the cursor | implements `SignalBus` |
| `EventLoop` | the loop, its list, time signals, loop signals, timers, interrupts, the clock | |
| `Log` | the line, the flag, the objects of two contexts, `Once`, the port | |
| `Converters` | numbers to text, into the caller's memory | operators, compared with the texts asked for |
| `Parser` | `parseNewData`, one step per look at the ring buffer, and the interrupt | compared with the framing of the stream read as a whole |
| `Terminal` | the editor, its arrays, the mailbox of the task or the main loop | |
| `RingIndexProofs` | lemmas about the index arithmetic | proofs |
| `RingBufferProofs` | theorems about `RingBuffer`, `RingBufferSpsc` and `RingBufferOverwrite` | proofs |
| `LogProofs` | theorems about `Log`, and about `Converters`, which it calls | proofs |
| `MessageRingBufferProofs`, `SignalSlotsProofs`, `EventLoopProofs`, `ParserProofs`, `TerminalProofs` | theorems about the module of that name | proofs |

`MC*` modules give the constants that a configuration cannot write down, and the
symmetry.  A definition `X_SomethingWrong` before a definition `X` is a version
of `X` with a plausible bug, used by `PROJECT.json` to show that a property
notices it; nothing else refers to it.

### How state and actions correspond to the code

*Names.*  Variables with the code's names (`m_writeHead`, `m_slotList`,
`m_activated`, ...) are the code's members.  Local variables of a call that is
not over are variables of the specification (`whead`, `rtail`, `otail`); they
have a fixed value when there is no call.  History variables (`intended`,
`displaced`, `overlapped`, `owed`, `unheard`, `armed`, `sentAt`, `nested`,
`stream`, `handled`, `line` of `Terminal`) are only read by properties, except
`overlapped`, `nested` and `stream`, which carry a bound.

*Atomicity.*  In `RingBufferSpsc`, `RingBufferOverwrite` and `MessageRingBuffer`
a step accesses the shared memory once: the load of the other side's index, one
copied byte, the store of an index.  `getOccupiedSize` loads both indexes; its
caller owns one of them, which cannot change under it, so one step is exact.
(`pushOverwrite` makes that false for readers.  In `MessageRingBuffer` the
readers' load of the tail is therefore a step of its own.  In
`RingBufferOverwrite` it is not, which leaves out some interleavings: these runs
show that an error is possible, and claim nothing else for preempted reads.)
`memcpy` copies in ascending order, byte by byte.

*Memory order.*  The other side's index is loaded relaxed.  Producer and
consumer of this library are contexts of one core, which sees its own accesses
in program order; the model runs them in program order too.

*Arguments.*  A null destination, a full `etl::string` and a size of 0 all make
a read of size 0.  A null source is an empty string of bytes.  `drop` checks
nothing: from an empty buffer it stores the tail that it loaded (`AskInVain` of
`SpscFifo` in the abstract).

*Signals.*  A node is its index in `m_slotsArray`, plus one; 0 is `nullptr`.
An activation is an entry of `stack`; `Activ` is `getNextSlot(nullptr)` and the
call of the first slot, and the four `Return...` actions are the branches of
`getNextSlot(slot)` after a slot has returned.  Reading through a null cursor is
undefined: either the program stops or some word is read that is no slot, and
then the search begins.

*Main loop.*  `Visit...` is `runSlots` of the signal under the iterator up to
the start of its handlers; while `phase = "handling"` the handlers may make any
number of calls, each a step, until `HandlersReturn`.  `due` is
`m_nextTimestamp` less the present time, at least 0.  The clock (64 bits of
milliseconds) never runs back, so `m_lastTimestamp` decides nothing.  A node
removed under the iterator keeps its next pointer: `iter++` follows it to what
stood behind that node when it was removed, which may itself have been removed
since.  `stale` is this chain of removed nodes and `iter` the node of the list
that it ends at.  A node made later may be made where one of the chain was
(`RegisterInStale`): the chain then leads to the new node, the last of the list.
Each use of a removed node, or of a dead signal, may also stop the program
(`Fault`).  A `SignalTime` has no destructor that deregisters it: a dead one
stays in the list, and with `rebuild` another one may be constructed at its
address, which is then in the list twice or without a period.  What the slots of
a signal do to each other is the matter of `SignalSlots`; here a signal has a
slot or has none.

*Data of an activation.*  `m_data` holds the place of an activation in `stack`
instead of a value: enough to tell whose data a slot is given.

*Log.*  A cell of `line` shows whose text it is.  Headings, short strings,
decimal numbers and reals of three digits take one cell, hexadecimal numbers and
reals of more digits two, so that a number in the wrong base or precision is seen
in the length.  `intBase` and `m_floatPrecision` are separate; in `Log()` both
are "unset" until they are chosen, and a number then is in any of the formats.  A
constructor is three steps: the checks up to the call of the port callback, its
answer, the taking of the line.  Each `<<` is one.  A destructor is one, or with
`<< Once` four: the time is read (`ReadTime`), the place looked up and its time
compared (`FindOnce`), the outcome stored (`StoreOnce`), and the rest done
(`End`).  Times are subtracted as unsigned numbers, modulo `TimeModulus`.  The
store is one step though it writes two members, and the table one value per
place: a search in the etl container that meets an insertion, and 64-bit words
that are half written, are not modelled.  The handler runs to its end before the
main program goes on; with `overlap` two tasks take turns at any point.
`strlen` is kept modulo `StringModulus` (256 in the code).

*Converters.*  The functions are operators; `outstr` is a function from 0 on,
reaching behind the buffer, so that a write outside is seen.  `uint64_t` has
`Width` bits.  `FloatToString` begins where the value has been rounded and
split.  The conversions keep nothing between calls, so that one call
(`Convert`) from the start shows all there is; `MCLog` makes it beside the steps
of `Log`, which is their caller.  The texts asked for are stated without the
generation cycle: the digit with n digits behind it is `v \div base^n % base`, and
there are as many as the first one that is not 0 needs.  `Power` stands for `^`, of
which the provers know nothing.

*Parser.*  The ring buffer is the queue that `RingBufferSpsc` was shown to
implement: the interrupt may push between any two looks of the parser at it.
`notified` is the deferred call that the interrupt asks for; with `mainLoop` it
is `m_activated` of a `SignalMainLoop`, cleared after the slot has returned as
`EventLoop` has it.

*Terminal.*  `m_bufferStr` is the array of the code, with the terminators that
`parse` puts into it and those of earlier lines; `CString` reads it as `strncmp`
and a command do.  `mailbox` is the queue of one pointer, which drops a second
one, or, with `mainLoop`, `m_data` and `m_activated`, which keep the last.  A
command is what it is given (`ran`); the check of the name `help` has no effect
and no name of the model's commands is `help`.

*`Usage` and `allowed`.*  The modules of signals, loop, log, parser and terminal
have calls that the code does not survive unharmed: a slot that disconnects
itself, a handler that stops its own timer, a handler that logs twice.  (In
`RingBufferOverwrite` the variable `overwrites` says how `pushOverwrite` is
called.)  The variable `allowed` is chosen in `Init` among the sets
of the constant `Usage` and never changes: it says which of these calls the
program makes.  A property that holds whatever the program does is stated as it
is; one that some of the calls break says so with `Without(...)`, which is read
"if none of these calls is ever made".  One run thus checks every property under
the weakest condition it needs.

## 3. Runs

| Run | Checks | States |
|---|---|---|
| `ring_buffer` | `RingBuffer` => `ByteFifo`; the mask and wrapped differences are reductions modulo the size | 9689 |
| `ring_buffer_spsc` | no overlapping copies, stable reads, and without `pushOverwrite` => `SpscFifo`; `pushOverwrite` keeps the newest bytes and reads remove only what they return, if no read is under way in it | 138200 |
| `message_ring` | `MessageRingBuffer` => `LossyFifo`, if no call meets two of the other side | 99596 |
| `signal_slots` | `SignalSlots` => `SignalBus`; the pool's lists stay apart, no node is lost, activations are complete, no null cursor is read through | 408881 (symmetry) |
| `event_loop` | passes are complete, no signal is in the list twice, no preset and no activation is forgotten, no stopped timer is run from the list; every activation is handled, every period elapses again | 450394 |
| `log` | a message is one context's text and whole, the line is released and left alone while it is sent, `Once` keeps its distance; the conversions write the text asked for or its beginning | 3369652 |
| `parser` | the packets handled are those of the stream, each complete one is, and a full ring buffer gets room | 255626 |
| `terminal` | commands get the words of their line, the console shows the line, characters do not wait | 230092 |

Runs that show a disagreement between the code and what it says of itself (each
is a finding in `PROJECT.json`):

| Run | What happens |
|---|---|
| `overwrite_order` | scenario 1 stores the head before the tail, against its own comment |
| `signal_self_disconnect` | a slot that disconnects itself ends the activation |
| `event_loop_stopped` | a timer stops itself and the one behind it: the loop follows the removed nodes and runs the stopped one |
| `event_loop_heard` | an activation that comes while its handlers run is cleared with the one before |

There are more, which the exceptions of the properties show; the docs that they
disagree with are

* `Loger.h:36`, and the example in the repository's `README.md`: the port callback
  returns true if the port is free; `checkLogAvailable` (`Loger.cpp:170`) takes true
  for busy, so that messages are refused exactly when the port is free (`docPort`);
* `Loger.h:52` and `62`: decimal and three digits are the defaults "at the beginning
  of each log"; `Log()` sets neither (`consoleNumber`);
* `Loger.h:102` and `104`: the destructor of a refused `Log` clears the flag of the
  one being built (`interrupt`), and `<< Once` enables a refused one (`once`);
* `Loger.cpp:179`: of a string of 256 characters or more the length modulo 256 is
  put, though the rest has room (`longString`);
* the repository's `README.md:9`, "periodically invokes by timer preset": a `SignalTime` whose last
  slot is disconnected and that gets another one is not run again
  (`disconnectLast`);
* `LoopSignals.h:145`, "All local signals must disconnect themselves from the
  Eventloop before death": `SignalTime` does not (`die`, `rebuild`);
* `Converters.h:17`, `28` and `39`: conversions write behind their limit a
  terminator, or what follows a sign that used it up;
* `Terminal.h:18`: a command of more words than `m_arg` holds is told of arguments
  that are not in it.

### What `Without(...)` leaves out

Each exception of a property is needed: without it TLC finds a counterexample
(that of endless registration takes two signals beside the one concerned).

| Exception | Property | What the code does |
|---|---|---|
| `pushOverwrite` preempting a read | `PopRemovesOnlyWhatItReturned`, `OverwriteKeepsNewest`, `NoOverlap`, `ReadsWhatIsStored` | both sides store the tail: the older of the two wins and unread bytes vanish (`MCPreempting`) |
| two calls of one side in a call of the other | `ImplementsLossyFifo` | `MaxOverlap`, see below; in an array of two cells one `pop` is enough: it moves the tail past the head of the `pushOverwrite` around it, whose message is lost |
| `disconnectRunning` | `ActivationRunsAll` | the cursor follows the released nodes; the other slots are not run |
| `reenter` | `CursorIsNeverNull`, `ImplementsBus` | the inner activation leaves the cursor of the outer one null; if the program goes on, it runs a slot a second time |
| `die` | `NoNodeLost` | the nodes of a connected signal that dies are never released |
| an iterator on a removed node | `OnlyArmedTimersRun` | the stale next pointer leads to a timer that was stopped (`event_loop_stopped`) |
| `rebuild` | `OnlyArmedTimersRun`, `RegisteredOnce` (for `SignalTime`) | a timer made where a registered one died is run though nobody started it; setting its period registers it a second time |
| `disconnectLast` | `PresetIsRegistered` | `disconnect` of the last slot deregisters a `SignalTime`, whose period stays: connected again, it is never registered again |
| `activDuringRun` | `ActivationNotForgotten`, `ActivationsAreHandled` | the activation is cleared with the one being handled |
| `selfStop` with `rearm` | `PassVisitsAll` | the node under the iterator is removed and made again at the end of the list, the nodes between are not visited |
| `selfStop` | liveness | the node under the iterator is removed; following it may stop the program |
| `die` | liveness | a `SignalTime` that dies stays in the list and is called |
| registering for ever | liveness | handlers that stop and start each other's signals append to the list being walked; the pass never ends |
| `interrupt` | `MessageIsWhole`, `LineLeftAlone` | the destructor of the handler's refused message releases the line, and what the main program's still puts as text is left out; or the handler's message is taken and sent between the answer of the port and the taking of the line by the main program's, which then writes what is being sent |
| `docPort` | `LineLeftAlone` | a port callback that answers as `Loger.h` says it should lets a message through exactly while the port is sending |
| `overlap` | `LineIsOwn`, `MessageIsWhole`, `LineLeftAlone` | the destructor of a refused message releases the line of the one being built, and a third one takes it |
| `once` | `LineIsOwn`, `LineLeftAlone` | a refused message with `<< Once` adds its count to the line and sends it |
| `longString` | `MessageIsWhole` | of 256 characters or more the length modulo 256 is put |
| `consoleNumber` | `MessageIsWhole` | `Log() << 5` prints in the base that the stack holds |
| `nestedOnce` | `OnceKeepsDistance` | two destructors find the same entry, or none, and both send; or the later time is stored first and the difference wraps |
| floats with a limit of 1, a limit that leaves no place behind a sign | `PrefixWhenCut` | the sign uses the limit up, what follows is written without one |
| `displace`, `clear` | `HandlesTheFraming`, `PacketsAreHandled` | the state remembers a preamble or a size that is not that of the bytes in the ring buffer any more |
| `mainLoop` | `PacketsAreHandled`, `RingGetsRoom`, `CharactersDoNotWait` | what arrives between the last look at the ring buffer and the return is not asked for again |
| a header beyond the ring buffer | `RingGetsRoom` | the parser waits for more than fits |
| `twoRings` | `CharactersDoNotWait` | the queue of one pointer drops that of the second ring buffer |
| `cancel` | `ConsoleShowsTheLine` | Ctrl+C prompts anew and keeps the line |
| `busyConsole` | `ConsoleShowsTheLine` | a character is stored whose echo was refused |

### Bounds

* *Arrays of four cells*: the smallest power of two in which a block can wrap,
  leave a gap and fill the buffer at different positions.  Strings up to five
  bytes, so that `pushOverwrite` skips bytes; two byte values, enough to tell
  where a single odd byte went.
* *Width = 6*: words of six bits for `size_t`, wider than any index of an array
  of four cells, as the real one is.
* *Words = 2*: a message that can be torn has at least two parts.
* *MaxOverlap = 1*: in `MessageRingBuffer`, a read may meet one `pushOverwrite`,
  and around one `pushOverwrite` one message may be read or dropped.  With two,
  the abstract specification is violated: the second call writes the cell that
  is being read.  This is a condition on the use of the code, not a property of
  it.
* *Two signals, three slots, a pool of three*: two lists beside the released
  one, one of them with a first, a middle and a last node, the pool used up
  while a slot is still unconnected.  `MaxDepth = 2`: activations nest once, of
  the same signal or of the other one.
* *A `SignalTime`, a `SoftTimer` and a `SignalMainLoop`, period 2*: a signal
  before, under and behind the iterator, one of each kind, and a clock that may
  stand still, be late or be reached between two visits.  `MaxNodes = 3`, the
  nodes of the list and of the chain together: each signal once, one of them
  twice beside another, and chains that end at a node or at the end.
* *`MCUsage`*: for `signal_slots` no call of the list, all but one, and all.  For
  `event_loop` handlers that remove nodes, register and destroy, which no safety
  property but `PassVisitsAll` excludes; all calls but registration by handlers; and
  registration with one of `disconnectLast` and `activDuringRun`, which leave the
  liveness properties their premises.  More of them together is what the theorems
  are about.  For `log` no call, each of five alone, and `<< Once` with an interrupt
  and with both contexts using it, where the steps of the destructors multiply the
  states.  A run that shows a disagreement makes the one call that it is about.
* *A line of two cells, strings of one and five cells with lengths modulo
  four*: a line with room, one filled exactly and one that overflows by one and
  by two; `Timeout = 2` and a clock up to three: a time that is not over, just
  over and a second one that begins.  Clock and timeout together stay below
  `TimeModulus = 8`, so that only a difference that would be negative wraps.  One
  place: places share nothing but the table.  `MaxSkipped` bounds the count.
* *Eight bits, every unsigned and signed number of them, bases 2, 10, 16 and 36,
  limits up to ten*: a sign, every number of digits, the number without a
  positive counterpart, a limit before, at and behind each of them.
* *A ring buffer of seven bytes, a stream of nine, portions of one byte and of
  three*: packets of four and five bytes one behind the other, portions that end
  inside the preamble, the header and the payload, a preamble inside a header,
  a wrong checksum, an empty packet, and a header that announces more than the
  ring buffer holds and the working buffer would take.
* *A line of five characters, one letter, two arguments, ring buffers of one
  character*: a command with no argument, with empty ones, with as many as the
  array holds and with more, each behind a longer or shorter line.  One
  character is all that must not be forgotten.
* `CHECK_DEADLOCK FALSE` for signals, loop, parser, terminal and log (nothing
  need arrive, a bounded stream ends): the program may really stop
  after a fault, and a signal may have no slot to run and no node to give.

### Fairness

`FairSpec` of `EventLoop` assumes `WF_program(Loop)`: the loop goes on and the
handlers it calls return, which `EventLoop::loop` needs for any of its purposes;
and `WF_program(Tick)`: the clock advances.  (`program` is every variable but
`allowed`.)  No call of the interface and no interrupt is assumed to happen.
Interrupts may come without end, which is why `ActivationsAreHandled` says that
an activation becomes heard and not that none is left.  Both liveness properties
suppose that registrations come to an end, because a pass is only as long as the
list grows; `PeriodsElapse` also that the signal it speaks of stays registered
and connected, and that its time is not set anew for ever by calls.

`Parser` and `Terminal` assume weak fairness of `parseNewData` and of `read`:
the main loop, or the task, calls the handler that was asked for, and the
handler runs on.  Nothing is assumed to arrive, and no console to be free.

## 4. Proofs

A theorem holds for every value of the constants that satisfies the assumptions
its modules name, which TLC evaluates in every run: every size of an array, every
set of signals, nodes, bytes, strings, periods and timeouts, every depth, every
set of calls in `Usage`.  The bounds of the runs (`MaxStream`, `MaxSkipped`,
`MaxCount`, ...) are constants like the others.  The list of theorems with what
each says is in `PROJECT.json`; this section says along which argument they hold.

| Module | Invariants and action properties proved | Refinements proved |
|---|---|---|
| `RingBufferProofs` | `CallsTypeOK`; `TypeOK`, `NoOverlap`, `ReadsWhatIsStored`, `OverwriteKeepsNewest`, `PopRemovesOnlyWhatItReturned` | `RingBuffer` => `ByteFifo`; `RingBufferSpsc` => `SpscFifo`; `RingBufferOverwrite` => `SpscFifo` if `pushOverwrite` is never called |
| `MessageRingBufferProofs` | `TypeOK` | `MessageRingBuffer` => `LossyFifo` |
| `SignalSlotsProofs` | `TypeOK`, `ListsStayApart`, `NoNodeLost`, `CursorIsNeverNull`, `ActivationRunsAll` | `SignalSlots` => `SignalBus` |
| `EventLoopProofs` | `TypeOK`, `RegisteredOnce`, `PresetIsRegistered`, `ActivationNotForgotten`, `OnlyArmedTimersRun`, `PassVisitsAll` | |
| `LogProofs` | `TypeOK`, `LineIsOwn`, `MessageIsWhole`, `NoLogLeavesTheLineTaken`, `LineLeftAlone`, `OnceKeepsDistance`; `ExactWhenItFits`, `PrefixWhenCut` | |
| `ParserProofs` | `TypeOK`, `HandlesTheFraming` | |
| `TerminalProofs` | `TypeOK`, `CommandGetsItsWords`, `ConsoleShowsTheLine` | |

Hardly any of the invariants is inductive as the runs check it.  Each module has
an inductive one: `IInv` (in `RingBufferProofs` also `FInv` and `OInv`), with a
lemma for every action which says that the action keeps it.  The theorems follow
from that.  Two specifications need none: of `RingBuffer` called by one context
the type is enough, and of `Converters` a single step says everything.

*Ring index.*  For every buffer size from 2 on: indexes stay indexes, two offsets
below the size name two cells (`CellsDiffer`), what a moved head or tail does to
the stored size (`HeadMoves`, `TailMoves`), a free cell is none of the stored ones
(`FreeCellIsNotStored`).  Being a power of two is not needed there, only for the
mask (`IndexMask`).

*One caller.*  What is stored is a function of the array and the indexes
(`Contents`), so that the type is an inductive invariant, and every call is shown
to do to `Contents` what `ByteFifo` does to its queue, block by block where a copy
wraps.

*Two contexts.*  What makes the properties true is that the sizes computed when a
call begins remain safe: `PushFits` (the free size can only grow while a push is
under way), `ReadFits` (the stored size can only grow while a read is),
`DestIsStored` (the bytes copied out are still the oldest ones).  The refinement
adds that the bytes a push has copied are in the free cells behind the head
(`PushIsStored`), so that storing the head appends them all.  With `pushOverwrite` the type is proved
whoever preempts whom: `BlocksFit`, the lengths of the blocks, is all it needs.
Everything else needs `overwrites # "preempting"`, as in the runs:
`MeasuredIsTrue` and `OverwriteFits` say what the call has computed and that the
bytes between the new tail and the new head are the newest.

*Messages.*  The type holds whatever meets whatever.  The refinement is proved
under two hypotheses which are those of the run and which the code does not
enforce: `MaxOverlap <= 1`, at most one call of the other side falls into a call,
and `BufferSize >= 3`, without which one `pop` moves the tail past the head of the
`pushOverwrite` around it.  A reader whose tail was moved on (`Overtaken`) reads
the message that was displaced: `ReadIsOfTheOldest` says that this is still in the
cell it loaded, since the producer would need a second call to write that cell,
and `DisplacesFromFull` that a message is displaced only from a full queue.

*Signals.*  `PoolInv` names the nodes: there are sequences, one for each signal
and one for the released nodes, which are the linked lists from `m_slotList` and
`m_releasedSlots`, end, repeat nothing and share nothing, and the nodes behind
`m_lastSlotIndex` are in none.  (`Chain`, by which the module reads a list off the
links, is proved to find it.)  `CursorInv` says that without `reenter` a signal
runs once at a time and keeps its cursor; `WalkInv`, that without
`disconnectRunning` the slot an activation runs is in the list of its signal, the
slots it owes are behind that one, and the innermost activation of a signal finds
its slot under the cursor, if there is one.
From these follow the invariants for every call a slot may make, those that
`Usage` names included, since the exceptions are in the statements.  The
refinement adds `DataInv`, the data of an activation is that of its place in the
stack, and has a lemma for every action: connecting appends to the slots of one
signal (`WithLonger`), disconnecting cuts one out (`IsCutOf`), which leaves the
rest of a walk in order, and what is behind the slot that runs is what `SignalBus`
has left to run.

*Main loop.*  `RegistryInv` says that the list repeats nothing but a `SignalTime`
that was rebuilt, that the iterator is in it or right behind it, or on a chain of
removed nodes that ends there, which takes a handler that removes its own node, and
that what is owed to the pass is ahead of the iterator.  Removing from the list
(`Kept`, a recursive function) is proved to remove that signal and no other and to
move nothing across the iterator.  `RegisteredAsLongAs` says which objects the list
knows; `AlivePresetIsRegistered`, `RunningIsHeard` and `RegisteredIsArmed` tie
timers, activations and periods to the list.

*Log.*  `ObjectsAreSound` says what an object holds at each stage;
`OneAtATime` and `OneInsideTheOther`, how main program and handler nest and that
one is refused while the other has the line; `PortStaysFree`, that the port stays
free from its answer to the end of the message.  `TableIsTrue` joins the table of
`Once` with the destructors that are under way: at each of its stages a message
knows something of its place that stays true until its next step
(`KnowsItsPlace`), because no other message with `<< Once` is there, and the table
has the time of the last message that was sent, or of the one that will be
(`KnowsTheLast`).  `SkippedIsBounded` says that counts still held by objects are
within the bound.

*Parser.*  The invariant joins three things.  The ring buffer is the end of the
stream.  The state is true of the bytes at its begin, though it was reached by an
earlier look or in an earlier call (`StateIsTrue`).  And for every continuation
`e` of the stream, the packets of `stream \o e` are those handled, and then those
that begin at the parser's place in it (`HandledSoFar`): quantified over what may
still come, this survives the arrival of bytes between any two steps, where the
same of the present stream would not, since a packet cut off by its end is none
yet.  `RestsOnlyShort` gives that nothing is left at rest.  `PacketsOf` is a
recursive function; that it exists and what it yields is proved by induction from
the end of the stream.

*Terminal.*  `LineIsStored` says that the characters typed since the prompt are the
first cells of the array up to `m_endLine`, and none of them a terminator, whatever
earlier lines left behind; with it `ConsoleShowsTheLine` is inductive, since
`CancelIsExcluded` has no Ctrl+C wait in a ring buffer without `cancel`.
`CommandGetsItsWords` is the work of one step.  `parse` cuts the line where a space
stands and its n-th pointer is the place behind the n-th terminator; the words of the
line are found from its begin on (`WordsFrom`, a recursive function).  The two are
matched from the end of the line backwards (`OneInFront`, `StringInFront`): in front
of a word there is one terminator more, so that the rank of a terminator among those
behind a place is the rank of the word behind it (`StringsAreWords`).  What a command
then reads through a pointer (`CString`) ends at the first terminator, where the word
does (`StringIsWord`).

*Converters.*  That the generation cycle, which finds the last digit first, makes the
numeral asked for, which is stated from the first digit on, is proved by induction:
powers grow (`PowerIsMonotone`), so a number has exactly one number of digits
(`DigitsAreCounted`); its last digit is its remainder and the others are those of its
quotient (`LastDigit`, `MoreDigits`); so the numerals satisfy the equation of the
cycle and nothing else does (`GeneratedIsTheNumeral`).  More digits than it has begin
with zeros (`LeadingZeros`), which are those that `FloatToString` writes one by one.
What is written is then followed from sign to terminator as one text stored in a
blank memory (`StoredOneBehindTheOther`), or as a beginning of it (`Shows`): a number
behind a text either fits into what is left of the limit (`BehindFits`) or is cut at
it (`BehindIsCut`), and if nothing is left, the limit 0 that `UintToString` takes for
none writes beyond the buffer and still leaves a beginning inside it.

Induction over numbers is had from `NatLessThanWellFounded` and `WFMin` of
`WellFoundedInduction`: a set of numbers that is missed has a smallest element
(`NaturalsAreReached`, `EveryNatural`).  The library's induction rules that take an operator as a
parameter are not used.

Only model-checked, and why:

* liveness (`PacketsAreHandled`, `RingGetsRoom`, `ActivationsAreHandled`,
  `PeriodsElapse`, `CharactersDoNotWait`): fairness and `ENABLED` are out of the
  prover's reach;
* `MaskIsModulo` of `IndexMask`: bit by bit, with operators the provers have no
  theory of.

## 5. Not modelled

* Torn data of a `SignalMainLoop`: `m_data` and `m_quantity` are plain variables
  that `activ` writes from an interrupt while the loop reads them; any mixture
  may come out.  That the second activation before the handlers run replaces the
  data of the first is by design.
* `clear` of a ring buffer that meets the other side, and `SignalTime::activ`
  from an interrupt (from the main context it is `ActivTime`).
* Floating-point arithmetic: rounding, and the split into the two parts.  A value
  beyond `uint32_t`, whose conversion is undefined.
* Of `Log`: `failcounter`, more than one group and level (they
  share one mask), the ten bytes of `oncePostfix`, the hundred places of
  `onceSpecStorage`, its insertions and words half written when another context looks
  into it, hash collisions, and a message with `<< Once` before
  `setTransmitter`, which writes through a null pointer.
* Of `Terminal`: `help`, which does nothing, what commands do, and how the driver
  of the port signals.
* The limit of 500 signals of the etl list, and signals that are null.
* `Interface.h`, `driver/`, `LogGroups.h`, `TerminalInit.h` and etl are not part
  of the repository; the clock is the only external definition (`Tick`).

## 6. Plan

1. *Done*: ring buffers, signals, main loop, timers; first theorems.
2. *Done*: `Log`, `Converters`, `Parser`, `Terminal`; the data of activations.
3. *Done*: the invariants, action properties and refinements of ring buffers,
   messages, signals, main loop, log and parser for every value of the constants.
4. *Done*: `Terminal` and `Converters` for every value of the constants.
5. Left: `clear` of a ring buffer that meets the other side, activations of a
   `SignalMainLoop` with torn data, and with them the conditions under which the
   theorems about ring buffers and the main loop survive these calls.

# Verification of libipc3270

libipc3270 lets a program drive a 3270 terminal: either a `lib3270` session in
its own process (a *local* session) or the terminal of a running `pw3270`,
reached over D-Bus or, on Windows, a named pipe (a *remote* session).  This
directory holds TLA+ models of its core, the TLC runs that check them and the
proofs, checked by TLAPS, that what matters holds for every size.

Paths below are relative to the `src/` directory of the repository; `PROJECT.json`
names, for each definition, the lines it stands for.

## The system

| Part | State | Operations | Talks to |
|---|---|---|---|
| `Request` (`include/lib3270/ipc/request.h`, `session/remote/linux/request.cc`) | the message built so far, the response, a read position | construct, `push`, `call`, `get`, `pop`, destroy | the D-Bus connection, shared by all threads of the process |
| Remote session (`session/remote/*.cc`) | connection, object name, character converters | one `Request` per operation; the waits poll in a loop | `Request` |
| `Action` (`session/action.cc`, `core/actions.cc`, one class per back end) | the lib3270 descriptor, a default timeout | `activatable`, `activate`, `wait`, `activate(seconds)`, `try_activate` | `Request`, or the local handler |
| Local session (`session/local/*.cc`) | the handler (a mutex and the `H3270`), `timeout` | each operation is a call to lib3270 under the mutex; key presses are two | lib3270, whose callbacks run inside its calls |
| Session (`core/session.cc`) | none | `input` (a small command language), `find`, `count`, `compare` | the virtual operations of the back end |
| Character sets (`session/remote/session.cc`) | two converters | `setCharSet`, conversions | every text operation |
| Fields, properties, attributes, events | bounds of a field; otherwise none | read, write | the session |
| `Host` (`host/*.cc`) | a session, a timeout of its own, a stream buffer | forwards; waits for its own timeout | the session |
| Late loading (`core/windows/dynamic/init.cc`) | a path to go back to | the hook of the loader | the current directory of the process, the registry |
| Pipe request (`session/remote/windows/*.cc`) | two 8192-byte blocks, a mutex around the transaction | as `Request` | `pw3270` |

What is hard:

* *Concurrency.*  The library has no threads, its callers have: remote
  operations of several threads share one connection, local ones one mutex,
  and `timeout` and the converters are shared without any.
* *Another process.*  `pw3270` is slow, hangs, exits, is started again, is used
  by its user and by other programs at the same time.  Every remote operation
  of more than one call sees the terminal at several moments.
* *Time.*  Calls have a limit of ten seconds; waits are loops of one-second
  calls against a deadline in whole seconds of `time(nullptr)`.
* *Failure.*  A call that throws may have been executed.  Operations of several
  steps throw in the middle.

What makes each part correct:

* `Request`: the response is the one to the call that was made; nothing is
  executed twice; every call ends.
* Waits: what they report was true, recently; they neither miss a terminal that
  is ready nor run (much) beyond their seconds; they end.
* Actions: `push` performs the action it names on both kinds of session;
  `try_activate` does it or does nothing.
* Local session: calls to lib3270 are serialised, and the mutex is free whenever
  nobody is inside.
* Input: every character is typed or executed once, in order.  Search: `find`,
  `count`, `compare` agree with each other.
* Marshalling: what is pushed on one side is what is popped on the other.

`PROJECT.json` lists all parts under "components" and, under "hazards", the
places in the code where these properties are at risk.

## Modules

| Module | What it is |
|---|---|
| `RequestChannel` | what `Request::call()` promises, whatever the transport: at most one execution, a response only from an execution |
| `DBusRequest` | the D-Bus `Request` in full: objects, serials, messages, replies, limits, a server that comes and goes |
| `MCDBusRequest` | two threads, for TLC |
| `DBusRequestProofs` | inductive invariant, safety theorems, `DBusRequest` implements `RequestChannel` |
| `PipeRequest` | the same operations over a named pipe: message blocks, one pipe, one mutex |
| `MCPipeRequest` | two threads, for TLC |
| `PipeRequestProofs` | inductive invariant, safety theorems, `PipeRequest` implements `RequestChannel` |
| `ResponseValues` | popping values from a response, on both transports |
| `MCResponseValues` | responses of two arguments, for TLC |
| `RemoteWait` | the polling loops and the operations that end in one |
| `MCRemoteWait` | one thread, for TLC |
| `RemoteWaitProofs` | inductive invariant, safety theorems |
| `ActionNames` | the names under which a remote session asks for keyboard actions |
| `KeyboardActions` | `push(KeyboardAction)` of both kinds of session |
| `LocalSession` | the handler, its mutex, and the operations of several threads on sessions and actions |
| `MCLocalSession` | two threads, two sessions, for TLC |
| `LocalSessionProofs` | inductive invariant, safety theorems |
| `ScreenAccess` | cursor, fields, states and contents, while the terminal changes |
| `MCScreenAccess` | a screen of four positions, for TLC |
| `ScreenAccessProofs` | inductive invariant, safety theorems |
| `SessionInput` | a text from the application to the terminal: converters, and the steps of `Session::input()` |
| `ScreenSearch` | `contains`, `find`, `count` and `compare` on the bytes of the screen, in a session of `SessionInput` |
| `MCSessionText` | characters, charsets, texts and screens, for TLC: both modules in one run |
| `DataProofs` | `SessionInput`, `ResponseValues` and `ScreenSearch`: induction over data, an inductive invariant of each, safety theorems |
| `Host` | hosts, their timeouts, what they wait for, what a stream on them types |
| `MCHost` | two hosts, for TLC |
| `HostProofs` | inductive invariant, safety theorems |
| `DelayLoad` | the hook of the delay loader on Windows, and the current directory |
| `DelayLoadProofs` | inductive invariant, safety theorems |

The modules stand beside each other rather than on top of each other: `RemoteWait` takes a
call for what `RequestChannel` promises, and `DBusRequest` and `PipeRequest` are shown to keep
that promise; `ResponseValues` starts with a response they have delivered; `Host` takes a wait
for what `RemoteWait` and `LocalSession` make of it.  `DelayLoad` is about the time before any of
them.

### DBusRequest

`request[c]` is the `DBus::Request` on the stack of thread `c`.  Its `phase`
follows the object: "built" after the constructor and the pushes, "blocked"
inside `dbus_connection_send_with_reply_and_block`, "answered" when `response.msg`
is set, "thrown" while the exception unwinds.  `Construct`, `Call`, `Expire`,
`Destroy` are the constructor, `call()`, its failure at the limit, and the
destructor.  `Complete` is the end of `call()`; it happens in `Deliver`, when the
connection reads the reply that the object waits for.  `Call` is enabled in
"answered" too, because `push(...).call().get_int()` calls twice on one object;
libdbus then keeps the serial of the message, so that the replies to both calls
carry the same serial.

libdbus, the bus and `pw3270` are external and appear as `request.cc` relies on
them: `toServer`, `held` and `toClient` are the messages on their way, executed
but unanswered, and answered; `Execute`, `Answer`, `Drop`, `Bounce`, `Exit`,
`Restart` and `Tick` are theirs.  These sets order nothing: the bus does keep the
order of one connection, but several threads and a `pw3270` that answers when it
can make every order of replies possible, and nothing in the library relies on
one.  `call`, `issued` and `runs` are history variables that name calls and count
their executions; no guard of the library reads them, except the bound
`issued < MaxCalls`.

The order of answers and of executions, the moment of each reply relative to the
limit, exits and restarts at every point, and the number of threads are all free.
Values are left out: which arguments a message has does not change its life.  What an
operation gets out of a response is in `ResponseValues`.

### PipeRequest

`request[c]` is again the object on the stack of thread `c`: its `phase`, the bytes used of its
block `out`, and the call whose answer is in its block `in`.  `Push` is `pushBlock`, which refuses
what would fill the block.  `owner` is the mutex of the `Handler`: `Transact` takes it and writes
the message, `Receive` and `Break` are the two ends of `TransactNamedPipe()` and release it, and
`Refuse` is a transaction that fails at once, because pw3270 has closed the pipe or because
something unread is in it.  The session never opens its pipe again, so both last.

An answer longer than the block fails the transaction and leaves its rest in the pipe
(`unread`).  An answer with an error code is an exception, as it is over D-Bus.  There is no
limit of time: a call ends when pw3270 answers or exits.  In exchange a call that threw is
settled (`ThrownIsSettled`), which does not hold over D-Bus: there the message may still be executed.

`TransactNamedPipe()` and `pw3270` are external: `toServer`, `held` and `unread` are what is in
the pipe or inside pw3270, and `Execute`, `Answer` and `Exit` are its steps.

### ResponseValues

One response and the `pop()`s that an operation makes on it.  `DBusTypes` and `PipeTypes` are the
tables of types that each `pop()` accepts, which differ; `As` is the conversion to 32 bits and
`Size` that of a value in a block; `TwoTo` are the powers of two, as a function, because the
provers know no powers.  `place` is what the code keeps: on D-Bus the iterator, which
only `pop(std::string &)` moves on (`DBusNext`), on a pipe the offset `in.current` (`PipeNext`).
`GetCursorPosition` is the one remote operation that pops two values: the template of `request.h`
takes all but the first by value, so that the column is lost on both transports.

`ReadInOrder` says of D-Bus what its code can keep: values come in order up to the first one that
is not a string.  The widths of integers are scaled to 2, 3 and 4 bits; the value of a string is
its length.

### RemoteWait

`op[c]` is the operation thread `c` is in, from one call to the next: `stage` says
whether it is inside a call, in `sleep(1)`, or back in the application; `ask` which
of its requests the call is for.  Each of `AfterConnect`, `AfterActivatable`,
`AfterActivate`, `AfterWait`, `AfterState` is what the code does with one response;
`Loop`, `Round`, `BeginRound`, `GiveUp` are entering a loop, its `while`, the first
call of a round and what follows the loop.  The seven operations that poll with one
request per round share the kind "wait"; `waitForKeyboardUnlock` (which keeps its
last answer and never throws by itself), `wait(seconds)` (which sleeps and asks for
the connection state), `connect`, and the two ways to activate an action have a
kind each.

A call is: `pw3270` replies (`Reply`) and the thread goes on (`Receive`), or the bus
fails it (`BusError`), or it throws at `CallLimit` (`Expire`).  How the call comes
about is `DBusRequest`'s business.  `terminal` changes at any moment (`Change`), also
between a reply and its receipt.  `seen[t]` is the last tick at which the terminal
was in state `t`: a history variable, for the properties only.

`Action::wait` sends its message twice in a round, as its code does; the answer of the second
call is the one it looks at.  A refusal of `try_activate` (it throws, because the terminal has
locked between its two calls) is told from one for no reason by `RefusedOnlyIfChanged`.

Time is in ticks, `Second` of them in a second, so that operations start in the
middle of a second and deadlines fall between ticks.  Code between two calls takes
no time.

### ActionNames and KeyboardActions

`ActionNames` is `toCharString`: its table is built the way the compiler builds it from the
literals, the missing comma included.  `KeyboardActions` has both back ends of
`push(KeyboardAction)`, and `SessionInput` uses the table for the commands of `input()`.

### LocalSession

`session[s]` is a `Local::Session`, `actions` the sessions of which the application holds an
`Action`.  Both have a `shared_ptr` to the `Handler`, whose mutex is `owner[s]` and whose
`H3270` is `handle[s]`; the sessions in `Local` are those of `getLocalInstance()`, whose
handler makes and frees its handle, the others are of `getInstance(H3270 *)`, which does
neither.  `op[t]` is the operation of a thread: `op.todo` the critical sections it has left,
since that is what operations of this back end differ in.  Most have one; a key press has
another one for the automatic wait, if `timeout` is not zero *then*; `try_activate` and
`activate(seconds)` have two or three.  `Proceed` is the code between two sections, `Enter` and
`Leave` are the two ends of `lock_guard`, and `Leave` either goes on or ends the operation,
because any section may throw.  `SetTimeout` writes `timeout` without the mutex, as the code
does.  `Callback` is lib3270 calling a handler of a local session from inside a call, in the
thread that made it.

lib3270 is external: a call returns after a while.  `wanted` is a history variable.  The
application is assumed not to destroy an object that one of its threads is using (`Close`,
`DropAction`), as with every C++ object; it may destroy a session and keep its actions.  One
`Action` for each session stands for all of them, since nothing but their number tells them
apart.

### SessionInput

One session, of either kind, and one `input()` at a time.  `converter` are its two descriptors of
iconv.  `Converters` is what `setCharSet` may leave: none if the charsets are equal, and a closed
one for each `iconv_open()` that fails, for a charset iconv does not know or for want of memory,
because its result is not looked at and `(iconv_t) -1` is what a closed descriptor is.
`HostCharset` is what the other side speaks: UTF-8 on D-Bus, the display charset of lib3270.

`TypePiece`, `Command`, `CommandAtEnd` and `TypeRest` are the branches of the loop and what follows
it; `at` is its pointer, `written` what has reached the terminal.  A character of `written` carries
the charset it is encoded in, or "any" if it is the same in all of them.  `Converted` is
`convertToHost` with its buffer of twice the length of the input: a result that fills it exactly has
no terminating zero (any continuation), one that does not fit, or a character that the host lacks,
leaves it empty; without a converter the length is ignored (`session/remote/session.cc:149`), so
that each piece of a text with commands is typed with the whole rest of the text behind it.  A
control character at the end sends the pointer over the terminating zero; the model stops there,
with or without garbage.  Every key and every text may be refused, which ends `input()` in the
middle.

`Meant` is the table of `input()`, `Keys` the keys that are pushed: a remote session asks for a
`KeyboardAction` by its name in the shifted table of `ActionNames`, so that of the commands only
`@E` and `@F` do there what they stand for, and the PF and PA keys, which go another way.

`Meaning` is the reference: what the documentation of `input()` in `session.h` says a text
stands for, as a recursive function on its ends.  The code's table differs from the documented one
in one command too: PF18 is documented as `@u`, and the code takes `@i`.  `Safe` names the texts
for which `InputExact` is claimed: without a command on which the documentation and the session
differ, without a control character at the end, and with characters that the host has and that leave
room in the buffer; and the descriptor is open.  The run has all of what this leaves out.

`CharsetAgreed` is about sessions that were given a charset: a remote one that never was types
ISO-8859-1, though `remote/set.cc` says that D-Bus calls are always UTF-8.  Where iconv could not be
opened texts go as they were written, all of them.

The build is the one with iconv (`HAVE_ICONV`), on Linux.

### ScreenAccess

One thread and the screen of one session: local, over D-Bus, or over a pipe.  `op.stage` is the
next thing the operation asks of the terminal: each stage is one section of a local session or
one request of a remote one, and the terminal may change between them (`Change`).
`pop(text)` and `FieldFactory()` ask for the cursor (`AskCursor`), the bounds (`AskBounds`), and,
for `pop`, the text (`Read`).  Remote sessions have no fields and throw, D-Bus at once, a pipe after
it has asked for the cursor.  `field` is a `Field` that the application keeps; its bounds are
those of the screen it was made on.  `errno` is what earlier failures have left: a local
`getCursorAddress()` takes an address of zero for an error if errno is set.  `FieldFactory(row, col)`
does not look at whether `lib3270` knows the address; where it does not (`Outside`), the field is
refused or is that of the cursor.

A text is its length.  `Converted` is `convertToHost()` called with the length of the field:
a longer text is cut there by iconv, one that is shorter is read on behind its end.  Characters of
several bytes are in `SessionInput`.  That an application does not use a field
after it has destroyed the session is assumed.  `op.calm` is history: has the terminal stayed as
it was since the operation began?

### ScreenSearch

One thread that looks for a text, on a screen that may change before and after it is read
(`Change`), in a session of `SessionInput` (`Setup`).  `Look` is `toString(baddr, len, '\0')`: the
part of the screen it reads, through `convertCharset()`.  `Delivered` are the bytes that arrive:
UTF-8 over D-Bus, the display charset from lib3270.  `Conversions` is what becomes of them, the
counterpart of `SessionInput`'s `Converted`: without a descriptor a copy; with one, in a buffer of
twice the *bytes* delivered, the text in the application's charset; nothing at all if it has one
character that charset lacks, or does not fit (`Unreadable`); and a text without an end if it fills
the buffer (`Unterminated`).  A D-Bus session that was never given a charset takes the UTF-8 it gets
for ISO-8859-1, byte by byte (`Recoded`, `Reread`): its texts are `Misread` unless they are ASCII,
and what `SearchIsTrue` still says of it is that ASCII screens are searched rightly; `AsciiIsFound`,
that ASCII texts are found on every screen that it can read at all.
`Find`, `Compare` and `Occurrences` are `std::string`'s; places are of bytes, addresses of the
screen of characters, and nothing converts between them.  `ReturnFind`, `ReturnCompare` and
`CountRound` are what follows: `count()` looks again from the place of its last hit, so that it
returns only if there is none.  `SizeLimit` is the range of its counter, a `size_t`.  `lastFind` is a
history variable: the last `find()` on this screen, which `FoundComparesEqual` compares with
`compare()`.

### Host

Each `Host` has its own session and is used by a thread of its own; the remote ones share one
`pw3270`, its keyboard (`locked`) and its wait mode (`mode`).  `timeout[h]` is the Host's own
variable, `session[h]` that of its local session.  `SetTimeout` is `Host::setTimeout`, which
writes the one, then the other, or asks `pw3270` for the mode, in that order: an exception of a
remote session leaves the Host with a timeout nobody else knows.  `Connect`, `Key`,
`WaitForReady`, `WaitForKeyboardUnlock` take their seconds from one or the other.  A round of a
wait ends in `AnswerWait`, `AnswerNotYet` or `Fail`; its details are `RemoteWait`'s.
`Write` is `push(text)` and, byte by byte, an `ostream` on the Host (`overflow()`).  `Converter[h]`
says whether the session of a Host has a descriptor of iconv.  If not (UTF-8 on both sides of D-Bus,
or `iconv_open()` failed) each byte goes as it is, in a request of its own, and only a byte 0 is lost,
which ends the string.  If so each byte is converted for itself into two: one of a longer character
does not convert, and vanishes, as does one that the host lacks or that takes three bytes there; one
that takes two ("wide": ISO-8859-1 to UTF-8) fills the buffer, has no end, and may take along what
follows in memory (`Spoils`, `op.spoiled`).  `FailDone` is a request that was executed and whose
answer was lost.  `InputDefault` is `input(text)` with the
length it has by default, which throws.  `alive` ends with the first request that fails inside an
operation that is `noexcept`.

### DelayLoad

The hook `IPC3270_DelayLoadHook()` of two or more threads, one action for each access to what they
share: the current directory of the process and the static `savedpath`.  `Start` reads the current
directory, `Save` writes `savedpath`, `Enter` goes to the place of installation (`InstallLocation`,
from the registry), `Load` is the loader, `Check`, `Restore` and `Clear` are the way back.
A thread at `savedpath` while another one is about to write it is a data race of two unlocked
`std::string`s (`Racing`): what is read, or is left, may be of two paths (`Mixed`), which is no
directory (`Torn`), or by chance any one there is: `C:\pw3270\bin`, of `C:\myapp1\bin` and
`C:\pw3270`.  `Move` is the application that changes its directory itself.  `home`, `moves`, `from`
and `disturbed` are history variables; `disturbed` says what has come between since the application
last moved: "overlap", "race", "unread" (the directory could not be read), "moved".

`CwdRestored` is about loads that nothing disturbed.  `LeftAtHomeOrInstall` is about loads that
overlap without a race: after one the application may be left in a third directory, which the run
has, and the property excludes.

## Runs

| Run | Configuration | Shows |
|---|---|---|
| `requests` | `DBusRequest.cfg` | `ResponseIsOwn`, `AnsweredRanOnce`, `ImplementsChannel` (refinement of `RequestChannel`), and `CallsEnd` under fairness |
| `pipe_requests` | `PipeRequest.cfg` | types, `ResponseIsOwn`, `ThrownIsSettled`, `PipeClean`, `ImplementsChannel`, and `LockFreed` under fairness |
| `response_values` | `ResponseValues.cfg` | types and widths, `ReadInOrder`, `OnArgument` |
| `cursor_position` | `CursorPosition.cfg` | violated: `getCursorPosition` of a remote session reports column 0 |
| `waits` | `RemoteWait.cfg` | `SuccessIsFresh`, `NotReadyIsJustified`, `NotEarly`, `Overrun`, `RefusedOnlyIfChanged`, and `OperationsEnd` under fairness |
| `keyboard_actions` | `KeyboardActions.cfg` | violated: a remote session performs another action than the one pushed |
| `local_sessions` | `LocalSession.cfg` | `Serialized`, `HandleLive`, `OnlyWantedWaits`, and `MutexFreed` under fairness |
| `screen_access` | `ScreenAccess.cfg` | `PopReadsItsField`, `AnswerIsTrue`, `ThrowsForReason`, `TypedInField` |
| `session_text` | `SessionText.cfg` | `InputExact`, `CharsetAgreed`; types, `SearchIsTrue`, `AsciiIsFound`, `FoundComparesEqual` |
| `count_occurrences` | `CountOccurrences.cfg` | violated, under fairness: `count()` does not return the number of occurrences |
| `host` | `Host.cfg` | `WaitsAsSet`, `ModeAsSet`, `UnlockedIsTrue`, `StreamTyped` |
| `delay_load` | `DelayLoad.cfg` | `CwdRestored`, `LoadsFromInstall`, `LeftAtHomeOrInstall` |

A violated property quotes a statement of the repository that the code does not keep; "findings"
in `PROJECT.json` has the quotations.  The runs of `PipeRequest`, `ResponseValues` and `ScreenSearch`
check a type invariant, where it says more than types (that no message fills its block; widths; npos); in
the other modules `TypeOK` is part of the inductive invariant.  These are all theorems, for every
value of the constants.

Bounds.  `requests` has two threads and three calls: enough for one thread to call
twice on an object while another one's call is answered late, or for a late answer
to meet the second object of the same thread; a limit of two ticks lets the answer
come before, at and after it.  The threads are alike, but TLC does not support symmetry
for liveness, which the same run checks.  In `waits` a second
is two ticks, the limit of a call three (in the code it is ten times the second; what
matters is that it is longer), waits are for 0, 1 or 2 seconds and operations start
until tick two, so that each starts at both phases of a second
and at most three rounds fit.  One thread is enough: operations of different threads share
only the terminal, which the environment changes more freely than they could; the
proofs are for any set of threads.  `AnswerLimit` is above `CallLimit` where `pw3270`
may hang, and two where it answers as asked.

`pipe_requests` has blocks of four bytes, one of them the header, and values of one and two bytes
(and the byte of their type), so that a message fills the block but for one byte and another one
is refused; answers are shorter than the block, fill it, or are one byte longer.  Three calls
of two threads are one answer too long, one call that meets its rest, and one that was waiting for
the mutex.  `response_values` has every response of at most two arguments of the eight types, in
variants too, at the ends of each type's range, and every sequence of `pop()`s up to one past the
end.

`local_sessions` has two threads and two sessions, one of its own handle and one attached to
the handle of the application, and timeouts of zero and of the default five: two threads meet
in a mutex, one can destroy a session or change its timeout between two sections of the
other.  `HandleOf` is injective there: with two sessions attached to one handle their mutexes
are two, and nothing serialises the calls (a hazard; the theorem names the assumption).

`session_text` has both kinds of session, before any charset is given and with each of four; iconv
knows three of them, and may fail to open those too; lib3270 displays CP1252.  Texts are all those
of up to three characters over the control character, a command that goes by the right name, one
that goes by another one remotely, one that a remote session refuses, one that only the code
has, and characters of up to two and three bytes, the last one missing from ISO-8859-1: a piece and
a command, a command and the rest fit in it.  Screens have three positions, so that a conversion
fits, fills its buffer exactly, overflows it, and fails; texts to look for are empty, as long as a
character, and longer; the screen changes once, before or after it is read.  The application types
before it searches: nothing that `input()` leaves behind is read by a search.
`count_occurrences` has one character, all screens of it and all texts, and fairness of `count()`
alone.

`screen_access` has a screen of four positions without fields, with one, with two, and with empty
ones; texts are shorter than a field, as long, and longer; two changes can come between any two
looks of an operation.

`host` has two hosts, each local or remote,
so that two share `pw3270`, two operations of one and one of the other, timeouts of 0 and 1 and
a default of 2, which is not among them; one of the two has a converter; a stream writes one byte of
each sort.  `delay_load` has two threads, four directories (the
application's, another, the installation's, one whose path is too long), one path that does not
exist, and two registry keys; the application moves twice, so that it can move before and under a
load.

`CHECK_DEADLOCK FALSE` stands where the bound on calls, changes or the last start lets the
modelled program come to rest.

Mutants.  Beside each definition a few wrong versions of it are kept (`CallAfterThrow`,
`LoopTooShort` and so on, each marked "Wrong"), one for each property; put in its
place they make TLC report that property violated.

Fairness.  `FairSpec` assumes that clocks advance and that a thread that is due (its
limit has come, its reply is there, its sleep is over) runs.  That is what the
operating system and libdbus give.  Nothing is assumed of `pw3270`, of the bus or of
the callers: calls and waits end because of their limits alone.  The exception is `PipeRequest`,
where the code has no limit: `LockFreed` assumes that pw3270 takes messages and answers
them, and fails without that.  In `LocalSession` handlers
return and calls of lib3270 return however many handlers they call (strong fairness, since a
handler interrupts the call); nothing is assumed of the order in which threads get a mutex,
and no thread is promised that it gets it.  `CountSpec` lets a thread that is in `count()` run.
`response_values`, `screen_access`, `session_text`, `host` and `delay_load` check safety only, and
assume no fairness.

## Proofs

All theorems hold for every set of threads, every bound and every limit that the
assumptions of the modules allow: `CallLimit` positive; in `RemoteWait` `Second` positive, a call's
limit longer than a second, an answer not faster than a second.

`DBusRequestProofs`.  `ResponseIsOwn` is not inductive.  `IInv` adds where the answer
to a call can be: serials are never given twice (`SerialsDistinct`), what travels under
the serial of an object belongs to the call the object is in and nothing travels once
it is answered (`TrafficOK`), a call is in one place only (`OnePlace`), and it has been
executed exactly when it left the way to the server (`RunsOK`).  `TrafficOK` is the point: it
is why a second call on the same object, under the same serial, cannot be given the
answer to the first, and why the object must not be used again after an exception.
`TypeCorrect`, `OwnResponse` and `RanOnce` follow; `Refinement` maps every step to one of
`RequestChannel` or to none: `Call` to `Begin`, `Deliver` to `Return` or `Throw`, `Expire` to `Throw`,
`Execute` to `Execute`, `Destroy` to `Release`.

`PipeRequestProofs`.  Answers in the pipe do not say what they answer, so that `ResponseIsOwn` rests
on the mutex: `IInv` says that it is held exactly by the thread in a transaction (`MutexOK`), that
everything in the pipe or inside pw3270 belongs to that thread's call, but for an answer that
did not fit (`TrafficOK`), that this is one thing at a time (`InFlight`), that calls of
different objects differ (`CallsDistinct`), that objects are well formed (`ObjectsOK`), and how
often each call has been executed (`RunsOK`).
`TypeCorrect` includes that no message ever fills its block, for any sizes.  `OwnResponse`,
`SettledThrow` and `CleanPipe` follow, and `Refinement` maps every step to one of `RequestChannel`.

`RemoteWaitProofs`.  `IInv` says for each operation which requests it can be in
(`AskOK`), how its start, its deadline and the limit of its call relate (`TimesOK`), that a
reply on its way was true when it was given (`ReplyOK`), and what has been seen when
it is over (`OutcomeOK`).  The arithmetic of whole seconds is in two lemmas: before the
deadline second the time is not over (`InTime`), from it on less than a second is missing
(`OutOfTime`).  The rest are lemmas about the pieces an operation is made of (`AskingOK`,
`SleepingOK`, `DoneOK`, `RoundOK`, `LoopOK`, ...), so that the step lemma has one case per
action.

`LocalSessionProofs`.  `Serialized` needs the mutex to be held exactly by whoever is inside
(`MutexHeld`, `HolderInside`), and `HandleLive` that the object an operation is called on stays
(`UserAlive`) and keeps the handler (`HandlerAlive`); `OnlyWantedWaits` that every operation in
progress has seen a timeout that is there now (`TimeoutSeen`).  With the types and `SectionLeft`
this is inductive.  `SerializedCalls` assumes that no two sessions have the same handle, the
others nothing beyond the constants' assumptions.

`ScreenAccessProofs`.  Half way through an operation on a terminal that has not changed, what it
has seen is still so (`Seen`), and each operation is in one of its stages (`StageOK`); with the
properties themselves this is inductive.  `ItsField`, `TrueAnswers` and `ReasonToThrow` follow, for
every screen and every number of changes.  For the types and `InsideField` a second invariant is
proved beside it: bounds that were found are on the screen (`BoundsOnScreen`; `MinExists` and
`MaxExists` give the end of a field), and the text of `set()` stays in them (`SetOK`).

`DataProofs` is about three modules whose properties are about sequences of any length, so that it
extends all three: names that would clash begin with `Pop` in `ResponseValues` and with `Search` in
`ScreenSearch`.  All of its induction is over numbers below some length.  The library's theorems of
induction have an operator as a parameter, which no prover here can instantiate; `Induction` is
about a *set* of numbers instead, and follows from the smallest number that is not in it
(`LeastExists`).  `RecursionExists` follows from it: there is a function with a given first value
and given steps, so that what a `LET f[n \in S] == ...` chooses is what its equation says
(`MeaningSteps`, `LengthIsSum`, `Offsets`, and `Flattened` for the community modules'
`FlattenSeq`).  What iconv and the charsets are is in `BytesAssumption` and `CodeAssumption`: a
character has bytes in each charset or is missing there, and ASCII is the same everywhere.

* *`input()`.*  `CharsetAgreed` needs that the converter of a session and the charset of its
  application go together, if it is open (`Paired`), from `setCharSet()` on, and that everything typed
  since has the charset that follows (`Written`): every branch of `input()` only appends (`Appended`,
  `ConvertedItems`).  `TypeCorrect`
  includes that the pointer never leaves the text.  `InputExact` needs `ExactOK`: what is written,
  followed by what the text from the pointer on stands for (`Whole`), is what the text stands for.
  Each branch keeps it: a piece without a control character stands for its characters (`TypedRun`),
  and none of it is lost in the conversion (`RoomEnough`, `FineConverted`).
* *Responses.*  `PlaceOK` says where the next argument is: on a pipe at the offset that follows from
  the number of values popped, since every argument moves it by at least one byte
  (`OffsetsIncrease`) and no two have the same; on D-Bus as long as only strings were popped.
  `PoppedOK` adds the types: a conversion to `Word` bits keeps every value that has a place in them
  (`Powers`, `AsFits`, `FitsIs`), for every width.
* *Searches.*  `SInv` says that the contents are a conversion of the screen that was read
  (`ReadOK`), what the result of each search is and that the `len` of a `compare()` without one is
  that of its text (`AnswerOK`), and that the last `find()` was right if the screen has single bytes
  only (`FoundOK`), with the types of the session and the search (`SearchTyped`).  The theorems need
  what a conversion can be (`ConversionIs`: all, nothing, or all and something behind it, unless it
  is misread), that ASCII is ASCII also when its bytes are read again (`AsciiReread`), that
  nothing is found in no contents but the empty text (`EmptyFound`), that what is found stays found
  when more follows (`KeptBefore`), and that bytes and characters have the same places when each
  character is one byte (`OneByteEach`, `PartOfBytes`).

`HostProofs`.  `IInv` says that a Host and its local session agree (`AgreeOK`), what the mode is while
nobody else sets it (`ModeOK`), and of each operation what it waits for (`WaitOK`), that a keyboard
which is unlocked now has been seen so (`UnlockOK`), and that a stream has typed exactly what it has
passed (`StreamOK`), whether its session has a converter or not.  `OnlyNoExcept` says besides that the process ends only in an operation that
is `noexcept`.

`DelayLoadProofs`.  `IInv` says where the current directory and `savedpath` can be while no two
threads have raced for it (`PlacesOK`; what an earlier race has left there is written over before it
is read), that a race is one of loads that overlap (`AloneOK`), that nothing happens without a place
of installation (`NowhereOK`), and, for a thread that loads alone, where it is at each stage and that
`savedpath` is the way home (`LoadOK`).  `Restored`, `FromInstall` and `NoThirdPlace` follow for any
number of threads; `NoThirdPlace` is about loads that overlap, but do not race.

Both refinements and every invariant that a run checks are theorems, but for `AsciiIsFound`.  Only
model-checked: `AsciiIsFound`, which would need that the bytes of UTF-8 and of what is read again from
ISO-8859-1 can be told from ASCII, a table and not an assumption of the modules; and `CallsEnd`,
`LockFreed`, `OperationsEnd` and `MutexFreed`, because liveness and `ENABLED` are beyond the prover.
The three properties that are violated are refuted by their runs.  Where a theorem has a condition the
run has states on both sides of it (`InputExact`: `Safe` and an open converter; `SearchIsTrue`:
`Misread`; `FoundComparesEqual`: single bytes; `LeftAtHomeOrInstall`: a race).  The exception is
`SerializedCalls`: its condition is about a constant, and the run has only sessions with handles of
their own.

## Not modelled

What a later extension could add:

1. Converters that are replaced while another thread converts: `iconv()` on a descriptor that
   is closed under it may do anything, so that a model could only say that the order is the caller's
   duty.
2. `setHostURL` and `disconnect`, one request each.
3. The build without iconv, in which every conversion is a copy.
4. The forwarders of `Host` that add nothing to the session's operation.
5. The error message in an answer over a pipe: where it fills the block, the zero that ends it is
   written one byte behind it (`session/remote/windows/request.cc:204`).
6. How long lib3270 waits after a key: `timeout` is read a second time for it, inside the section
   (`session/local/actions.cc:109`), and may be another one by then.

Not to be modelled: properties and attributes (descriptors and one-call accessors), events
(`Session::fire` does nothing, `core/session.cc:69`), the rest of start-up (registry, event log,
user names: system calls without protocol; on Linux the linker loads the library), the test
program, packaging, translations.

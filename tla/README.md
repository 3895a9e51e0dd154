# A verification of stdcorelib

stdcorelib is a C++17 support library: processes, plugins, registries, console output,
logging, a command line parser, JSON, containers, strings. This directory holds TLA+ models of
the parts of it that have state shared by several actors and of the algorithms whose edges are
hard to test, the TLC configurations that check them, and proofs, checked by TLAPS, of the
properties that matter most. `PROJECT.json` says which lines of the source each definition
stands for.

    tlc -workers 2 -config PopenLifecycle.cfg MCPopenLifecycle.tla
    tlapm Popen_proofs.tla

`Parts_proofs` takes some thirteen minutes, `Stores_proofs` ten, `CommandLine_proofs` five, the
others fewer.

Line numbers without a file name are of `src/support/popen_unix.cpp`.

## The system

| component | state | operations | what is hard |
|---|---|---|---|
| `Popen`, running child | `_child_created`, `returncode`, `_waitpid_lock`, `error_code`, the kernel's entry of the child | `poll`, `wait`, `kill`, `terminate`, destructor | one status, one pid, several threads; the pid is free once collected |
| `Popen::start()` | six handles, `_devnull`, the streams, `args`, the descriptors open in the process | one call, some thirty that may fail | what a failure half way leaves; a retry |
| child between fork and exec | its descriptor table | `_child_exec()` | numbers that overlap 0, 1, 2; what exec inherits |
| `communicate()` | three descriptors, what was written and read, the deadline, the child | one poll loop | deadlock over full pipes, timeouts, a reader that goes away |
| `sigpipe_guard` | the SIGPIPE disposition of the process | constructor, destructor | belongs to the process, held by threads |
| `SharedLibrary` | a handle, a path, `released`; the loader's count | `open`, `close`, `release`, `resolve`, moves | handles closed twice, never, or after being given up |
| `DynamicRegistry` | entries, listeners, a lock | `add`, `remove`, `clear`, `add_listener`, `remove_listener` | listeners are told outside the lock, from a copy; callbacks call back |
| console, targets | the table of targets, the colour mode | writers, `set_color_mode` | FILE addresses, descriptors and targets that change behind the table |
| console, writers | the output lock, the attributes each output believes in, the terminal | `puts`, `fputs`, `cfputs`, the raw writers | what is remembered against what the terminal shows |
| logging | categories, filter, rules, callback | constructor, destructor, `setFilterRules`, `setLogFilter`, `log` | levels read without the lock |
| `StaticRegistry` | a list of nodes | `add_node`, iteration | nothing is locked; somebody walks while a plugin loads |
| type identity | a table of names, a cached id in every module | `resolve_type_id` | first use by several modules, unloading |
| command line parser | commands, options, arguments, what was read | `parse` over tokens | scope of options, order of matching |
| JSON and CBOR | none: a writer and a reader over bytes | `toJson`, `fromJson`, `toCbor`, `fromCbor` | bounds, depth, numbers, what is cut off |
| `vlarray`, `linked_map`, `any` | elements | container operations | moves between inline and heap storage, order and index together |
| `Popen` on Windows | as above, with handles and worker threads | as above | handle lists, threads against a timeout |
| strings, UTF | none | `format`, `varexp`, `split`, `vasprintf`; conversions | placeholders in what replaces one, buffers sized beforehand |
| versions, system, paths, Windows registry | none | pure functions, queries | - |

Interaction: `start()` (PopenStart) makes the descriptor table the child begins with
(ChildFds) and the object the lifecycle works on (PopenLifecycle). `communicate()`
(PopenCommunicate) works on the streams `start()` left, holds a `sigpipe_guard`
(SigpipeGuard) over its loop and ends with the wait and kill of the lifecycle.
`DynamicRegistry` calls listeners back; plugins come and go through `SharedLibrary`, and
with them the nodes of a `StaticRegistry` and the entries of type identity. The console's
writers ask the table of targets what a stream is; a log record ends in a writer. JSON
text and CBOR use the validation that `Utf` is about.

## Modules

| module | what it is |
|---|---|
| `PopenLifecycle` | the running child, threads over the process table entry |
| `ChildStatus` | what a Popen promises about the exit status: an abstract specification |
| `PopenImplementsStatus` | the refinement mapping from the first to the second |
| `PopenCommunicate` | `communicate()` against an arbitrary child |
| `Popen_proofs` | proofs about the child, of that refinement, and about what a call of `communicate()` that is over can say |
| `PopenStart` | `start()`, by the descriptors it opens and closes |
| `PopenWin` | the Windows port: start, kill, wait, `communicate()` with its threads |
| `PopenPorts`, `PopenPorts_proofs` | the last two, one in a behaviour; proofs about both |
| `Stores` | `LogRegistry`, `Any`, `LinkedMap` and `VLArray`, one in a behaviour: see below |
| `Stores_proofs` | proofs about log levels, `any`, `linked_map` and `vlarray` |
| `Parts` | `Stores` and the modules down to `LogRegistry`, one in a behaviour: see below |
| `Parts_proofs` | proofs about the guard, library handles, type ids, the console's targets and static registries; what follows for `Parts` from `Stores` and the next three |
| `ChildFds`, `ChildFds_proofs` | the child's table between fork and exec, by number |
| `DynamicRegistry`, `DynamicRegistry_proofs` | changes and listeners |
| `ConsoleOutput`, `ConsoleOutput_proofs` | the writers, their lock and the attributes |
| `SigpipeGuard` | the guard on several threads |
| `SharedLibrary` | objects over the loader |
| `StaticRegistry` | the list of static objects under loads and walks |
| `TypeIds` | one id for a type, whichever module asks |
| `ConsoleTargets` | what the console remembers of its targets |
| `LogRegistry` | categories, rules, filters, and threads that log |
| `Any`, `LinkedMap`, `VLArray` | the containers, down to the objects, the nodes and the cells |
| `CommandLine`, `CommandLine_proofs` | `Parser::parse()`: a line of tokens against a tree of commands; what a parse guarantees for any of them |
| `JsonValues`, `JsonText`, `Cbor` | the values; their text and its reader; their bytes and their decoder |
| `Utf`, `Text` | conversions between encodings; `format`, `varexp`, `split`, `vasprintf` |
| `MC...` | instances for TLC: values for the constants; `MCData` puts the parser and the modules about data side by side |

### PopenLifecycle

A step is the code between two points at which another thread, the child or the
kernel can get in. `pc` names these points: `pollEnter` is `_internal_poll()` (1135)
up to its `try_lock`, `pollWaitpid` the second look at `returncode` and the
`waitpid()` (1156-1161), `pollStore` the store of the status (1163), and in the same
way for `_wait()` (1184) and `send_signal_impl()` (1257). `waitpid()` and the store are
two steps because the pid is the kernel's again after the first. `errorCode` is one
variable, as `error_code` is one member, although every call writes it. `child`,
`status`, `pending` and `recycled` are the kernel's side. `strays`, `raced` and `refused` are
history: who signalled a stranger, who was overtaken by another's `waitpid()`, and who was in a
timed wait when the kernel refused somebody's signal.

The reads of `returncode` outside the lock are data races in the C++ sense. They are
modelled as atomic reads of the old or the new value; a torn `std::optional<int>` is
not modelled.

Left out: the delay between two polls of a timed wait, job control (`WIFSTOPPED` needs
`WUNTRACED`, which nobody passes), `waitpid()` failing otherwise than with `EINTR` or
`ECHILD`. Two calls are never made once a destructor has begun, which C++ demands of
the caller. `start()` is one step here.

### PopenCommunicate

A parent step is one system call. A pipe is a number of units, input and output are
counts, the clock is one bit. The child is any program: it reads, writes, closes ends
and exits in any order; with `mayHang` it may stop, with `inherited` a grandchild keeps
an end open after it. `setting` is one of the calls a run considers and is chosen
in `CommInit`. What `PopenLifecycle` calls `pc` and `errorCode` is `stage` and `commError` here,
since one module has the proofs of both. EINTR repeats a call and is not a step of its own.

### PopenStart and ChildFds

Two views of one function. `PopenStart` names descriptors and lets every call fail;
a `close()` of something not open is remembered in `badCloses`. `ChildFds` has the
numbers the kernel hands out (always the lowest free) and no failures; it is about
parents that run with some of 0, 1, 2 closed, and what the program finds after exec.
In `PopenStart` `args` is counted by the prefixes it begins with; in `ChildFds` the
caller's `pass_fds()` is at most one descriptor.

### SigpipeGuard, SharedLibrary, DynamicRegistry, ConsoleTargets

`SigpipeGuard` has only the guard, the gap between `poll()` and `write()` and the
program's own `signal()`. `SharedLibrary` counts in `forgotten` what was given up: a
handle released and closed, or one whose `dlclose()` failed in a destructor. In
`DynamicRegistry` a thread has a stack of calls, since a callback may call; `heard` is
what each listener was told. In `ConsoleTargets` the descriptor of a FILE is read in
one step and the table looked up, under its lock, in the next; the program closes and
reopens files in between, at any address and with any number, but never one being written to.
`recurred` is history: the entries whose FILE was closed and came back with the address and the
number it was remembered with.

### PopenWin

One thread uses the object, as the code demands; `communicate()` has a worker for each stream.
A handle is a name. `Start`, `OpenStandard`, `Wrap`, `ExecuteChild` and `Undo` follow `done()`
and `start()`; each has its failure, and `RollBack` is what the two guards of `_get_handles()`
close. `inherited` is what `CreateProcessW` hands down: the list, or every inheritable handle,
or none. `STILL_ACTIVE` is an exit code a child may leave, which `kill_impl()` takes for a
running one. The child may hang, and may start a process of its own that keeps ends of its
pipes past its own end and past the kill (`heirs`). Not modelled: quoting (538-588), the
length of the command line (689-699), the look-up of the shell (518-536, here one of the
failures), `terminate()` and `send_signal()` (977-1030), a handle list in `startupinfo`.

### LogRegistry, ConsoleOutput, StaticRegistry, TypeIds

In `LogRegistry` a filter takes a step a rule, since `log()` reads the levels without the
lock in between; `excused` remembers that a filter ran during a call. `setFilterRules()` is
modelled with its parser: wildcards, levels, malformed lines. In `ConsoleOutput` a step is
one write, `current` what an output believes the attributes to be and `terminal` what they
are; one instance has a terminal that takes escape sequences, another an old Windows
console. `StaticRegistry` has the three writes of `add_node()`. `TypeIds` separates the
look without the lock, the look with it, the insertion and the store of the cached id;
modules are loaded with an empty cache and unloaded, while the table stays.

### JsonValues, JsonText, Cbor, Utf, Text

Algorithms as operators, with the property that relates them to one another or to a reference.
`JsonText` writes a value and reads it back, whole, cut off, or with a comment put in, or as
another writer spells it: what is not ASCII as one `\u` or a pair of them, halves of such a
pair, whole numbers past the range of the integers. `FormatDouble` writes a form that reads
back as the number; which of those the code has, `std::to_chars()` chooses, or `%.*g`. Of white
space there is the blank and the line feed, where the code skips tab and carriage return too.
No property is about either. `Cbor` does so with bytes, its own, those of an encoder that gives
no lengths, and any. The reference of `Utf` is the definition of the encodings, by ranges of
code points; the conversion goes by bytes. In `Text` a format or an expression is put together
from pieces, so that what should come out is known; names are spelled by other expressions, and
braces are nested and left open, of which nothing comes out.

### VLArray, LinkedMap, Any

`VLArray` has cells that are raw, hold an element or have been moved from, and takes its
arguments by reference, so that one into the array itself is read when the code reads it;
`promised` is what `std::vector` would hold. Reading a raw cell, constructing over an
element or destroying none is a `fault`. A loop over a row of cells is one expression, with
the faults of all its steps; the elements of the other array are appended one by one, since
each may move the array. `LinkedMap` has a list of nodes and an index to
them; a copy appends item by item, with the nodes the allocator gives. `Any` has objects
that are constructed, moved and destroyed; a copy whose constructor throws has its storage
taken and given back before anything else is run (`ConstructThrows`).

### Parts, PopenPorts

What shares no state is put side by side: `part`, or `platform`, is chosen in `Init` and
says which module's variables move. TLC adds the state spaces up instead of multiplying
them, and one run checks all. For a proof it costs nothing: a step of the whole is, for each
part, one of its own or none. Where a module has more instances than one (the writers on a
terminal and on an old console) each is a part. `Parts` extends `Stores`, the four that keep
data, which a theorem about them can do without the rest of.

### CommandLine

One `Parser::parse()`: `readTokens()` takes one step a token (an option takes its values
with it), and `run()` one step for each of its phases. A tree of commands is data: the
names of the objects and what is declared of each, held to what the asserts of
`addArgument()`, `addOption()` and `addCommand()` demand (`IsTree` and `CanBeDeclared`, an
ASSUME that every run evaluates). A loop of the code is a named step and a recursive function
that repeats it (`Collect` and `Collected`, `Assign` and `Assigned`, ...), so that it can be
proved about. Tokens are sequences of characters, because `-oy`, `-o=y`, `-vl`
and `/v` are one token that names an option and holds more than the name; `Meaning` is
the order in which the ways of reading one are tried. What `accepts()` finds wrong with
a value (expected values, type, validator) is the error declared for that value. Files
are sequences of lines. Of the way the result is asked, only `inheritedOptions()` is
modelled, since it finds by name what the parser had in hand. The texts of errors, the
help layout, `invoke()` and `correctionText()` are left out: they change nothing.

## Runs

| run | bounds | what it shows |
|---|---|---|
| `PopenLifecycle` | 2 threads, one exit code other than 0, two worlds | below |
| `Communicate` | capacities 1 and 2, input and output 1 more than the pipe, three settings | returns, loses nothing, no false end of input, no child left |
| `Start` | all kinds of streams, shell and detached, 2 attempts, on Unix and on Windows | descriptors, handles and the failed start; `communicate()` on Windows |
| `Parts` | see below | thirteen parts with state of their own |
| `Data` | see below | command lines, texts and encodings |
| `CommandLine_default` | one tree, lines of up to 2 tokens | violated: finding 7 |
| `Communicate_endless` | one pipe, deadline | violated: finding 1 |
| `Communicate_flush` | two pipes, 2 units left in the stream, deadline | violated: finding 2 |
| `PopenStart_retry` | as `Start` | violated: finding 3 |
| `PopenWin_retry` | as `Start` | violated: finding 6 |
| `SigpipeGuard_overlap` | 3 threads | violated: finding 4 |
| `SharedLibrary_release` | 2 objects, 2 libraries | violated: finding 5 |

**PopenLifecycle.** Two threads are enough for every race in this code to be between a caller
and one other that collects the child; the proofs cover any number. The exit code is not 0
because 0 is what `ECHILD` reports, and the two must be told apart. The two worlds are the
usual one and one in which SIGCHLD is ignored and `kill()` answers `EPERM`, so that every
branch is taken. `StatusIsTrue`, `StatusIsFinal`, `StrayOnlyWhenRaced`, `NothingLeftBehind`
are safety; `DeadlineKept` says a timed wait on a child gives up at its deadline, or because a
signal was refused in the middle of that very wait, and never for an error some earlier call
has left in `error_code`; `CallsReturn` is liveness: calls that do not wait return, those that
wait do when the child ends, and so does the destructor; `ImplementsStatus` is the refinement.
Deadlock is not checked: the program may stop calling.

**Communicate.** One unit more than a pipe holds is what makes a writer block, so the
deadlock the function exists to avoid would occur. `Patient` has all three pipes and no
timeout. `Deadline` has a child that may hang, a grandchild that keeps stdout open and
a poll that may fail once. `Leftover` has input in the stream's own buffer that the
pipe can take. `NothingLost` leaves out calls in which `poll()` failed (see below).

**Start.** `platform` chooses the port in `Init`. Two attempts suffice because `start()`
resets the state of the first at its beginning, except `args`, `_devnull`, `close_fds` and
what it failed to close. `HandlesBalance` is that nothing leaks and nothing is closed twice;
`StartAnswersTruly` that an attempt that answers false has left nothing running, no pid and no
status, and that one that answers true has its program running and the object says so, which
is checked with SIGCHLD not ignored. On Windows a pipe holds 1 unit, child and caller write 2:
a writer blocks, and a reader waits. A grandchild keeps stdout, or stdin and stderr.
`WinCommunicateReturns` assumes that the workers are scheduled, that a deadline passes, and
that the child goes on only where there is no deadline: one that hangs is released by the kill
at the deadline alone. What may keep the call for ever is a grandchild that keeps an end for
ever: the kill does not reach it, and the joins (`popen_win.cpp` 138-143) have no limit.
Exceptions of a reader are kept and thrown at the end, as in the code.

**Parts.** `part` chooses in `Init` which module moves; the others keep their initial state,
so the state spaces add. ChildFds: every set of the descriptors 0 to 2, a file of its own
behind each, every device. SigpipeGuard: 3 threads, not overlapping. SharedLibrary: 2 objects
and 2 libraries, count up to 2. ConsoleTargets: 2 threads, 2 FILEs, 2 descriptors and 1 slot
in place of 4, so that the table overflows. DynamicRegistry: 2 threads, 1 name, 1 listener, 2
entries, and callbacks that call, one deep. Addresses and numbers are used again freely;
`KindIsTrue` excepts the entries in `recurred`, where the code is wrong (see below).
LogRegistry: 2 threads, 2 categories, four texts of rules with every kind of pattern, two
filters. ConsoleOutput: 2 threads and six calls, of which the markup uses each kind of word,
on two terminals. TypeIds: 2 threads, one type in two modules and one in a third.
StaticRegistry: 2 loaders, 1 walker, 3 nodes; loads are one at a time, as `dlopen()` and
`LoadLibrary()` make them. Any: 3 anys, 5 objects, a type that fits inline and one that does
not, so that a swap and a copy always have room. LinkedMap: 3 keys, 2 maps, 4 nodes. VLArray:
two arrays, with buffers of 1 and of 2 cells, up to 3 elements of 2 values each, so that the
smallest buffer of the heap, of 2, is outgrown too.

**Data.** In the same way. JSON: every type, numbers on both sides of the largest integer,
strings of two characters from those with an escape and those without, as this and as another
writer escapes them, containers one
deeper than the reader goes. CBOR: arguments at each change of a head's width, every
three bytes from the heads that are decided on singly. UTF: three units from the ends of
every range, 8, 16 and 32 bits, each policy. Text: two characters from those with a
meaning, on both sides of a placeholder, of two of them in one another, or of a brace left open.

**Command lines.** The trees are the shapes the code is written for: `copying` (an argument of
several values before a required one, at the middle of three levels, with global and local
options), `exclusive` and `bare` (the three exclusive levels, beside an argument with a
default and one without), `helping` (help that stands in for an empty line at two levels, a
required option, a remainder), `joining` (values stuck to their options, options of several
values). Three tokens reach every pair of an option and a command below it, with a value; the
lines of four are those in which two positional tokens follow two commands, or all three
exclusive options meet. Each tree is parsed as it is and with both cases ignored; response
files, groups, DOS spellings and `DontAllowUnixShortOptions` have lines of their own. Deadlock
is not checked: a parse ends. `TokensAddUp` is that every token is read or complained of, and
a missing argument is complained of only when there are too few. `ExclusiveIsAlone` is stated
for accepted lines, `LeftBehindTakesNoMore` leaves out the two ways of reading that look
through everything collected (see below).

Fairness: threads take their next step, the clock of a timed wait or of a
`communicate()` with a timeout advances, and a child that was sent SIGKILL dies. In
`PopenCommunicate` the child is scheduled too. In `PopenWin` the calls, the workers and the
deadline are, and the child only for a call without a deadline (`ChildMustAct`), a grandchild
never. These are the operating system's
promises. Nobody is obliged to make a call, a child need not exit by itself, and
`EINTR` may come or not come. `WaitersReleased` needs no fairness of the lock beyond
that: a thread in `waitpid()` for a child that has ended returns.

Every property has a mutant, a changed form of one definition that a plausible mistake
in the code would amount to, with which TLC finds the property violated. They stand
in the modules beside the originals and are used by nothing there.

## Findings

1. **A busy child is not timed out** (185-197, 143-160). The deadline is seen only when
   `poll()` reports nothing ready, and `drain()` does not look at it.
2. **The flush is outside everything** (101-103): it blocks before the descriptors are
   made non-blocking, before the clock starts, before the SIGPIPE guard.
3. **A retry with `shell(true)`** (917) has the prefix of the earlier attempt in `args`.
4. **Overlapping guards** (50-61): the first to end takes the protection of the other.
   If they end in the order they began, SIGPIPE stays ignored for good.
5. **`release()` and the destructor** (`sharedlibrary.cpp` 56-58): the flag is not read.
6. **A retry on Windows** (`popen_win.cpp` 757-760): a start that makes a handle list
   switches the member `close_fds` off; the next attempt has no list and hands down every
   inheritable handle.
7. **A default counts as given** (`commandline.cpp` 1646, 1555-1559): an option exclusive
   to arguments is refused on every line of a command whose argument has a default.

Seen while modelling, without a run:

- `commandline.cpp` 1215-1217 says an option of a command left behind is not matched
  again. With `IgnoreOptionCase` (1247-1253) and as a short match (1398-1418) it is:
  both look through everything collected. Its being required is still demanded too.
- An inherited option takes the spelling of the command's own, which it follows
  (1231-1240), while 1622-1625 says of the option that stands in for an empty line that
  the innermost answer wins: the command's own is noted, the inherited one is counted.
- 1319-1322 says putting `--` first is how a value that looks like an option is forced.
  `--` is then itself the value (1326), unless an option is spelled so.
- `anythingGiven()` is said (1052) to be about options in scope and looks at all of them:
  an option before the subcommand keeps the subcommand's own from standing in.

- Removing a listener (`dynamicregistry.h` 144, 227) does not mean it is not being, or about
  to be, called: the copied list still names it.
- A node of a `StaticRegistry` is not unlinked when its plugin is unloaded
  (`staticregistry.h` 164-176), and two registrations at once lose one of the nodes.
- `cfputs()` writes malformed markup outside the lock (`console.cpp` 840-841). On an old
  Windows console "no colour" is black, where `console.h` 32 says it leaves what is there.
- A `Fatal` record whose level is switched off returns without ending the process
  (`logging.h` 190, 203). A filter that constructs a category waits for the lock it runs
  under (`logging.cpp` 279).
- `varexp()` replaces `$$` in the values it has put in as well (`str.h` 280); `formatN()`
  without arguments leaves `%%`; `split()` by an empty delimiter does not end.
- The JSON reader takes a text that ends in a comment not closed (`1/*`, `json.cpp` 313).
  `toCbor()` writes strings that are not UTF-8, which `fromCbor()` refuses. `v = v[0]` on a
  `JsonValue` reads what it has destroyed.
- `vlarray` appended to itself, and `resize(n, v[0])`, read cells that have moved; a copy
  that throws while a buffer is replaced is not rolled back. A `linked_map` insertion that
  throws leaves the key in the index, pointing at the end (`linked_map.h` 328-332).
- On Windows `kill()` and `wait()` before `start()` pass the invalid handle, which names the
  calling process (`popen_win.cpp` 956); a child that exits with 259 cannot be killed or told
  from a running one.
- Outside Linux `pipe()` and `FD_CLOEXEC` are two calls (267): a fork of another thread in
  between inherits the end.
- `kill()` that fails with `EPERM` (a set-uid child) stores its error in the shared
  `error_code`, and a timed wait of another thread takes it for its own and returns
  early (1235). This is the one exception in `DeadlineKept`. In the same case
  the destructor waits for a child it cannot kill, so `DestructorReturns` is stated for
  `KillAllowed`.
- `popen_win.cpp` 124-125 says of the child that its exit is what closes the write ends. It is
  not when a process the child started has inherited one: `communicate()` then stays in a join
  past its timeout. On Unix
  the loop stops at the deadline whoever holds the ends, unless somebody keeps writing (finding 1).
- `commandline.h` 242 says a `Remainder` takes everything left, including anything that looks
  like an option. `readTokens()` reads such a token as an option unless `--` comes before it;
  what a remainder takes is everything positional. No property is about it.
- With SIGCHLD ignored the launcher of a detached child cannot be collected (818-822)
  and `start()` answers false although the program runs.
- An error of `poll()` (190-192) is cleared by the `_wait()` that follows (1185): the
  caller gets part of the output and no error.
- `dynamicregistry.h` 57-58 warns that a callback which calls the registry deadlocks.
  It does not: the lock has been released (`ToldOutsideLock`, `HeardAddsUp` with nested
  calls). The warning is stricter than the code.
- `clear()` (219) tells no listener, so what a listener heard and what is registered
  differ by what was cleared; `HeardAddsUp` counts that in.
- `release()` on a closed `SharedLibrary` sticks: the next `open()` is followed by a
  `close()` that only forgets the handle.
- The comment at `console.cpp` 91-93 says the check of the descriptor catches a FILE
  being closed and its address reused. It does not when the number is reused as well,
  which is what the C library and the kernel tend to do.

## Proofs

Each theorem is about every behaviour of a specification and every value of its constants.
An invariant that a run checks is seldom inductive; what is added to make it so, and why, is
said here for each.

`Popen_proofs`, the child: type correctness, `StatusIsTrue`, `StrayOnlyWhenRaced`,
`NothingLeftBehind`, the action properties `StatusIsFinal` and `DeadlineKept`, and the
refinement. That a stored status is the child's end depends on who may be about to
store, and that on the lock. The invariant `IInv` adds

- `LockHeld`: a thread is between lock and unlock exactly when it is the holder;
- `StoreInv`: whoever is about to store has a child that is collected and a
  `returncode` still empty;
- `NotLost`: a collected status is stored or some thread is about to store it. With it
  the `ECHILD` branch is dead unless SIGCHLD is ignored;
- `StatusKept`: what is stored is how the child ended;
- `ChildKnown`, `TimedOnly`: what the flags say about the child, who is in a timed wait;
- `Overtaken`, `KillInv`: who is inside a call while another is about to store, or is
  at its `kill()` after the child was collected, was overtaken.

`IInvStep` goes action by action. With `IInv`, `StepImplements` shows that every step is
`Start`, `End`, `Report` or nothing of `ChildStatus`. `DeadlineKept` rests on `OpKnown`, what
calls there are, and `OwnError`: once a timed wait is past its beginning, an error in the shared
`error_code` is of a signal refused since then, whatever calls were made before and `kill()` may
answer. The wait clears the member when it begins and again in its poll.

`PopenPorts_proofs`, Unix: `HandlesBalance`, `ChildFindsItsEnds` and `StartAnswersTruly`, over
any number of attempts. `StartInv` follows one attempt. `PhaseInv`: where it is and what it
has asked for. `HandleInv`: each handle is, once its stream is taken, the descriptor its
setting stands for. `OpenInv`: what is open is what the caller had, the ends of this attempt's
pipes and `/dev/null`, exactly. `OwnInv`: of the error pipe and the pid pipe, exactly the ends
the step needs. `ProcInv`: what has been forked and what the object says of it, up to the
answer. From the middle three every `close()` finds its descriptor open and meets it once
(`ClosesOnce`), though the handles of two streams may be one. Both halves of
`StartAnswersTruly`, of an attempt that answers false and of one that answers true, are proved
where SIGCHLD is not ignored; the first is false otherwise (see the findings).

Windows: `WinHandlesAccounted` and `WinAnswersAreComplete`, for any sizes of pipes, input and
output. `WinHandlesInv` is the same accounting for handles, of which two streams may share
one; `WinLifeInv` relates the process, its handle and the status; `WinTalkInv` says that a
reader that is joined without an error has seen the end of a stream nobody writes to.

`Popen_proofs`, `communicate()`: `NothingLost`, `EndOfInputIsTrue` and `NotLeftBehind` for any
settings: pipes, capacities, sizes of reads, inputs, outputs. They speak of the end; the
invariant `CommInv` says why it comes out so. `InputInv` counts: what was to be written is
written, in the pipe or still in the stream, and stdin is closed under a child that has it
open only when all is written. `OutputInv` counts the same way and says that a stream no
longer polled is empty and has no writer, which stays so since writers are never made.
`ChildInv` holds the child to the ends it has, `EndInv` relates the kill, the status and the
answer.

`ChildFds_proofs`: `ChildGetsWhatIsAsked`, whatever numbers the caller has open and whichever
the kernel picks. The numbers move, so the invariant `FdsInv` knows a descriptor by the file
behind it (`NamesInv`, `GivenInv`). `PlacedInv` says what 0, 1 and 2 are once they have been
put in place, `MovedInv` that what a later `dup2()` would overwrite has been moved out of its
way, `CallerInv`, `OursInv`, `UsedInv` and `TableInv` what every other number is. The least
free number exists because the numbers are well ordered, and is below `MaxFd` by counting.

`Parts_proofs`, by `EveryPartBegins` and `EveryPartSteps`, which take the steps of the whole
apart:

- `SigpipeIsBorrowed`: `GuardInv` says that at most one call is inside, that SIGPIPE is
  then ignored, and that the guard holds what the program wants.
- `CountIsRight`, for finitely many objects: one without an Impl has no handle
  (`NoImplNoHandle`), so what leaves the count is what the cardinality of the holders loses
  or `forgotten` gains.
- `OneIdPerType`: the table is a bijection of types and addresses (`TableInv`) because the
  name a thread did not find is still missing when it inserts it (`StillMissing`), which the
  lock is for; `FoundInv` carries an address from the table over the cache to the caller.
- `KindIsTrue`, however addresses and numbers are used again. By `CacheInv` an entry
  whose descriptor is still that of its FILE is true unless the FILE was redirected, or was
  closed and came back as what the entry remembers (`recurred`), the one exception of the
  property. It stays so because a descriptor has one FILE (`OneFile`), and no FILE is closed or
  redirected under a write (`UseInv`).
- `EveryNodeIsRead`, for loads one at a time: the nodes that can be reached are a chain
  without repetition (`ChainInv`), to which the three writes of `add_node()` add one at the
  end in an order that a reader may see half done (`LoadInv`); what a reader has read is a
  beginning of the chain, and what was there when it began is a part of the chain
  (`ReadInv`).
- `TypeOK` of the whole. Most parts have their types in their invariants. What bounds a count is
  more than its type: `LibraryTypes` and `HoldersCounted` together keep `users` and `forgotten`
  within the loader's bound; `CacheFits` keeps the table of the console at one entry for a FILE,
  and no longer than it is; `DepthInv` (in `DynamicRegistry_proofs`) the stack of calls.
- `ChildGetsWhatIsAsked`, `HeardAddsUp` and `WritersDoNotMix` of the whole: the component is
  proved in its own module, and its definitions are those of the part (`Same...`).

`DynamicRegistry_proofs`: `HeardOnce`, `ToldOutsideLock` and `HeardAddsUp` for callbacks nested
to any depth. `RegistryInv` adds what they rest on. `StackInv`: of the calls a thread has on
its stack, all but the innermost are at the telling. `EntriesInv`: an entry is registered under
one name and was not cleared. `TellsInv`: a change is told by one call, after it happened.
`HeardInv`: what a listener has heard no call will tell it again. `WatchInv`: a listener never
removed has heard of a change or is on the list of a call that still tells of it (`Pending`);
once it is quiet no call is left, and `HeardAddsUp` follows.

`ConsoleOutput_proofs`: `ShownAsMeant` and `TextsStayTogether`, for any calls. `LookInv` says
that the terminal looks, and the outputs believe it looks, as whoever holds the lock has
switched it, or plain. `TextInv` says that who has written text is in the guard or has left
it for good.

`Stores_proofs`, of the behaviours of `Stores`; by `StoresAreParts` those of `Parts` are such:

- `LogFollowsTheRules`: while a filter runs the levels are those of the rules applied so far
  (`ApplyInv`), of which the last to match has its say; of every category that is not still to
  be filtered they are those of all of them (`LevelsInv`). What a thread that logs has read
  without the lock is excused if a filter ran meanwhile (`LogInv`).
- `OwnedOnce`: a memory is `Owned` if no step went wrong and each any that is not empty has
  one object, of the type it says, that no other has. Each operation keeps that, given room
  for what it makes (`HoldingOwns`, `ResetOwns`, `AdoptOwns`, `SwapOwns`, `AssignOwns`,
  `ThrowsOwns` for a copy that throws), and
  `AnyInv` is that between calls the parameter and the temporary are empty.
- `IndexIsTheList`: `Agrees` is that a list and an index have the same pairs, each key and
  each node once, but for the keys of which an insertion threw. `InsertAgrees` and
  `RemoveAgrees` follow the items as they shift; `CopyAgrees` follows the loop of the copy,
  and `MapInv` adds that no node is in two maps.
- `ElementsAreKept`, for any elements, capacities and buffers of the heap, of which there are
  at least three. `Kept` is that each array has a buffer of its own, which holds its elements
  and nothing behind them, and that every other buffer is raw; it is inductive, and is what
  the lemmas about the operations are about (`EmplaceBackKept`, `InsertOneKept`, `EraseKept`,
  `ReserveKept`, ...). Three shapes of step cover what an operation does to one array: its
  cells change in place (`InPlaceKept`), it moves to a buffer nobody had (`RehousedKept`), its
  last elements go (`TruncateKept`). In between it is not `Kept`: a new element is alone in
  the new buffer (`Grown`), the end of the row has been moved from (`TakenOver`). Swaps and
  moves are about both arrays at once, which `Placed` says.

The loops of the copies of a `linked_map`, of the appending to a `vlarray` and of the parser are
recursive functions. That it has a value at every step, and what the
value is, is an induction: `NatSets` (a set with 0 that is closed under the next number has
them all), which the well-foundedness of the numbers gives. So induction over the steps of a
recursive *function* is within reach, one set at a time; the library's own theorems about
recursive definitions are not, since they take an operator.

`CommandLine_proofs`, for any trees that can be declared, any style, any files and any line:
`HelpIsAnswered`, `TokensAddUp`, `ExclusiveIsAlone`, `HelpAgrees` and the action property
`LeftBehindTakesNoMore`. The invariant `Inv` adds

- `ScopeInv`: what was collected is of the tree, and a spelling leads to an option in scope.
  Behind it are what the loop of `collectOptions()` makes of a list (`CollectExtends`: the old
  entries stay where they are, a new one has not occurred) and of the spellings
  (`SpelledSpells`);
- `IsPrior` and `Decided`: no option given has a higher level than the one noted. The exception
  is a line with nothing on it, for which an option stands in that was not written: it is noted,
  but what is marked as given is what its first spelling leads to, which may be another option;
  it is then the only one given;
- `Progress`: which refusals each phase can end with, and, from the assignment on, `Fits`: the
  arguments hold the positional tokens in order, and one that is required and empty means that
  there were fewer tokens than required arguments.

`MeaningReaches` goes through the ways in which a token can be read: each leads to options in
scope, but for the two that look through all that was collected. `ReadSound` follows the
options a token names (`Sound`): those within reach may change, and each that does is noted.
`AssignServes` and `AssignIsEnough` are the two halves of `TokensAddUp`. The first follows the
loop of `assignPositional()`: what has been handed out is a beginning of the tokens. The
second counts: when it is the turn of a required argument, each argument before it took no
more than one token, or there are as many left as are still required. For `HelpAgrees` the
invariant is that the walk down the names read so far (`Walked`) ends at the command reached
with the options inherited; `WalkedOn` extends it by a name, for which the names of the
commands of one command have to differ (`CanBeDeclared`).

Assumptions: the named ASSUMEs of the modules, which TLC evaluates in every run.
`ExitCodesAssumption`, `WorldsAssumption`: exit codes fit a byte. `SettingsAssumption`,
`AttemptsAssumption`, `PortsAssumption`, `PartsAssumption`, `StoresAssumption`: numbers are
numbers, the objects of a program are finitely many, values that stand for nothing are not
values, the child's table has room, a program has a FILE. `ArrayAssumption`: two arrays, three
buffers of the heap, placeholders that are no elements. `ParserAssumption`: the parser of the
rules makes of each text what `logging.h` says, which TLC evaluates for the texts of the run.
`CallsAssumption`: the shape of what the writers are called with. `TreesCanBeDeclared`: trees
are made of commands and options as `commandline.h` lets them be declared, and lines and files
are made of texts. The instances assume what they say: calls of `communicate()` one at a time,
loads one at a time; without them the properties are false (findings 4 and below).

Only model-checked: of `Data`, all but `CommandLine`; and liveness, which with fairness and
ENABLED is out of this prover's reach. `JsonValues`, `JsonText`, `Cbor`, `Utf` and `Text` use
RECURSIVE operators, of which this prover proves nothing.

## Not modelled

`Popen` on macOS (one look-up of the environment), `system`, the Windows registry wrapper
and helpers, `flags`, `scope_guard`, `pimpl`, `vla`, `stlextra`: queries, wrappers and
templates without state or interleavings of their own. Of what is partly modelled: the
accessors of `JsonValue`, the help layout and the texts of errors of the parser, `path` and
`versionnumber`, trimming and case of strings, `array_view`, the size of a terminal, and in
`PopenWin` what is listed there.

## Plan

Done: the Unix process, the Windows port, library handles, the registries, logging, type
identity, the console, command lines, JSON and CBOR, encodings and texts, containers; proofs
about all of these but JSON, CBOR, encodings and texts.

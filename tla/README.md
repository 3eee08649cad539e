# pressio-log in TLA+

A verification development for [pressio-log](../src/README.md), the header-only
C++ logger of the Pressio project: TLA+ models of the logger as several threads
and several MPI processes use it, and of the copy of the fmt library that writes
its lines; TLC instances that check them; and TLAPS proofs of the results that
hold for every instance.

## 1. The system

pressio-log is one class, `pressiolog::Logger`, reached through a singleton and
a set of macros. There is no thread, queue or timer in it: everything happens in
the calling thread, and what is hard comes from several callers, from MPI, and
from the order in which the members are written. The text of a line is made by
fmt, which the repository carries (`include/pressio-log/fmt/`): sequential code
whose difficulty is in its data.

### The logger (`logger/`)

| component | source | state | operations | what makes it correct |
|---|---|---|---|---|
| life cycle | `logger_impl.hpp:64-98` | `logger_is_initialized_` (atomic), `init_flag_`, `init_warning_flag_` (once_flags) | `initialize`, `initializeWithMPI`, `finalize` | one configuration wins a race of initialisers; a logger is published only when complete; an early call is explained once and completely |
| log, filters, output | `logger_impl.hpp:103-136`, `220-271` | `mutex_`, `std::cout`, the log file | `log`, `log<Args...>`, `sparse_` ... `debug_`, `log_`, `print_`, `write_` | lines stay whole; console and file agree on the order; a message that passes the filters is delivered, one that does not is not |
| setters | `logger_impl.hpp:141-152`, `197-200` | `logging_level_`, `dst_`, `should_write_`, `should_log_`, `log_file_` (plain members) | `setLoggingLevel`, `setOutputStream`, `setOutputFilename` | an undisturbed call follows the configuration; the two switches agree with the destination |
| MPI targeting | `logger_impl.hpp:79-92`, `155-170`, `182-187` | `current_rank_`, `logging_rank_`, `rank_str_`, `mpi_initialized_`, `comm_` | `initializeWithMPI`, `setLoggingRank`, `setCommunicator`, `updateCurrentRank_` | only the logging rank emits; a rank too large for the communicator is refused by a running logger; of processes that no communicator separates, one speaks |
| levels, destinations | `loglevel.hpp`, `logto.hpp` | none | the order of the enumerations | thresholds and switches are decided by it |
| macros | `core.hpp` | none | one API call each | the MPI macros exist only in an MPI build |
| colours, `prep_for_fmt`, version | `colors.hpp`, `utils.hpp`, `version.hpp` | none | pure functions | colour words stand before and after the text |

**Interaction.** `log` formats, reads the configuration without a lock, composes
the line from `rank_str_`, and only then takes `mutex_`; under it, it tests the
two output switches, prints, and opens, appends to and closes the file.
`initialize` writes the configuration through the setters inside
`std::call_once`, then stores `logger_is_initialized_` with release order. The
setters write while others may be reading. A call before the initialisation
prints one warning, without the lock, inside a second `call_once`. The processes
of an MPI program have a logger each and share nothing but the file.

### fmt (`fmt/`)

| component | source | state | operations | what makes it correct |
|---|---|---|---|---|
| format specifiers | `base.h:703-860` | one word of bit fields, the bytes of the fill | setters and getters of `basic_specs` | a setter disturbs no other field |
| format strings | `base.h:870-1660`, `format.h:3487-3700` | the position, `next_arg_id_`, the specifiers read so far | the parser with the compile-time checker and with the run-time handler | text is copied, numbering is not mixed, a checked string does not throw |
| buffers | `base.h:1710-2010`, `2836-2900` | pointer, size, capacity, count | `append`, `push_back`, `try_reserve`, `grow`, `flush`; `format_to`, `format_to_n`, `formatted_size` | a cut output is the beginning, its size that of all; nothing past an end; `append` ends |
| memory buffer | `format.h:735-880` | inline store or heap block | `grow`, `resize`, moves, destruction, allocation failures | a block has one owner; the capacity is real |
| arguments | `base.h:950-1200`, `2100-2610` | descriptor, values, named arguments | `make_format_args`, `get`, `visit` | a look-up finds the argument or nothing |
| integers | `format.h:1040-1160`, `1840-2110` | digits, prefix, padding | `write_int`, `write_char`, digit grouping | the text denotes the number and has the width |
| strings | `format.h:570-700`, `1680-1840`, `2112-2180` | position in the string | UTF-8 decoder, width, precision, debug escapes | only well-formed UTF-8 is decoded; a debug string reads back |
| floating point | `format.h:2181-2470`, `2480-2870`, `3050-3400` | big numbers, digits, exponent | `format_dragon`, `round`, `write_float` | the text is the value rounded as asked; the shortest one reads back |
| colours | `color.h` | a style | `operator|`, the escape sequences, the styled writers | what is drawn is what was asked, and the style ends |

**Hard behaviours.** Races of initialisers and of early callers; publication of
a half-built logger; the critical section; setters that overlap a call; a
configuration kept in two switches stored one after the other; MPI initialised
before or after the logger, or finalised before it; a communicator that changes;
processes that die; a file that cannot be opened; a format string that throws;
a grow that makes no room; a capacity left over from a move; widths computed
before the text; carries that lengthen a number. `PROJECT.json` lists each at
its line with the properties that watch it.

## 2. Modules

| module | content |
|---|---|
| `LogLevels` | the enumerations and the pure decisions: `Passes`, `ShouldWrite`, `ShouldLog` |
| `Logger` | the logger of one process and its threads; `Spec`, `FairSpec`, `TypeOK` |
| `LoggerProperties` | the properties of `Logger` |
| `LoggerHistory` | `Logger` with two history variables, `disturbed` (did another thread reconfigure the logger during the call?) and `since` (was the logger initialised when the call began, and which communicators have been in force from then on?); the functional specification of an undisturbed call, and what `setLoggingRank` may adopt |
| `LoggerService` | the abstract specification: lines are dropped, or accepted one at a time and delivered to every output of the route |
| `LoggerRefinement` | the mapping from `Logger` to `LoggerService` |
| `LoggerSPMD` | the processes of an MPI program, each with its logger, a common file and a life of its own |
| `LoggerInvariants` | the inductive invariants of `Logger` |
| `LoggerProofs` | type correctness; mutual exclusion, whole lines, the single warning; one configuration, whole strings; what logging rank is adopted; an undisturbed call of `log` follows the configuration |
| `LoggerSPMDProofs` | the processes of an MPI program: one speaks, what returned is written, MPI is asked in time |
| `LoggerServiceProofs`, `LoggerRefinementProofs` | the promises of the service; that the logger implements it, and what follows |
| `FmtSpecs`, `FmtParse`, `FmtArgs` | specifiers, format strings, arguments |
| `FmtBuffer`, `FmtMemoryBuffer` | where the output goes |
| `FmtStorageProofs` | what fmt keeps: the fields of the specifiers, the buffers, the memory buffers, the arguments |
| `FmtParseProofs` | the text and the numbering of format strings of any length |
| `FmtTextProofs` | the decoder, the precision, the padding and the escapes of strings of any length |
| `NatLemmas` | what the proofs about fmt need of the natural numbers: induction, recursion, powers of two, division |
| `FmtInt`, `FmtText`, `FmtFloat`, `FmtDragon`, `FmtBigint`, `FmtColor` | the writers |
| `LoggerPrograms`, `MC...` | instances for TLC |

### How `Logger` reads the code

A step of a thread is **one access to state that other threads can see**: an
atomic load or store, a plain member read or written, one insertion into a
stream, one operation on the mutex or on a once_flag. `pc[t]` is the place in the
code, `call[t]` the arguments of the API call, `frame[t]` the locals of `log`
(the identity `n` of the line, its level, the rank that was loaded, the prefix
that was copied, the file that was opened, and where `log` returns to).

* `Program[t]` is a sequence of *sets* of calls: the k-th call of thread t is any
  member of the k-th set. It is a constant, so theorems are about every program.
* The variables are the members of `Logger` under their own names
  (`loggingLevel` for `logging_level_`, and so on); `initFlag` and `warnFlag` are
  the once_flags (`fresh`, `active`, `done`), `console` and `files` what reached
  the streams, each line as its text followed by its end, `mpiUp` whether
  `MPI_Init` has been called.
* `std::string` members are assigned in two steps and hold `Torn` in between: an
  unsynchronised reader sees a string that is neither the old nor the new one.
  The test of `setLoggingRank` reads three members in one step (`CheckLoggingRank`)
  and the store is another, with anything between them. Plain ints, enums and bools are read and written in one step, in the order of
  the source, except that the two switches of `setDestinationBools_` may be
  stored in either order and `dst_` may be read again or not: nothing orders
  them, so a compiler may do either.
* `call_once` is entering (`EnterInitOnce`, `EnterWarnOnce`: the first enters,
  the next wait until it is done) and leaving (`Publish`, the end of
  `PrintUninitialized`).
* A call of a setter from `initialize` or `initializeWithMPI` and a direct call
  are the same action; what follows it depends on the call in progress
  (`Initializing`). `log` called inside the logger returns to `frame[t].resume`.
* Message texts are left out: a line is identified by its thread and number, and
  keeps its rank prefix. Whether `fmt::format` throws is part of the call (`ok`).
* A file is opened in append mode at each message; the files in `Writable` can be
  opened. A failed open drops the line for that file and nothing else.
* In `initialize`, the test of line 73 is always true after `call_once` has
  returned (`StartInv` proves it), so `Announce` has no branch for the other case.

### How the logger relates to its service

`LoggerService` knows no lock, flag or switch. Its outputs are the *orders* a
reader can observe: `out[o]` has the pair of two lines when the first stands at or
before the second. `LoggerRefinement` maps a thread in the critical section to
the thread whose line is being delivered, and the outputs not yet written to
`due`; the text of a line is invisible and its end is the delivery. The mapping is
sound for programs that leave the configuration to their initialisation
(`NoSetters`): a setter on a running logger really breaks the promise (runs
`switch` and `streams`).

### How `LoggerSPMD` reads the code

Several processes run one program, a statement being one API call and one action;
within a process nothing is concurrent. A call leaves its insertions in `queue`,
and `Write` moves them into the common file one at a time, interleaved with the
other processes; a line longer than the stream's buffer takes two. `Abort` ends a
process at any moment: what its calls had written stays. `MPI_Barrier` is the
program's own and is what makes an order between processes. A split gives one
name to several communicators: `Part[c][p]` is the set of processes that share
the one of `p`.

### How the fmt modules read the code

Each is a small machine over the state the C++ objects keep, with one action per
operation (`FmtSpecs`, `FmtBuffer`, `FmtMemoryBuffer`, `FmtArgs`, `FmtBigint`,
`FmtColor`) or per phase of a function (`FmtParse`, `FmtInt`, `FmtText`,
`FmtFloat`, `FmtDragon`). Inputs are members of a constant set of calls. Data are
as abstract as the properties allow: a unit of output is a number that says
which unit it is, a code point is itself, a number is a natural or a fraction of
two. Widths that overflow are parameters, scaled to the instance: a word of 16
bits for packed argument types, of 30 for integers, of 2 for the bigits of
`FmtBigint` and of 4 for those of `FmtDragon`, of `FracBits` for the significand;
`MaxDigits` (767) and `MaxInt` are small in `FmtFloat`. The two exponents
of the code, binary and decimal, are kept apart exactly as they are there.

A few readings are worth knowing:

* `FmtBuffer` has one state for the five buffers of `base.h`; `kind` says which
  `grow` and `flush` run. `how` says whether a write is an `append`, which takes
  what fits, or pushes unit by unit. The bytes a container holds past the size are
  the zeros that `resize` puts there.
* `FmtMemoryBuffer` keeps who owns which block, not the elements. `MaxAlloc` is the
  largest allocation; calls ask for no more (`MaxAsked`), so that the clamp of
  `grow` is what is seen of it.
* `FmtDragon` computes with naturals; `exps` keeps the one thing that the code's big
  numbers show besides their values, how many low bigits of zero are left out
  (`exp_`), which decides `compare` of two equal numbers.
* `FmtFloat` and `FmtColor` end in a phase of their own where the code throws ("number
  is too big") or has undefined behaviour (an escape sequence that overruns its
  buffer); the properties say which calls may get there, or nothing about them.
* `FmtParse` runs the same grammar with two handlers, as the code does: the
  checker over argument types and the formatter over values.
* `FmtText` has the tables of printable and of wide code points as constants.

Definitions whose comment says *Mutant* are plausible wrong versions of the
definition that follows them. No specification uses them; each is there to show
that a property is sensitive to the mistake, and `PROJECT.json` says which.

## 3. Properties and runs

| run | instance | shows |
|---|---|---|
| `serial` | 2 threads, 2 calls each, any of: two different initialisations, an error message, a bad format string, finalize; 162,884 states | `LinesStayWhole`, `OutputsAgree`, `OutputsComplete`, `WarnsAtMostOnce`, `RefusedCallsAreExplained`, `NoTornOutput`, `ConfigFromOneCall`, `NothingLost`, `CallsReturn`, `TypeOK`, and the refinement `ImplementsService` |
| `reconfigure` | an MPI build: one thread initialises and then uses a setter or initialises again with other arguments, the other logs at every level, or changes the communicator or the rank and then logs, also between the test of a rank and its store; logging ranks from -1 to 2, of which -1 and 2 do not exist; one of the files cannot be opened; 1,228,485 states | `UndisturbedLogFollowsConfig`, `AdoptedRankWasInRange` |
| `mpi` | rank 1 of 2; `MPI_Init` at any time; both threads retarget or change the communicator while the other logs; 44,075 states | `NoTornOutput` |
| `spmd` | 3 processes, five programs with split communicators, ranks that one part has and the other has not, a second start of the logger, an `MPI_Init` after it, `MPI_Finalize`, barriers, and a process that may die; 191,120 states | `OneSpeaker`, `ReturnedIsWritten`, `MPICallsAreLegal` |
| `parse` | all format strings of up to five units of seven, all fields of five, all specifiers of up to four units of ten, several argument lists; 1,362,604 states | `TextIsKept`, `NumberingIsNotMixed`, `CheckedStringsFormat`, `SpecsAreRead` |
| `storage` | setters of all fields in any order; five buffers of three units, limits 0 to 5, output of up to nine units; three memory buffers and four blocks; argument lists of up to four; 408,878 states | `GettersReturnWhatWasSet`, `OutputIsPrefix`, `SizeIsTotal`, `NothingPastTheEnd`, `AppendReturns`, `BlocksHaveOneOwner`, `CapacityIsReal`, `LookUpFindsTheArgument` |
| `writers` | integers at the edges of every power in every base, all byte strings of a small alphabet, floats of few digits at every place of the point and precisions about the limit of Dragon4 and the largest int, all significands of six bits, big numbers up to 100, three styled parts with up to eight emphases; 434,245 states | the eleven properties of the writers |

`storage` and `writers` hold several components in one state space: `part` says
which one runs, and the variables of the others keep one value. That is a choice
about the number of runs, not about the system: the components are checked
separately.

What the logger's properties say. `LinesStayWhole` is about the lines of `log_`
only, as the warning of an uninitialised logger is printed outside the lock.
`NothingLost` says that a call at the end of the critical section has left its
line in an output; `OutputsComplete` that no output of the destination lacks a
line another one has, and `OutputsAgree` that they have them in one order.
`UndisturbedLogFollowsConfig` is the functional specification of `log`: if no
other thread is in a setter or an initialisation at any moment of the call, the
line is on the console and in the current file *if and only if* the logger is
initialised, this is the logging rank, the level passes and the destination
includes that output, and it is in no other file. It is written from the README's
description of levels and destinations, not from the switches that the code
keeps.

`AdoptedRankWasInRange` says what of a target can be relied on. A logging rank is
adopted only with MPI up and because a call under way asked for exactly it. If the
logger was initialised when that call began, it is below the size of a communicator
that was in force at some moment of the call, whatever ranks and communicators other
threads set between the test and the store. It does not say that the rank exists, and
the code does not see to it: `rank > size - 1` is the whole test
(`logger_impl.hpp:159`), so -1 is stored, and the process logs nothing until it is retargeted; the first
initialisation adopts any rank; and after a `setCommunicator` in between the rank need
not be one of the communicator in force when it is stored. All three are in the run
(`reconfigure`).

`OneSpeaker` says that of processes which no communicator of the program separates
(`Together`) at most one speaks a statement. After a split that is one in each part: a
retargeting may be accepted in one part and refused in the other, and both may then
speak, or none. It is about loggers initialised under MPI (`StartsUnderMPI`); in the
run's program that starts the logger before `MPI_Init` every process takes itself for
rank 0, and all three write.

What the properties of fmt say. Each compares the outcome with a definition that
does not follow the code: the value a text denotes, the first units of the whole
output, the rounding of a fraction, the union of two styles, the list of what
UTF-8 allows.

Some properties hold for the programs of their run and not for all programs,
because the code does not protect against the others:

* `NothingLost`, `ConfigFromOneCall` and the refinement for programs without
  setters that run next to a log call (see the finding `switch`), and
  `NothingLost` for files that can be opened;
* `NoTornOutput` for programs that call `initializeWithMPI` once and
  `setOutputFilename` never;
* `UndisturbedLogFollowsConfig` with one thread that initialises the logger and sets
  level and output, while another may set rank and communicator (the theorem has one
  configuring thread, `Configures`): two concurrent setters leave switches that no
  longer agree with the destination, and every later call is undisturbed (see the
  finding `streams`);
* `OneSpeaker` for programs that start the logger after `MPI_Init`;
  `ReturnedIsWritten` for programs whose targets are accepted by all processes or by
  none and are ranks of processes: otherwise nobody may speak;
* `MPICallsAreLegal` for programs that neither start the logger nor retarget it
  after `MPI_Finalize` (`MPI_Initialized` stays true);
* `CheckedStringsFormat` for strings without names, which the checker does not
  look up, and without a bool or a character as a dynamic width, which it accepts
  (`base.h:1238-1242`) and the formatter refuses (`format.h:3513-3524`);
* the last part of `DebugReadsBack`, that a text is read back, for strings that are
  UTF-8: the escape `\xNN` of an unprintable character below U+0100 is also that
  of a stray byte, so other strings cannot be told from these.

Five runs find a disagreement between the code and what the repository says:

| run | property | the code |
|---|---|---|
| `switch` | `NothingLost` | during a switch from file to console both switches are off for a moment and a message is lost |
| `streams` | `OutputStaysOn` | two concurrent `setOutputStream` calls can leave both outputs off for good |
| `silence` | `SilencedBuildIsSilent` | `PRESSIO_SILENCE_WARNINGS` does not silence the warning of an uninitialised logger |
| `comm` | `RankFollowsCommunicator` | `initializeWithMPI` computes the rank before it stores its communicator, and nothing computes it again |
| `late_mpi` | `SerialWarningIsTrue` | `MPI_Init` after the initialisation is never noticed |

Behaviours of fmt that the models keep as they are, and that a user may not
expect:

* Dragon with a given number of digits may estimate the exponent one too high and
  write a leading zero (`format.h:2813-2823`):
  `fmt::format("{:.25e}", 1e28L)` is `0.9999999999999999999731565e+28`.
* `compare` of two equal big numbers whose exponents differ calls the one with
  more bigits larger (`format.h:2652`), and Dragon4 compares the remainder with the
  lower boundary by it (2831). Digits that lie exactly on that boundary are then
  missed although they read back, and more follow: for `f = (7 * 5^22 + 1) / 2` and
  `e = 40` of a double, formatted at compile time, behind 917504. In the run it is
  `38 * 2^4` with bigits of four bits; `ShortestReadsBack` excepts that one case.
* Dragon4 never makes more than 767 digits (`format.h:3276`), and the zeros behind
  them are counted from the precision alone (2388, 2408): `{:.1000f}` of 1.0 has 999
  digits behind the point. `DigitsAreTheOnesAskedFor` gives the number the code
  writes (`FixedDigits`, `SignificantDigits`).
* A precision of `INT_MAX` with `e`, and one with `f` that has no room for the digits
  before the point, throw "number is too big" (`format.h:3338`, 2507).
* Infinity and nan are aligned to the left by default, numbers to the right
  (`format.h:2220`, 1629); a bool with the `0` flag is padded on the left.
* A subtraction of big numbers takes a last borrow from one further bigit and asserts
  that none is left (`format.h:2547`). A quotient below ten needs no more, and the
  model's calls are those divisions.
* In a localised number the zero padding comes before the sign; a debug string's
  precision is ignored and its width counted in bytes.
* Numbering by hand after automatic numbering is accepted when a name stands
  between them, `"{}{n}{0}"`: the look-up of the name at `format.h:3602` calls
  `check_arg_id` of a name, which sets `next_arg_id_` to -1 (`base.h:918`), although
  the comment above `check_arg_id` has it report an error after automatic numbering.
* The reset after a styled argument also ends the style around it; a `|=` of two
  styles that throws may have changed the foreground already; the buffer of an
  escape sequence holds at most seven emphases with their terminator, and the one
  that all eight write behind it is undefined behaviour (`Overrun`).

**Bounds.** Two threads with two or three calls each, two file names, two
communicators. Two threads are enough to be in every pair of positions at once,
and every wait in the logger is a wait for one other thread; the invariants
proved in section 4 do not depend on the number. The files differ in name and in
whether they can be opened; the communicators in rank and size, so that a stale
rank shows. Three processes are enough for a communicator of two and one of one.
In `storage`, a buffer of three with limits below, at and above it and writes of
up to five crosses every boundary more than once; two inline elements and sizes up
to five make each memory buffer grow and move in both states and reach the clamp
of the largest allocation. In `parse`, five units hold every pair of constructs
with text between them. In `writers`, words are narrow so that all carries, groups and roundings of a digit occur; the limit of
twelve digits stands for 767 and the int of twenty for the largest, each with
precisions below, at and above it.

**Fairness.** `FairSpec` of the logger assumes weak fairness of each thread inside
it, which is that the scheduler runs it; it says nothing about when a program
makes its next call or calls `MPI_Init`. Weak fairness is enough although
`mutex_` is not fair, because programs are finite: after finitely many
acquisitions by others the mutex stays free until the thread takes it. In
`FmtBuffer`, weak fairness of `WriteSome` is that the loop in `append` keeps
running.

`Done` lets a system stop when its calls have been made, so deadlock is checked
everywhere.

## 4. Proofs

The assumptions are those of the `ASSUME`s of `LogLevels`, `Logger`, `LoggerSPMD`,
`FmtBuffer`, `FmtMemoryBuffer`, `FmtArgs`, `FmtParse` and `FmtText` (what a
program is, that a rank is below the size of its communicator and in the world is
the number of the process, that the processes of a part see one size and have
different ranks, that a program uses the MPI calls only in an MPI build, that a
buffer has room for a unit, that the number of arguments fits below the flags of
the descriptor, that a format string is a sequence of units, that a text is one of
bytes and a fill is not empty, that the characters of ASCII from the space to `~`
can be printed), which TLC evaluates in the runs, and the restrictions on programs
that the theorems state themselves.

| theorem | module | statement |
|---|---|---|
| `TypeCorrect` | `LoggerProofs` | `Spec => []TypeOK` |
| `MutualExclusion` | `LoggerProofs` | `Spec => []LockInv` |
| `WholeLines` | `LoggerProofs` | `Spec => []LinesStayWhole` |
| `WarnedOnce` | `LoggerProofs` | `Spec => []WarnsAtMostOnce` |
| `RefusalsExplained` | `LoggerProofs` | `Spec => RefusedCallsAreExplained` |
| `OneConfiguration` | `LoggerProofs` | `NoSetters` implies `Spec => []ConfigFromOneCall` |
| `WholeStrings` | `LoggerProofs` | `NoSetters` and no MPI imply `Spec => []NoTornOutput` |
| `ServiceAgrees` | `LoggerServiceProofs` | the service: `Spec => []OutputsAgree` |
| `AdoptedInRange` | `LoggerProofs` | `HSpec => AdoptedRankWasInRange` |
| `LogFollowsConfig` | `LoggerProofs` | `Configures(m)` for a thread `m` implies `HSpec => UndisturbedLogFollowsConfig` |
| `OneSpeaks` | `LoggerSPMDProofs` | `Spec => []OneSpeaker` |
| `ReturnedWasWritten` | `LoggerSPMDProofs` | `StartsInWorld`, `SplitsAgree` and `TargetsAreProcesses` for every program imply `Spec => []ReturnedIsWritten` |
| `LegalCalls` | `LoggerSPMDProofs` | `AsksInTime` for every program implies `Spec => []MPICallsAreLegal` |
| `LoggerImplementsService` | `LoggerRefinementProofs` | `NoSetters` implies `Spec => ImplementsService` |
| `LoggerOutputsAgree`, `LoggerOutputsComplete` | `LoggerRefinementProofs` | `NoSetters` implies `Spec => []OutputsAgree`, `[]OutputsComplete` |
| `LoggerLosesNothing` | `LoggerRefinementProofs` | `NoSetters` and `Files \subseteq Writable` imply `Spec => []NothingLost` |
| `GettersReturn` | `FmtStorageProofs` | `SpecsSpec => []GettersReturnWhatWasSet`, for any bytes of a fill |
| `CallerGetsThePrefix`, `SizeIsOfAll`, `NoOverrun` | `FmtStorageProofs` | `Spec => []OutputIsPrefix`, `[]SizeIsTotal`, `[]NothingPastTheEnd`, for any buffer size and limits |
| `OneOwner`, `RealCapacity` | `FmtStorageProofs` | `MemorySpec => []BlocksHaveOneOwner`, `[]CapacityIsReal`, for any buffers, blocks and inline size |
| `LookUpFinds` | `FmtStorageProofs` | `ArgsSpec => []LookUpFindsTheArgument`, for any word size and any argument lists shorter than `2 ^ (WordBits \div 2)` |
| `TextComesOut` | `FmtParseProofs` | `Spec => []TextIsKept`, for format strings of any length over any units |
| `NumberingKept` | `FmtParseProofs` | `Spec => []NumberingIsNotMixed`, for the same |
| `OnlyWellFormed` | `FmtTextProofs` | `Spec => []DecodesWellFormedOnly`, for strings of any length |
| `CutAndPadded` | `FmtTextProofs` | `Spec => []CutAndPaddedInCharacters`, for any precision, width and fill and any `Wide` |
| `DebugTextReadsBack` | `FmtTextProofs` | `Spec => []DebugReadsBack`, for strings of any length and any `Unprintable` from 128 on |

* *Mutual exclusion.* `LockInv`: the thread that holds `mutex_` is the one in the
  critical section. Inductive with `TypeOK`. Most steps are "quiet": outside the
  critical section, they leave the mutex and the outputs alone; one lemma per
  kind of step says so and the invariants use it.
* *Whole lines.* `LinesStayWhole` alone is not inductive: a line may be open
  (text written, end not yet). `WholeInv` adds that every open line belongs to
  the thread standing between the two insertions; by `LockInv` there is none when
  the next text is written.
* *The warning.* `WarnInv` ties the once_flag, the one thread inside `call_once`
  and the pieces on the console together; the action property follows, because a
  thread leaves the refusal only when the flag is done (`RefusalEnds`).
* *Start-up.* `StartInv`: one thread at most is in the body of `call_once`, the
  members it has already passed hold *its* arguments (`Assigned`), and the logger
  is published exactly when the flag is done. `PublishInv` adds that whoever got
  past the test of `logger_is_initialized_` sees whole strings and carries them
  to the outputs. `NoSetters` is necessary: a setter writes the same members
  without synchronisation.
* *The ranks.* `setLoggingRank` tests the rank and stores it in a later step, and
  other threads may store a communicator or a rank in between. `RankInv` says what is
  still true of a thread between the two: MPI is up, it is in one of the two calls that
  carry a rank, and if it found the logger initialised, its rank is below the size of a
  communicator in `since[t].comms`. That set only grows while the call lasts, so the
  others cannot undo it, and no restriction on the programs is needed. It has the
  communicator of the moment as well, which is what makes the test establish it.
* *An undisturbed call.* The property compares the call with the configuration at
  its *end*, while the code tests one member after another on the way; `LogInv`
  says for each position how far the call has got: `Filters`, what it has read is
  what the members still hold; `OnConsole` and `InFiles`, its line is on an output
  exactly when that output has been passed with its switch on. It needs four more
  invariants. `SwitchInv(m)`: the two switches are those of `dst_` except between
  the stores of `setOutputStream`. `CallInv`: a call of `log` stays inside `log`.
  `NumberInv`: a line number in an output has been used, so that a new call finds
  no line of its own there. `HistoryInv`: nobody else is reconfiguring while an
  undisturbed call runs, which is what makes the others' steps harmless
  (`OtherCalm`). The proof goes by what a step appends (`Grown`): a step of another
  thread puts pieces of its own lines into an output and no others. `Configures(m)`
  is necessary here because the history forgets: a call that begins after two
  setters have collided is undisturbed, and the switches are wrong all the same.
* *The processes of an MPI program.* Nothing is exchanged, so the argument is that
  what a logger holds is a function of the program and of the process's place in the
  communicators. `CommAt`, `CurrentAt` and `RankAt` define that function: the
  communicator given last, the rank in the one in force *before* the last
  initialisation, the rank adopted last. `KnowsInv` says that each process, at its own
  place in the program, has the values of that place, and `SpeakInv` that what stands
  in a queue or in the file is from a process whose two ranks are equal. Two processes
  that no communicator separates have been through parts of one size (`PartAlike`),
  so they have adopted the same ranks (`AdoptsAlike`), and no two processes of a part
  have one rank there. Nothing else is assumed: `OneSpeaker` has its precondition,
  that the logger starts under MPI, in itself. `WrittenInv` follows the line that each
  speaking process owes from its queue into the file, where it is completed once; that
  there is such a process needs more, and is where the code lets processes differ:
  a logger that starts in another communicator than the world has another rank
  (`StartsInWorld`), parts may disagree about a rank (`SplitsAgree`), a rank
  may be nobody's (`TargetsAreProcesses`). `LegalInv` is smaller:
  `mpi_initialized_` is true only if `MPI_Init` was called, and MPI has ended only
  if the program said so before.
* *The specifiers.* `SpecsInv`: `data_` is `Word(set)`, the sum of the fields at
  their places, and the bytes of the fill are those asked for. `FieldsFit` reads
  each field back from such a word, `WriteIs` writes one.
* *The service.* `ServiceInv`: the line of a thread is in no output before it is
  accepted, nothing stands behind it while it is delivered, and the outputs no
  longer due have it. The agreement of two outputs needs the second part.
* *The refinement.* `RouteInv` says that who writes to an output found it
  switched on and opened the configured file. With it, `LockInv` and `StartInv`
  every step of the logger is shown to be a step of the service or to leave it
  alone (`ServiceSimulated`, one lemma per kind of step); `OrderGrown` says that
  a completed line stands behind all others. The agreement and completeness of
  the outputs and `NothingLost` are then results about the service, carried over.
* *The buffers of fmt.* `BufferInv`: while a call writes, what was handed on, what
  is in the buffer and what is still to be written are consecutive parts of the
  output (`Consecutive`, a part being a `Piece`), a limited array has changed to
  its scratch array only when it was full (`RoomOf`), and a container is never
  longer than what is written (`Tight`). `FlushKeeps`, `TryReserveKeeps`,
  `PutKeeps` and `NewUnits` are the four things an action is made of, `EndIs` what
  the caller gets. `MaxUnits`, the bound of the model on the length of the output,
  is a constant like the others.
* *The memory buffer.* `MemoryInv`, the type and the two properties together, is
  inductive: that a move makes no second owner needs what was moved from to point
  at its store again, and that it is safe needs its capacity to be zero.

* *The arguments.* `ArgsInv` says what the descriptor holds when the first
  arguments have been stored: the packed types are digits of one number, each the
  type of its argument (`PackedTypes`), the flags lie above them, the values and the
  named arguments are in the order of the call. A store adds a power of two to the
  number; that a digit below it does not change and that the new one is read back
  (`BitsOfSum`, `BitsAt`, `BitsAbove`) is arithmetic with an unknown number of
  digits. `LookUpHolds` follows `get` and `get_id` over both representations.
* *Format strings.* The text a string denotes is what a reader with three
  registers makes of it (`Read`: the text so far, the depth of braces, whether the
  second unit of a pair is skipped), written without the phases and early returns of
  the parser. `ParseInv` relates the two at every position: in text, the parser has
  written what the reader has read (`TextState`); in a field, both have seen the
  same braces and the automatic and numbered fields so far agree with
  `next_arg_id_` (`Numbered`); behind the last unit the reader is done. One lemma
  per function of the parser says how far it moves and over which units
  (`FieldNameIs`, `ParseArgIdIs`, `FillAndAlignStays`, ...), one per step that the
  invariant survives. `EndInv` says that an accepted string has been read to its
  end.
* *Strings.* One step of the decoder takes the bytes that the standard lists and
  no others: the tests of `utf8_decode` on the code point are shown to be tests on
  the bytes (`Legal(n, a, b, c, d)`), one lemma per length. `Cuts(s)` are the
  sequences of pieces from the beginning of `s` to some byte; they are closed
  under `NextPiece`, whence `Pieces(s)` is the one that reaches the end
  (`PiecesAre`) and there is no other (`OneCut`). A prefix of `s` that ends where a
  piece ends has the first pieces of `s` (`PrefixPieces`), because no piece that is
  well-formed or refused inside it looks past it; so a text cut to its precision
  decodes to its first characters, and its width is that of these. `TextInv` says
  how long the measured text is and how wide.
* *Debug texts.* The escaped text of a string is that of its pieces, one after the
  other, each `Copied` or written as an `Escape` in ASCII; `Parts` says where each
  lies. That it is read back needs that the hexadecimal digits of an escape give
  back the number (`NumberOfTwo`, `NumberOfFour`, `NumberOfEight`), that a copied
  piece decodes in the escaped text as it did in the string (`CopiedAt`), and an
  induction over the pieces (`ReadIs`). That nothing in it needs an escape is not
  the same: the decoder finds the pieces of the text, not those of the string. A
  code point of it begins where a piece begins or inside one that is ASCII
  (`Begins`), because a copied piece takes as many bytes as it took before, and in
  both cases it can be printed (`EscapedPrints`). `DebugInv` says that a finished
  call has written the quoted text and no padding.
* *Induction over numbers.* The library's induction theorems cannot be used by the
  installed provers. `NatLemmas` derives what is needed from facts about finite
  sets: a set of numbers has a least one, hence induction for a *set* of numbers
  (`NatSetInduction`), hence that a function defined by recursion exists
  (`NatRecursion`), hence that `2 ^ n` is what one expects.

TLC finds these invariants true on the instances of the runs as well: `LockInv`,
`WholeInv`, `WarnInv`, `StartInv` and `PublishInv` on that of `serial`, `RankInv`,
`SwitchInv`, `CallInv`, `NumberInv`, `HistoryInv` and `LogInv` on that of
`reconfigure`, `KnowsInv`, `SpeakInv`, `WrittenInv` and `LegalInv` on that of `spmd`
for the programs that the theorems are about (four of its five start under MPI, three
meet the hypotheses of `ReturnedWasWritten`, all five `AsksInTime`), `BufferInv` on
the buffers and `ArgsInv` on the arguments of `storage`, `ParseInv` on `parse`,
`TextInv` and `DebugInv` on the strings of `writers`.

Only model-checked:

* `CallsReturn` and `AppendReturns`: liveness under fairness is out of the prover's
  reach.
* `CheckedStringsFormat` of `FmtParse`, which relates two parses of one string, by
  the checker and then by the formatter, and would need an invariant over both; and
  `SpecsAreRead`, whose reference definition tries every way to cut a string into
  specifiers.
* The eight properties of the other writers (`NumberIsWritten` to `DrawnAsAsked`):
  what the algorithms of `FmtInt`, `FmtFloat`, `FmtDragon` and `FmtBigint` compute
  for every input is defined with recursive operators, which the provers do not
  have, as they do not have the `Bitwise` of `FmtColor`.

## 5. Not modelled

* `prep_for_fmt` and the version macros: overloads and constants, no state.
* The construction of the singleton: thread-safe by the language.
* Exceptions of the standard library in the logger (no memory, a failing
  `std::cout`).
* In fmt: the hexadecimal notation of floating-point numbers
  (`format.h:2896-2980`); Dragonbox and the cached powers of ten (`format-inl.h`),
  which multiply 64- and 128-bit words by tables of constants, outside TLC's
  integers (what they promise is `ShortestReadsBack` of `FmtDragon`); printing to
  a console, system errors, the facets of locales; traits and overloads.
* Crashes inside an insertion: the operating system's.

## 6. What is left

1. The digits of `FmtInt` as recursive functions, so that `NumberIsWritten` can be
   proved for all numbers on the ground of `NatLemmas`, as the strings are.
2. `CheckedStringsFormat` from an invariant over the two parses.
3. The promise of `LoggerSPMD` stated as an abstract specification, one writer and
   one file, that the processes implement.

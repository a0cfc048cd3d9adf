# Verification of tdb-windows

TLA+ models of tdb-windows, a source-level debugger for Windows x64 written in Rust, with
TLC runs on small instances and TLAPS proofs for every instance. Paths below are relative to
the repository; line numbers are in `PROJECT.json` ("map").

## 1. Inventory

tdb is one thread: a REPL (`run_repl`) reads a command, `handle_command` runs it, and the
commands that resume the debuggee end in `continue_execution`, a loop over
`WaitForDebugEventEx` / `ContinueDebugEvent`. A second thread exists only for the console
control handler, which sets one atomic flag. The concurrency is in the debuggee: its threads
run whenever no event of their process is being handled, several can have events queued at
once, child processes are debugged too, and Windows injects threads of its own.

| Component | State | Operations | Talks to |
|---|---|---|---|
| Execution control (`debugger.rs`, `breakpoint.rs`) | `breakpoints`, `pending_breakpoint`, `pending_continue`, `step_target`, `step_over_bp`, `finish_bp`, `last_thread_id` | break, delete, continue, step, next, up, thread; the exception events | code bytes, contexts and events through `process.rs`; leak tracking, in the same event branches |
| Leak tracking (`debugger.rs`) | `leak_hooks`, `pending_leak`, `pending_leak_rearm`, `allocations` | leak start, stop, report; hook entry, hook return, re-arm | the same INT3s and single-step events |
| Watchpoints (`watchpoint.rs`, `debugger.rs`) | four slots, `next_id`; DR0-DR3, DR6 and DR7 of each thread | watch, awatch, rwatch, deletewatch; sync, hit, report | every thread's context; thread and process events |
| Thread lock (`debugger.rs`) | `threads`, `locked_thread`, `frozen_threads`; the suspend counts Windows keeps | lock, unlock, thread, threads; create and exit events | `SuspendThread` / `ResumeThread` |
| Session (`debugger.rs`, `process.rs`, `main.rs`) | `process`, `running`, the process table, the Ctrl+C flag | run, quit, exit of root and children, Ctrl+C | everything above, which `shutdown` resets |
| Win32 layer (`process.rs`) | handles | INT3 read and write, contexts, suspend, debug registers, events | Windows |
| Expressions (`eval.rs`) | none | lex, parse, eval, eval_location | memory and registers through a trait |
| Commands (`commands.rs`) | none | parse | REPL |
| Symbols (`symbols.rs`) | dbghelp session | address and line lookup, unwinding, prologue skipping | dbghelp |
| Printing (`debugger.rs`), registers (`process.rs`), disassembly (`disasm.rs`) | print settings | print, set, show, x, regs, disassemble | memory, symbols, breakpoints |

**What is hard, and what makes each part correct.**

*Execution control.* An INT3 is planted over an instruction, taken out when it is hit, and put
back after one single step; five owners (user breakpoints, `up`, `next`, the hook's entry and
the hook's return) share the code bytes, and each keeps the byte it saw. The records have one
slot each and name neither thread nor process. Correct means: the program's bytes can always
be restored, a thread never skips the instruction under an INT3 and never spins on one, the
program never receives an exception for an INT3 that is not its own, every breakpoint listed
as enabled is in the code, and every event is answered once.

*Leak tracking.* The hooks are in the same bytes as everything else; an allocation takes the
hook out until it returns, a free for one instruction. Correct means: a hook that is out has
something on its way that puts it back.

*Watchpoints.* Debug registers are per thread, threads come and go, writing them may be
refused, and a hit is a bit in a register that is read later. Correct means: once `watch` has
answered, every thread of the process traps on these accesses and no other thread does, and
what a stop reports is what happened.

*Thread lock.* Suspend counts live in Windows, the table in tdb, and threads exit, appear and
refuse. Correct means: the two agree, nobody is left frozen without a lock, somebody can run.

*Session.* Tables outlive processes, and events outlive the tables: a process that is killed
has an event on its way, which the next run's loop reads. Correct means: no living process is
lost sight of, the loop never waits for a root that can send nothing more, Ctrl+C always works.

*Expressions, printing, registers.* One thread, no state of their own, but many widths: an
i64 evaluator over objects of 1 to 8 bytes, doubles that pass through 80-bit registers, typed
lvalues that are computed beside their values. Correct means: a text parses to what it says,
the identities of C hold between the operators, what is shown is there, what is set is read
back, and nothing else changes.

*Symbols, disassembly.* Correct means: a breakpoint lands inside the function or on the line it
names, and what is decoded is the program.

The hazards, each at its line and with the properties aimed at it, are in `PROJECT.json`.

## 2. Plan

Written, in order: `DebugLoop` (with the leak hooks, which share its event branches) with the
abstract `Program`, `ThreadLock` with the abstract `Freeze`, `Watchpoints`, `Session`, and the
inspection stack `Arith`, `Registers`, `Objects`, `LineTable`, `Prompt`, `Syntax`,
`Expressions`, `Printing`, `Inspect`; proofs for all of them but the recursive modules
(`Syntax`, `Expressions`, `Printing`, and `Inspect`, which uses them). What is left:

1. `LeakTracker`: nested allocators and two threads in `malloc`, against an abstract set of
   live blocks.
2. `Watchpoints` with pids that are used again, composed with the process table of `Session`.
3. Arithmetic on doubles, and the 4-byte `float`.

## 3. Modules

All of them take one event together with its whole handler, or one command, as one action.
That is exact for the process that raised the event, which Windows keeps frozen until
`ContinueDebugEvent`; other processes go on in between, but touch none of the state a handler
reads, as code bytes and contexts are per process.

**`DebugLoop`** Debuggee state: `int3` (the locations, process and address, whose byte is
0xCC), and for each thread `rip`, `past` (it has executed the INT3 at `rip`; the real register
is `rip + 1`), `tf` and its queued `event`. Debugger state: the fields of `Debugger` by name.
`held` is the threads whose event was delivered and not continued, `mode` says whether the
REPL or the loop has control. `Handle` has one action per branch of `continue_execution`, in
the order the branches are tried; a branch's early return is `Stop`, its `continue` is `Resume`,
and a `?` that leaves before `ContinueDebugEvent` is `Propagate`. `Denied` threads refuse
Get/SetThreadContext, which is where a `?` fires. `User` has one action per command. Data that
is abstracted: a byte is "insn" or "int3", an instruction is an address with its successors
(`Flow`), calls and where they return (`Call`, `Fall`), lines (`Line`) and what unwinding
yields (`ReturnSites`) are constants; heap blocks are values of a small set, nondeterministic
as `rax` and `rcx` are. **`Program`** is the program without a debugger: threads that execute
their instructions, and raise an exception at an INT3 of their own before they go on.
`DebugLoop` implements it (`RunsAsAlone`) with `pc` being `rip`, and `trapped` the threads that
are behind an INT3 for which the debugger has answered (`Trapped`).

**`ThreadLock`** `suspends` is the count of each thread, `dying` the threads ExitProcess is
killing, `threads`, `locked_thread`, `frozen_threads` the tables. `Denied` threads cannot be
opened; `Refusing` ones open but fail a context access, which leaves them suspended once
(`?` between SuspendThread and ResumeThread). What killed processes leave in the event queue
after `shutdown` is not followed. **`Freeze`** is what lock and unlock promise, over known
threads, an owner and the stopped threads; `ThreadLock` implements it with `stopped` being
the known threads of positive suspend count.

**`Watchpoints`** `slots` and `next_id` are the `WatchpointManager`; `registers` holds, for
each thread, DR0-DR3 and DR7 as the set of its bits, written by the encoding of the code and
read back by `Length` and `Matches`, which follow the processor: low address bits are ignored,
condition 01 is a write and 11 any access. A thread's `Touch` is an access that matches. Ghosts:
`touched` (the access behind a trap), `reported` (the hits the current stop names) and
`settled` (slots whose last change was answered with success). A sync writes the threads in an
unspecified order, so a refusal leaves an arbitrary subset written. In `SINGLE_STEP` the choice
to go on without a stop stands for two branches of the loop: a step that stays on its line, and
an allocator hook's re-arm (`Tracking`), which drops the hits. Not modelled: the cached old
value, and pids that Windows uses again.

**`Session`** Windows: `life`, `event`, `unanswered`, `planted` and `signalled` of each pid, with
at most one event on its way per process (raising one freezes it). Debugger: `process`,
`processes` (the table of `DebuggeeProcess`), `breakpoints` (the pids in the keys of the table,
which nothing clears), `pending_continue`, the Ctrl+C flag and where the loop is. `run` has
three outcomes (started, target not found, no symbols), and the last two drop the old session
all the same. `terminate` is `Drop`: every process of the table is killed, and its exit event
comes after the one in its way. `Handle` has the branches by the process the event belongs to;
an event of a process of an earlier run takes the same branches as any other. The root's exit
is not answered, as in the code. The threads of a process are one; a hit with its step and
re-arm is one stop. The static `DEBUGGEE_PID` of `process.rs` is left out: it is
written and never read.

**`Arith`, `Registers`** are the integers (i64 that wrap, sign extension by size) and the
registers by name (general, 32-bit, XMM halves, x87 and its MMX alias), with doubles as their
bit fields. All widths are parameters: the code has `Byte = 256`, `Bits = 64`,
`Fraction = 2^52`, `Bias = 1023`. **`Objects`** is the bytes of objects in memory: `read_typed`
and `write_typed`. **`Syntax`** takes lexemes to trees, one operator per level of the parser
(`Precedence`), and back (`Text`). **`Expressions`** is `eval`, `eval_location` and the
assignment over a context of memory and registers; types are records (`Base`, `Pointer`,
`Array`, `UDT`). **`Printing`** is `format_scalar`, `format_array` with its limit and repeats,
structs and C strings; a shown text is a structure (an array is a list of parts, each a text
and how often it stands), not characters. **`LineTable`** is lookup by line and function, and
`skip_prologue`; `LandsInside` says where a breakpoint belongs. **`Prompt`** is the prompt over
them: `print_expr`, `set`, `set_print`, `set_breakpoint`, `delete`, `disassemble`; each action
leaves what was asked and answered in `answer`, and `read_line` clears it. What a text means is
a parameter of `Prompt`: `Parse`, `Format` (what `print` makes of a tree) and `Plan` (where an
assignment writes, and what). **`Inspect`** defines these three by the parser, the printer and the
evaluator, and states what they promise. The two are apart because the parser and the evaluator
are recursive and the prover treats no module that reaches a recursive operator: everything that
changes state is in `Prompt`, where it can be proved about.

`MC*` modules give the constants values. `MCOneThread`, `MCThreads`, `MCLock`, `MCWatchpoints`
and `MCInspect` also extend (or instantiate) the proofs of their module and assume, under the name
`InScope`, the hypothesis of its theorems: TLC evaluates it, so each of these runs is an
instance of what is proved. Operators placed before the definition they resemble
(`ReadTooLate`, `StepOffAtPrompt`, `WriteKeepingDr6`, ...) are variants with a mistake, used to
check that each property notices it ("mutants" in `PROJECT.json`); no action uses them.

## 4. Runs

| Run | Shows |
|---|---|
| `OneThread` | one thread, all execution commands and a hook on free: bytes, flags, temporaries, replies, the refinement of `Program`, and liveness |
| `Allocator` | one thread through hooked malloc and free, with steps and breakpoints around them: temporaries, original bytes, the refinement of `Program`, and liveness |
| `Threads` | two threads and the Ctrl+C thread, with faults, watchpoint traps and other events, queued in any order: bytes, flags, replies, and the refinement of `Program` |
| `Lock` | the lock over three root threads (one denies access) and a child process, exits and restarts included |
| `Watch` | two slots, three threads of a root and its child process, one that refuses its registers so that syncs abort, restarts |
| `Session` | two launches over three pids: restarts, failed starts, children, exits, Ctrl+C, and events of killed processes |
| `Inspect` | what is typed is parsed, evaluated, shown, set and resolved as it should, over 71 bytes of memory |
| `LostBreakpoint`, `ChildExit`, `LostHit`, `Disassemble`, `PrintLimit` | five places where the code does not do what its documents or comments say; see "findings" |

**Bounds.** The programs are one loop of three addresses (`Threads`) or of eight with a call and
an allocator (`OneThread`, `Allocator`): every relation between two INT3 owners that the code
distinguishes (same address, call and return site, same line) occurs. Two threads are enough for
one record to be overwritten by, or taken by, another thread, which is all a single slot allows.
`Block` has one block. `MaxSuspend = 2` makes a double suspension visible. Two slots stand for
four: exhaustion and reuse happen with two; `MaxId` bounds the watchpoints set in a session so
that a slot is reused. Of the four threads of `Watch` any three start in a session, and with the
one that refuses among them one variable is watched (the constraint `Bounded`). Watched
variables are aligned in the passing runs; on a misaligned one `ArmedEverywhere` fails, since the CPU drops the low address bits and nothing rounds.
`Session` needs three pids: with the third, a child that outlived one run coexists with the
root of that run, killed but not yet reaped, and the root of the next. `MaxLaunches = 2` is one
restart, with pids that come round again. `Inspect` scales the widths and not the shape: a byte
has 4 values, so that a word of 8 bytes has 16 bits, a double 1 + 6 + 9, an x87 exponent 8;
carries, sign bits, minima, truncation to 1, 4 and 8 bytes and both exponent biases are all
there. (`PowersAssumption` and `FormatAssumption` are what the code's numbers have in common with
these: powers of two multiply, the fraction is a power of two, and the exponent reaches past
the word.) `MaxChanges = 2` lets a `set`, a setting or a breakpoint be seen through another; print
settings are changed only once a debuggee runs, since nothing is shown before. The texts are
every nesting of two operators, every unary around them and every sequence of up to three
lexemes of 12.

`RunsAsAlone` covers what `NoStrayInt3` and `NeverSkips` say where a run does not list them: a
debugger INT3 handed to the program, or an instruction passed over, is a step `Program` has not.

**Where the passing runs stop.** `OneThread` leaves out breakpoints inside a stepped-over call,
and no run sets a breakpoint on a hooked address or types break where one is set already: with
them the properties fail. In particular, with `Breakable = {body}` TLC finds `NoStrayInt3`
violated: the stop inside the call forgets the INT3 at its return address, which is later
handed to the program. No run steps over a call with two threads: TLC finds `RunsAsAlone`
violated when the second thread stops meanwhile, which forgets the first one's return INT3 in
the same way. `Threads` has one process (with two, a step event of one re-arms the
other's breakpoint at the same address, which then saves an INT3 as its original byte:
`OriginalKept` fails, and with it F-BP-07 of `docs/01`, breakpoints of different processes are
independent) and `Denied = {}` (a thread that refuses its context leaves its event
unanswered: `OneReplyOwed` fails with `Denied = {worker}`). It has no calls, no delete and
no `rebreak`, and its breakpoints can be lost (`LostBreakpoint`), which `EnabledIffPlanted`
allows: a lost breakpoint is at least listed as disabled. `Lock` keeps the lock in the root
(otherwise `ChildExit`) and `Refusing` empty (otherwise a context access suspends a thread for
good). `Inspect` assigns data and not code, and asks about pointers that are variables:
`*(p + 1)` is not scaled by the size of the pointee, and `*a` or `a->f` of an array takes the
array's contents for an address, which C would not. `ShownIsThere` does not bound how much is
shown: the documented limit (`elements`, docs/01:110, docs/04:119) is `ElementsLimited`, which
`PrintLimit` finds violated, because the limit is looked at before a run of equal elements and
not inside it; with `Limits = {0}` a string shows one character, which violates it too.
`BreakpointsLandInside` takes a function of unknown size to end where the next one begins. The
code guesses 4096 bytes (`Reach`), and the run's one such function has none after it: with
another function of the same file within the guess, a breakpoint on the first lands in the
second, and TLC finds the property violated. The slot that a watchpoint keeps when its child
process exits is in the model of `Watchpoints` but in no property, as no document says when a
slot is released: `ArmedEverywhere` and `ReportsAreTrue` hold of leaked slots as well.
Deadlock is checked in every run.

**Fairness** (`FairSpec`, used by `OneThread` and `Allocator`). Threads are scheduled by Windows:
weak fairness of a thread's next instruction. The loop polls every 100 ms without other exits:
weak fairness of handling a queued event. And a user at the prompt sooner or later types
continue: weak fairness of `Continue`. No fairness is assumed of any other command.

In `Session` no fairness is assumed of the user or of the program. The loop takes its two halves
in turn (weak fairness of `take_interrupt_requested`, `timed_out` and of handling some event).
The debug object is a queue, so the root's event is not passed over for ever while others come
(strong fairness of `HandleRoot`), and the thread Windows injects for a Ctrl+C is scheduled
sometime although the root's other threads keep raising events (strong fairness of
`RootControlC`). `CtrlCStops` is `PROPERTY` of that run: it is stated for a root whose creation
event has been handled, because before it there may be no console to send Ctrl+C to, and the
code ignores the failure.

## 5. Proofs

`DebugLoop_proofs` proves, for every program, set of threads, processes and commands:

- `TypeCorrect`: `Spec => []TypeOK`.
- `InstructionsNeverSkipped`: `Spec => NeverSkips`, without assumptions on who denies what.
  `NeverSkips` is not inductive alone: at the prompt the reply is already decided, so the
  invariant `RewoundReply` says that a recorded "continue" belongs to a thread that is not
  behind an INT3. The lemma `HandlerEnds` does the work: each of the eleven handlers ends in
  one of four ways (`Answered`) and moves no thread but its own.
- `RepliesBalance`: if `Denied = {}`, then `Spec => []OneReplyOwed`. The assumption is
  needed (section 4). `OneReplyOwed` is inductive given types.
- `ArmedAtEveryPrompt` and `RearmAlwaysComes`, under `OneThread` (one thread, which raises no
  exceptions of its own, no Ctrl+C, no denied context, no breakpoints on hooked entries; every
  command allowed). The invariant `StepOffInv` follows a hit from `BreakpointHit` to the step
  that re-arms it: `Pending` says the loop has control, no temporary is alive to claim the
  thread's events, and the thread is before (`tf` set, `rip` on the breakpoint) or just after its
  one instruction; `Listed` says the breakpoint stepped off is the only disabled one.
- `FlagsTruthful`, `NoneStray` and `OriginalsOnRecord`, under `Plain` (one process; `break`,
  `continue`, `step` and `thread`; no breakpoints on the program's own INT3s), for any threads
  and events and with any contexts denied: what the run `Threads` checks for three threads. The
  invariant `PlainInv` says that every INT3 in the code, and every one a thread has already
  raised, has an owner that never goes (`AllOwned`), which is why a second queued hit of one
  breakpoint is claimed although its INT3 is out, and that the breakpoint stepped off is out
  of the code (`StepsOffEntry`), so that re-arming saves the program's byte and not an INT3.
- `PlainRunsAsAlone`, under `Plain`: the debugged program implements `Program`. The lemma
  `StepAlone` needs of a session only that it is `Tame` (types, `NoStrayInt3`, the program's own
  INT3s stay in the code), so the same lemma serves `OneThread_proofs`: commands and handlers
  are stutters but for the reply to the program's own INT3, which is `Program`'s `Trap`
  (`UserAlone`, by `RewoundReply` and `NoStrayInt3`), and an executed instruction is its `Run`,
  since a thread is left behind an INT3 only by the program's own (`BehindOwn`).

`OneThread_proofs` is about sessions with one thread that mix everything: `break`, `delete`,
`continue`, `step`, `next`, `up` and leak tracking, over any program. Under `Sequential` it
proves `TemporariesStay` (`TemporariesPlanted`), `BytesOnRecord` (`OriginalKept`),
`FlagsTrueToCode` (`EnabledIffPlanted`), `NothingStray` (`NoStrayInt3`) and
`SequentialRunsAsAlone` (`RunsAsAlone`).

The invariant `OwnersInv` has one part per record. `Code`: every INT3 has an owner and the
program's own stay. `Raised`: an INT3 a thread has raised is still there when the loop looks
at it. `Flags`: entries hold the program's byte and true flags, and the one that is being stepped
off is out. `Finishing` and `SteppingOver`: a temporary of `up` or `next` holds the program's
byte, its location is no breakpoint's and no hook's, the loop has control, and the thread is on
its way there. `Hooks`, `Rearming`, `Allocating`: a hook is in the code unless its thread is
stepping off it or is inside the allocator, whose return INT3 is in the code and has saved the
program's byte, or 0xCC if `next` planted its own at the same address before. "On its
way" is `RunsTo(a, r, off)`: some set of addresses that avoids `off` contains `a` and leads
nowhere but to `r`, which needs no recursion and is kept by each executed instruction
(`RunsOn`). None of the four safety properties is inductive without the others: what a handler
writes back is right only if every other owner of the same byte is where its part says.

What `Sequential` excludes is what breaks the code, not what the proof cannot do: with any
one of these allowed, in the programs of `MCDebugLoop`, TLC finds one of the four violated.

| Excluded | Violated otherwise |
|---|---|
| exceptions of the program, Ctrl+C (`OneThread`) | all four: the stop forgets the temporaries and leaves their INT3s |
| breakpoints on hooked entries (`OneThread`) | all four |
| watchpoint stops | `EnabledIffPlanted`, `OriginalKept`, `NoStrayInt3`: a stop on the way keeps the slot of `up`, and a breakpoint then set at its address saves 0xCC and loses its INT3 to it |
| `break` typed where one is set | `EnabledIffPlanted`, `OriginalKept`, `NoStrayInt3` |
| breakpoints on the program's own INT3s | `EnabledIffPlanted`: the byte written back is an INT3 |
| hooks on the program's own INT3s | `OriginalKept`, `NoStrayInt3`, `TemporariesPlanted` |
| a breakpoint, or an INT3 of the program, inside a call that `next` steps over (`CallsReturn`), or before where `up` stops (`FramesReturn`) | `OriginalKept`, `NoStrayInt3` |
| a breakpoint inside a hooked allocator (`AllocatorsReturn`) | `OriginalKept`, `NoStrayInt3`, `TemporariesPlanted` |
| a breakpoint where the allocator returns to (`AllocatorsReturn`) | `EnabledIffPlanted` |
| `up` from inside a hooked allocator (`UpFree`) | `TemporariesPlanted` |
| `leak stop` while an allocation has not returned (`UpFree`) | `OriginalKept`, `NoStrayInt3` |

`ThreadLock_proofs` proves `TypeCorrect`, and under the assumption `Clean` (threads the lock is
moved to belong to the root; whoever fails a context access also cannot be opened)
`FrozenAreSuspended`, `NoOrphanFreeze`, `NeverAllFrozen` and `ImplementsFreeze`. The invariant
is `IInv == TypeOK /\ LifeInv /\ LockInv`: `LifeInv` ties the tables to the life of the threads
(a known thread is alive or has its exit queued, a stopped-for thread has its event), and
`LockInv` says that frozen threads are known, not the owner, not denied, and suspended exactly
once, while everyone else has count zero. `SuspendedOnce` and `FreezeHasOwner` follow from
`LockInv`, which exits preserve only because of `LifeInv`; `SomeoneRuns` also needs `LifeInv` (while the
session lasts, a root thread lives or the root's exit is queued). `ChildExit` shows the first half of `Clean` is
needed.

`Watchpoints_proofs` proves `TypeCorrect`, and for targets aligned to their size
(`AlignedTargets`) `WatchpointsAreArmed` and `ReportedHitsAreTrue`, threads that refuse their
registers included. The first rests on the encoding: `SlotOfWanted` shows that the bits of
different slots are disjoint, so that what `dr7_and_addrs_for_pid` puts in a slot is that slot's
watchpoint and nothing else. The inductive invariant (`Agreement`) says that a live thread
that does not refuse agrees, in every settled slot, with what its process wants. For the second,
`HitsHold` says of every hit bit of a settled slot that is in use that its thread's trap is
still to be handled and its access touched what the slot is for now, and `HeldQuiet` that the
thread of the current stop has no such bit left.

`Session_proofs` proves `TypeCorrect`, `NoProcessIsLost` and `TheLoopHasARoot` for any number of
pids and launches. `Accounted` is nearly inductive. `LoopHasRoot` is not: the invariant adds
`Rooted` (the root is tracked, and exists until its exit event has been read), `Answerable` (an
unanswered root is the one `pending_continue` names) and `OnTheWay` (a process with an event on
its way exists and has had its last one answered), so that a stop in a process of an earlier run,
which leaves nothing to answer, leaves the root as it was.

`Registers_proofs` proves facts about the operators, for every width. `OperatorsAreC`: each of
the sixteen binary operators of the evaluator satisfies `IsBinary`, which is what
`ArithmeticIsC` checks of the expressions typed: sums and products modulo the word, a quotient
toward zero with its remainder (`QuotientTowardZero`; the least integer by -1 wraps), shifts as products and
quotients by a power, bits by how they add up; the value is an i64, and only division by zero
fails. `BitwiseIsPerBit` says the same of `&`, `|`, `^` bit by bit. `IntegersThroughDoubles`: an
integer of no more bits than a double holds is the same after `as f64` and `as i64`;
`DoublesKeepTheirBits`, `DoublesSurviveTheStack` (a double that is not subnormal comes back from
the 80-bit format as it was) and `SetReadsBack` (what is written to a register by name is what
is read). The lemmas `DivMod`, `Wrapped` and `SameIsCongruence` carry the arithmetic. Bits are
sums (`SumBelow`, a recursive function): `SumsExist` shows the recursion has a solution,
`SumsAreBounded`, `SumsTogether`, `SumOfBits` and `SumAbove` are inductions on the number of
bits, written as the least counterexample (`LeastExists`).

`Prompt_proofs` is about the prompt, for every debuggee, table, width and format, and any
sequence of commands. `TypeCorrect` and `AssignmentsAreExact` (`SetIsExact`: an accepted `set`
changes the object it names and nothing else, and reading the object gives the value) hold of
every evaluator that is `EvaluatorTyped`: what it hands to the write is a location and a value
as their Rust types say, a double having its 8 bytes. Rust's type checker vouches for most
of that; TLC evaluates it for the evaluator of the code as part of `InScope`, on every assignment of
the run, in the first debuggee, in each debuggee an assignment leaves, and in others with extreme bytes and
registers. The invariant is `Typed`, which names the shape of the register file that `TypeOK`
leaves open. In memory, the argument is that the bytes of an object add up to its value
(`BytesAddUp`, `ReadsBack`) and that reading extends the sign (`SignExtended`); in a register,
that no two names but `mm` and `st` of one number share anything.
`BreakpointsLand` (`BreakpointsLandInside`), `BreakpointsKeepTheProgram` (no setting or deleting
of a breakpoint changes a byte of the program: `ProgramUntouched`) and `DisassemblyIsTrueAbove`
need no evaluator. Their invariant is `Placed`: each breakpoint lies in memory, and no two share an
address. `DisassemblyIsTrueAbove` is the other side of
the run `Disassemble`: a view differs from the program only if a breakpoint lies below it.

`LineTable_proofs` proves `ResolvedTargetsLand` for every line table and every function list:
what `resolve_target_address` answers lies inside the function that was named, at its entry or
where a line begins, or on the line that was named or the nearest later one of its file that
has code (`LandsInside`, which the invariant `BreakpointsLandInside` of `Inspect` checks on one
table). It and `BreakpointsLand` assume `GuessIsInside`: no function begins within `Reach` of
the entry of one whose size is unknown. Both searches are least elements; `LeastOfNaturals` gets those from the
well-foundedness of strict inclusion of finite sets, applied to the intervals `0 .. n`.

The assumptions `Setting` of each module, `NoneApart` of `DebugLoop` and those of `Arith`,
`Registers` and `Prompt` are about constants only, and TLC evaluates them in every run of the module.

**Model-checked only.** `InstructionsComplete` and `CtrlCStops`, which are liveness, out of the
prover's reach; and `ParsesAsWritten`, `ArithmeticIsC`, `PointersAreArrays` and `ShownIsThere`
of `Inspect`, which are about recursive operators (the parser, `eval`, `format_field`), which the
prover cannot treat. Of `ArithmeticIsC`, what is not recursive is proved (`OperatorsAreC`); what TLC
adds is that `eval` takes its operands to them.

## 6. Not modelled

- Expressions: arithmetic and comparison of doubles (`eval.rs:645-671`) and the 4-byte `float`,
  the characters that make up a lexeme, typedef chains, variables by scope. An x87 value too small
  for a normal double is read as zero, and no subnormal double is written to the stack.
- Printing: the layout of pretty output, and `regs`, `x`, `list`, `bt`, `show`, `info`, which read what
  `print` reads and change nothing. Decoding instructions is iced-x86's; dbghelp's own lookups are tables.
- Session: threads within a process, launching, privileges and handles (I/O); debuggees killed from outside;
  whether a Ctrl+C reaches a process of a new group, which is taken from the code's comments.
- Allocation sizes and totals of the leak report; the old value a watchpoint shows; a pid used
  again as seen by the watchpoints.
- Failures of ReadProcessMemory, WriteProcessMemory and VirtualProtectEx on valid code
  addresses of a live process; `set` writing over planted bytes.

----------------------------- MODULE Watchpoints -----------------------------
(***************************************************************************)
(* Hardware watchpoints (src/src/watchpoint.rs and their commands and      *)
(* events in src/src/debugger.rs): the slot table, the debug registers of  *)
(* every thread and what the CPU makes of them, while threads and child    *)
(* processes come and go.                                                  *)
(*                                                                         *)
(* One event with its handler, or one command, is one action.  DR7 is the  *)
(* set of its bits; memory is a few bytes, the same in every process.      *)
(***************************************************************************)
EXTENDS Naturals, FiniteSets

CONSTANTS
  Process, Root, Thread, ProcOf,
  Main,          \* the first thread of each process
  Denied,        \* threads that refuse Get/SetThreadContext
  Slot,          \* the slots, 0 .. 3 on x64
  Target,        \* what the user watches: [address, size] of an expression
  Access,        \* what the program does: [address, size, write]
  Tracking,      \* whether `leak start' is in use
  MaxId,         \* bound: watchpoints set in one session
  None

Kind == {"write", "access"}
HwSize == {1, 2, 4, 8}

ASSUME Setting ==
  /\ Root \in Process /\ ProcOf \in [Thread -> Process]
  /\ Main \in [Process -> Thread] /\ \A p \in Process : ProcOf[Main[p]] = p
  /\ Denied \subseteq Thread /\ Slot \subseteq 0 .. 3
  /\ Target \subseteq [address : Nat, size : Nat]
  /\ Access \subseteq [address : Nat, size : Nat \ {0}, write : BOOLEAN]
  /\ Tracking \in BOOLEAN /\ MaxId \in Nat /\ None \notin Thread

Watch == [id : Nat, pid : Process, address : Nat, size : HwSize, kind : Kind]
\* The bits of DR7 a slot has: local enable, condition, length.
Dr7Bit == UNION {{2 * i, 16 + 4 * i, 17 + 4 * i, 18 + 4 * i, 19 + 4 * i} : i \in Slot}
Registers == [dr : [Slot -> Nat], dr7 : SUBSET Dr7Bit]

VARIABLES
  life, event,         \* the threads, and what each has raised
  touched,             \* the access an unreported trap was for
  registers, dr6,      \* DR0-DR3 and DR7, and the hit bits of DR6
  \* the Debugger struct
  process, mode, held, last_thread_id, threads,
  slots, next_id,      \* the WatchpointManager
  \* what the user has been told
  reported,            \* the hits the current stop reports
  settled              \* slots whose last `watch' or `deletewatch' succeeded

os == <<life, event, touched>>
cpu == <<registers, dr6>>
session == <<process, mode, held>>
manager == <<slots, next_id>>
told == <<reported, settled>>
vars == <<os, cpu, session, last_thread_id, threads, manager, told>>

TypeOK ==
  /\ life \in [Thread -> {"unborn", "alive", "dead"}]
  /\ event \in [Thread -> {"none", "create_process", "create_thread", "trap", "step",
                           "stop", "exit_thread", "exit_process"}]
  /\ touched \in [Thread -> Access \cup {None}]
  /\ registers \in [Thread -> Registers]
  /\ dr6 \in [Thread -> SUBSET Slot]
  /\ process \in BOOLEAN
  /\ mode \in {"prompt", "loop"}
  /\ held \in Thread \cup {None}
  /\ last_thread_id \in Thread \cup {None}
  /\ threads \subseteq Thread
  /\ slots \in [Slot -> Watch \cup {None}]
  /\ next_id \in 0 .. MaxId
  /\ reported \subseteq [slot : Slot, watch : Watch, thread : Thread]
  /\ settled \subseteq Slot

-----------------------------------------------------------------------------
(* Debug registers.                                                        *)

\* The size a debug register can match; above 8 there is none.
hw_size_exact(n) == n

hw_size(n) ==
  CASE n \in {0, 1} -> 1 [] n = 2 -> 2 [] n \in {3, 4} -> 4 [] OTHER -> 8

\* DR7 condition and length fields, as the bits set in them.
condition_bits(kind) == IF kind = "write" THEN {0} ELSE {0, 1}

len_bits(size) ==
  CASE size = 1 -> {} [] size = 2 -> {0} [] size = 8 -> {1} [] OTHER -> {0, 1}

SlotBits(i, w) ==
  {2 * i} \cup {16 + 4 * i + b : b \in condition_bits(w.kind)}
          \cup {18 + 4 * i + b : b \in len_bits(w.size)}

\* The registers a thread of process pid should hold.
for_every_pid(ws, pid) ==
  LET used == {i \in Slot : ws[i] # None}
  IN  [dr  |-> [i \in Slot |-> IF i \in used THEN ws[i].address ELSE 0],
       dr7 |-> UNION {SlotBits(i, ws[i]) : i \in used}]

dr7_and_addrs_for_pid(ws, pid) ==
  LET mine == {i \in Slot : ws[i] # None /\ ws[i].pid = pid}
  IN  [dr  |-> [i \in Slot |-> IF i \in mine THEN ws[i].address ELSE 0],
       dr7 |-> UNION {SlotBits(i, ws[i]) : i \in mine}]

Zeroed == [dr |-> [i \in Slot |-> 0], dr7 |-> {}]

\* What the CPU makes of them: a slot matches the 1, 2, 4 or 8 bytes at its
\* address, whose low bits are ignored.
Length(r, i) ==
  CASE {18 + 4 * i, 19 + 4 * i} \cap r.dr7 = {} -> 1
    [] {18 + 4 * i, 19 + 4 * i} \cap r.dr7 = {18 + 4 * i} -> 2
    [] {18 + 4 * i, 19 + 4 * i} \cap r.dr7 = {19 + 4 * i} -> 8
    [] OTHER -> 4

Bytes(address, size) == address .. address + size - 1

Matches(r, i, a) ==
  LET n == Length(r, i)
  IN  /\ 2 * i \in r.dr7
      /\ 16 + 4 * i \in r.dr7 /\ (17 + 4 * i \in r.dr7 \/ a.write)
      /\ Bytes(a.address, a.size) \cap Bytes((r.dr[i] \div n) * n, n) # {}

-----------------------------------------------------------------------------
(* The debuggee.                                                           *)

\* tdb has started, and nothing runs yet.
Init ==
  /\ life = [t \in Thread |-> "unborn"]
  /\ event = [t \in Thread |-> "none"]
  /\ touched = [t \in Thread |-> None]
  /\ registers = [t \in Thread |-> Zeroed]
  /\ dr6 = [t \in Thread |-> {}]
  /\ process = FALSE /\ mode = "prompt" /\ held = None
  /\ last_thread_id = None /\ threads = {}
  /\ slots = [i \in Slot |-> None] /\ next_id = 0
  /\ reported = {} /\ settled = Slot

Alive(p) == {t \in Thread : ProcOf[t] = p /\ life[t] = "alive"}

\* Nothing runs in a process that waits for the answer to its event.
Halted(p) == ~process \/ (held # None /\ ProcOf[held] = p)

Runnable(t) == life[t] = "alive" /\ event[t] = "none" /\ ~Halted(ProcOf[t])

debuggerVars == <<session, last_thread_id, threads, manager, told>>

\* A thread creates another in its process, or the first of a child process.
Start(t) ==
  /\ life[t] = "unborn"
  /\ \E s \in Thread : Runnable(s) /\ (ProcOf[s] = ProcOf[t] \/ t = Main[ProcOf[t]])
  /\ life' = [life EXCEPT ![t] = "alive"]
  /\ event' = [event EXCEPT ![t] = IF t = Main[ProcOf[t]] THEN "create_process"
                                                          ELSE "create_thread"]
  /\ UNCHANGED <<touched, cpu, debuggerVars>>

\* An instruction touches memory some slot of its thread matches: it completes
\* and traps, DR6 saying which slots.  Other accesses change nothing here.
Touch(t) ==
  /\ Runnable(t)
  /\ \E a \in Access :
       LET hits == {i \in Slot : Matches(registers[t], i, a)}
       IN  /\ hits # {}
           /\ dr6' = [dr6 EXCEPT ![t] = @ \cup hits]
           /\ touched' = [touched EXCEPT ![t] = a]
           /\ event' = [event EXCEPT ![t] = "trap"]
  /\ UNCHANGED <<life, registers, debuggerVars>>

\* A trap-flag step, or any other event the loop stops for.
ReachStop(t) ==
  /\ Runnable(t)
  /\ \E kind \in {"step", "stop"} : event' = [event EXCEPT ![t] = kind]
  /\ UNCHANGED <<life, touched, cpu, debuggerVars>>

\* A thread ends; the last one ends the process.
Exit(t) ==
  /\ Runnable(t)
  /\ life' = [life EXCEPT ![t] = "dead"]
  /\ event' = [event EXCEPT ![t] = IF Alive(ProcOf[t]) = {t} THEN "exit_process"
                                                             ELSE "exit_thread"]
  /\ UNCHANGED <<touched, cpu, debuggerVars>>

-----------------------------------------------------------------------------
(* Debug events.                                                           *)

Wait(t, kind) ==
  /\ process /\ mode = "loop"
  /\ event[t] = kind /\ ~Halted(ProcOf[t])
  /\ last_thread_id' = t

Answer(t) == event' = [event EXCEPT ![t] = "none"]

\* set_debug_registers on each of ts: DR6 is cleared with every write.
WriteKeepingDr6(ws, ts) ==
  /\ registers' = [t \in Thread |-> IF t \in ts THEN dr7_and_addrs_for_pid(ws, ProcOf[t])
                                                ELSE registers[t]]
  /\ UNCHANGED dr6

WriteRegisters(ws, ts) ==
  /\ registers' = [t \in Thread |-> IF t \in ts THEN dr7_and_addrs_for_pid(ws, ProcOf[t])
                                                ELSE registers[t]]
  /\ dr6' = [t \in Thread |-> IF t \in ts THEN {} ELSE dr6[t]]

\* A process's first thread: its debug registers are left alone.
CREATE_PROCESS(t) ==
  /\ Wait(t, "create_process")
  /\ threads' = threads \cup {t}
  /\ Answer(t)
  /\ UNCHANGED <<life, touched, cpu, session, manager, told>>

\* A new thread is given the watchpoints, if it lets itself be.
CREATE_THREAD_unsynced(t) ==
  /\ Wait(t, "create_thread")
  /\ threads' = threads \cup {t}
  /\ Answer(t)
  /\ UNCHANGED <<life, touched, cpu, session, manager, told>>

CREATE_THREAD(t) ==
  /\ Wait(t, "create_thread")
  /\ threads' = threads \cup {t}
  /\ WriteRegisters(slots, {t} \ Denied)
  /\ Answer(t)
  /\ UNCHANGED <<life, touched, session, manager, told>>

EXIT_THREAD(t) ==
  /\ Wait(t, "exit_thread")
  /\ threads' = threads \ {t}
  /\ Answer(t)
  /\ UNCHANGED <<life, touched, cpu, session, manager, told>>

\* The root's exit ends the session and its watchpoints; a child's leaves the
\* watchpoints that were set in it where they are.
EXIT_PROCESS(t) ==
  /\ Wait(t, "exit_process")
  /\ \/ /\ ProcOf[t] = Root
        /\ process' = FALSE /\ mode' = "prompt" /\ held' = None
        /\ threads' = {}
        /\ slots' = [i \in Slot |-> None] /\ next_id' = 0
        /\ reported' = {} /\ settled' = Slot
        /\ life' = [u \in Thread |-> "dead"]
        /\ event' = [u \in Thread |-> "none"]
     \/ /\ ProcOf[t] # Root
        /\ threads' = {u \in threads : ProcOf[u] # ProcOf[t]}
        /\ Answer(t)
        /\ UNCHANGED <<life, session, manager, told>>
  /\ UNCHANGED <<touched, cpu>>

\* The slots DR6 says were hit, unless it cannot be read or nothing is watched.
take_watchpoint_hits(t) ==
  IF t \in Denied THEN {} ELSE {i \in dr6[t] : slots[i] # None}

\* STATUS_SINGLE_STEP: report the hits and stop; go on, if there are none; or
\* put an allocator hook back and go on without a word.
SINGLE_STEP(t) ==
  LET hits == take_watchpoint_hits(t)
  IN  /\ Wait(t, "trap") \/ Wait(t, "step")
      /\ IF t \in Denied \/ dr6[t] = {} \/ \A i \in Slot : slots[i] = None
         THEN UNCHANGED cpu
         ELSE WriteRegisters(slots, {t})
      /\ \/ /\ mode' = "prompt" /\ held' = t
            /\ reported' = {[slot |-> i, watch |-> slots[i], thread |-> t] : i \in hits}
            /\ UNCHANGED event
         \/ /\ hits = {} \/ Tracking
            /\ Answer(t)
            /\ UNCHANGED <<mode, held, reported>>
      /\ touched' = [touched EXCEPT ![t] = None]
      /\ UNCHANGED <<life, process, threads, manager, settled>>

\* Every other event the loop returns to the prompt for.
Stop(t) ==
  /\ Wait(t, "stop")
  /\ mode' = "prompt" /\ held' = t
  /\ UNCHANGED <<os, cpu, process, threads, manager, told>>

-----------------------------------------------------------------------------
(* The commands.                                                           *)

continue_execution ==
  /\ process /\ mode = "prompt"
  /\ mode' = "loop" /\ held' = None
  /\ event' = [event EXCEPT ![held] = "none"]
  /\ reported' = {}
  /\ UNCHANGED <<life, touched, cpu, process, last_thread_id, threads, manager, settled>>

\* The known threads are written one after the other; the first that refuses
\* ends it, and the command with an error.
sync_watchpoints_to_threads(slot) ==
  \/ /\ threads \cap Denied = {}
     /\ WriteRegisters(slots', threads)
     /\ settled' = Slot
  \/ /\ threads \cap Denied # {}
     /\ \E reached \in SUBSET (threads \ Denied) : WriteRegisters(slots', reached)
     /\ settled' = settled \ {slot}

\* watch, awatch, rwatch: the first free slot, in the current thread's process.
set_watchpoint(target, kind) ==
  LET free == {i \in Slot : slots[i] = None}
  IN  /\ process /\ mode = "prompt" /\ next_id < MaxId
      /\ last_thread_id \in threads \ Denied /\ life[last_thread_id] = "alive"
      /\ target.size <= 8
      /\ next_id' = next_id + 1
      /\ \E i \in free :
           /\ \A j \in free : i <= j
           /\ slots' = [slots EXCEPT ![i] =
                          [id |-> next_id', pid |-> ProcOf[last_thread_id],
                           address |-> target.address,
                           size |-> hw_size(target.size), kind |-> kind]]
           /\ sync_watchpoints_to_threads(i)
      /\ UNCHANGED <<os, session, last_thread_id, threads, reported>>

delete_in_table(i) ==
  /\ process /\ mode = "prompt" /\ slots[i] # None
  /\ slots' = [slots EXCEPT ![i] = None]
  /\ settled' = Slot
  /\ UNCHANGED <<os, cpu, session, last_thread_id, threads, next_id, reported>>

delete_watchpoint(i) ==
  /\ process /\ mode = "prompt" /\ slots[i] # None
  /\ slots' = [slots EXCEPT ![i] = None]
  /\ sync_watchpoints_to_threads(i)
  /\ UNCHANGED <<os, session, last_thread_id, threads, next_id, reported>>

switch_thread(t) ==
  /\ process /\ mode = "prompt" /\ t \in threads
  /\ last_thread_id' = t
  /\ UNCHANGED <<os, cpu, session, threads, manager, told>>

\* run: whatever there was is shut down, and a new debuggee is launched.
Run ==
  /\ mode = "prompt"
  /\ life' = [t \in Thread |-> IF t = Main[Root] THEN "alive" ELSE "unborn"]
  /\ event' = [t \in Thread |-> IF t = Main[Root] THEN "create_process" ELSE "none"]
  /\ touched' = [t \in Thread |-> None]
  /\ registers' = [t \in Thread |-> Zeroed]
  /\ dr6' = [t \in Thread |-> {}]
  /\ process' = TRUE /\ mode' = "loop" /\ held' = None
  /\ threads' = {}
  /\ slots' = [i \in Slot |-> None] /\ next_id' = 0
  /\ reported' = {} /\ settled' = Slot
  /\ UNCHANGED last_thread_id

-----------------------------------------------------------------------------
Debuggee(t) == Start(t) \/ Touch(t) \/ ReachStop(t) \/ Exit(t)

Handle(t) ==
  \/ CREATE_PROCESS(t) \/ CREATE_THREAD(t)
  \/ EXIT_THREAD(t) \/ EXIT_PROCESS(t)
  \/ SINGLE_STEP(t) \/ Stop(t)

User ==
  \/ continue_execution \/ Run
  \/ \E target \in Target, kind \in Kind : set_watchpoint(target, kind)
  \/ \E i \in Slot : delete_watchpoint(i)
  \/ \E t \in Thread : switch_thread(t)

Next == User \/ \E t \in Thread : Debuggee(t) \/ Handle(t)

Spec == Init /\ [][Next]_vars

-----------------------------------------------------------------------------
(* Properties.                                                             *)

\* Whether access a by thread t is one that watchpoint w is for.
Concerns(w, t, a) ==
  /\ ProcOf[t] = w.pid
  /\ a.write \/ w.kind = "access"
  /\ Bytes(a.address, a.size) \cap Bytes(w.address, w.size) # {}

\* Once `watch' or `deletewatch' has reported success, every thread of the
\* watchpoint's process traps on exactly the accesses it is for, threads born
\* later included, and no thread of another process does (docs, F-WP-05 and
\* F-WP-09); nothing traps for a slot whose watchpoint was deleted.
ArmedEverywhere ==
  \A i \in settled, t \in Thread \ Denied, a \in Access :
    life[t] = "alive" /\ event[t] \notin {"create_process", "create_thread"} =>
      (Matches(registers[t], i, a) <=> slots[i] # None /\ Concerns(slots[i], t, a))

\* A stop that names a watchpoint is for an access to it, by the thread and in
\* the process the stop shows: a hit bit never survives into the watchpoint
\* that takes over its slot.
ReportsAreTrue ==
  [][\A r \in reported' \ reported : r.slot \in settled =>
       /\ touched[r.thread] # None
       /\ Concerns(r.watch, r.thread, touched[r.thread])]_vars

\* A watchpoint that is hit is reported when its thread's trap is handled, if
\* it is still set (docs, F-WP-06).
HitsAreReported ==
  [][\A t \in Thread, i \in settled :
       /\ event[t] = "trap" /\ held' = t /\ held # t
       /\ slots[i] # None /\ Concerns(slots[i], t, touched[t])
       => [slot |-> i, watch |-> slots[i], thread |-> t] \in reported']_vars

=============================================================================

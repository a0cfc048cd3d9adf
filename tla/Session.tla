------------------------------- MODULE Session -------------------------------
(***************************************************************************)
(* The life cycle of a debugging session: run, restart, the exit of the    *)
(* root, quit and Ctrl+C (run_repl, handle_command, restart, shutdown and  *)
(* the loop's process events in src/src/debugger.rs; DebuggeeProcess and   *)
(* the Ctrl+C flag in src/src/process.rs), over a debug object that goes   *)
(* on delivering what the processes of earlier runs had raised.            *)
(*                                                                         *)
(* A process has at most one event on its way: raising one freezes it.     *)
(* Windows is modelled from what the code asks of it: an event that is     *)
(* read and never answered keeps its process, killed or not, for good.     *)
(***************************************************************************)
EXTENDS Naturals, FiniteSets

CONSTANTS
  Pid,           \* process ids, reused once a process is reaped
  MaxLaunches,   \* bound: debuggees launched
  None

ASSUME SessionAssumption == None \notin Pid /\ MaxLaunches \in Nat

VARIABLES
  life,              \* of each pid: no process, alive, or ended and not reaped
  event,             \* the event it has raised and tdb has not read
  unanswered,        \* the pids whose last event was read, but not continued
  planted,           \* the pids with tdb's INT3 in their code
  signalled,         \* the pids a Ctrl+C is on its way to
  launches,
  process,           \* root_pid of the DebuggeeProcess, if there is one
  processes,         \* the pids it tracks
  breakpoints,       \* the pids in the keys of the breakpoint table
  pending_continue,  \* the pid whose event `continue' will answer
  mode,              \* the prompt, the two halves of the loop, or the end
  interrupt_requested

os == <<life, event, unanswered, planted, launches>>
debuggee == <<process, processes>>
vars == <<os, signalled, debuggee, breakpoints, pending_continue, mode, interrupt_requested>>

Kind == {"create", "quiet", "hit", "fault", "ctrl_c", "exit"}

TypeOK ==
  /\ life \in [Pid -> {"none", "alive", "ended"}]
  /\ event \in [Pid -> Kind \cup {"none"}]
  /\ unanswered \subseteq Pid /\ planted \subseteq Pid /\ signalled \subseteq Pid
  /\ launches \in 0 .. MaxLaunches
  /\ process \in Pid \cup {None}
  /\ processes \subseteq Pid /\ breakpoints \subseteq Pid
  /\ pending_continue \in Pid \cup {None}
  /\ mode \in {"prompt", "loop", "wait", "quit"}
  /\ interrupt_requested \in BOOLEAN

Init ==
  /\ life = [p \in Pid |-> "none"] /\ event = [p \in Pid |-> "none"]
  /\ unanswered = {} /\ planted = {} /\ signalled = {} /\ launches = 0
  /\ process = None /\ processes = {}
  /\ breakpoints = {} /\ pending_continue = None
  /\ mode = "prompt" /\ interrupt_requested = FALSE

-----------------------------------------------------------------------------
(* The debuggees.                                                          *)

\* The processes some thread of which is known: those whose creation event has
\* been handled in this run.
Known == {p \in processes : event[p] # "create"}

Runs(p) == life[p] = "alive" /\ event[p] = "none" /\ p \notin unanswered

tdb == <<debuggee, breakpoints, pending_continue, mode, interrupt_requested>>

\* A process raises an event: a thread or a module comes or goes, the INT3 of
\* a breakpoint, an exception.
Raise(p) ==
  /\ Runs(p)
  /\ \E kind \in {"quiet", "fault"} \cup (IF p \in planted THEN {"hit"} ELSE {}) :
       event' = [event EXCEPT ![p] = kind]
  /\ UNCHANGED <<life, unanswered, planted, launches, signalled, tdb>>

\* The thread Windows injects for the Ctrl+C raises DBG_CONTROL_C.
RaiseControlC(p) ==
  /\ Runs(p) /\ p \in signalled
  /\ event' = [event EXCEPT ![p] = "ctrl_c"]
  /\ signalled' = signalled \ {p}
  /\ UNCHANGED <<life, unanswered, planted, launches, tdb>>

\* A process creates another, which waits for its creation event to be handled.
Spawn(p, q) ==
  /\ Runs(p) /\ life[q] = "none"
  /\ life' = [life EXCEPT ![q] = "alive"]
  /\ event' = [event EXCEPT ![q] = "create"]
  /\ UNCHANGED <<unanswered, planted, launches, signalled, tdb>>

Exit(p) ==
  /\ Runs(p)
  /\ life' = [life EXCEPT ![p] = "ended"]
  /\ event' = [event EXCEPT ![p] = "exit"]
  /\ signalled' = signalled \ {p} /\ planted' = planted \ {p}
  /\ UNCHANGED <<unanswered, launches, tdb>>

-----------------------------------------------------------------------------
(* What tdb does to them.                                                  *)

\* ContinueDebugEvent: the process runs on, ends if it was killed meanwhile,
\* and is gone once its exit event is answered.
Answered(kind, p) == IF life[p] = "ended" /\ kind # "exit" THEN "exit" ELSE "none"

continue_event(kind, p) ==
  /\ event' = [event EXCEPT ![p] = Answered(kind, p)]
  /\ life' = [life EXCEPT ![p] = IF kind = "exit" THEN "none" ELSE @]

\* impl Drop for DebuggeeProcess: every process in the table is terminated, and
\* raises its exit event unless an earlier one is in the way.
terminate_root(P) == P \cap {process}

terminate(P) == P

Terminated(P, p) == p \in terminate(P) /\ life[p] = "alive"

Exiting(P) ==
  [p \in Pid |-> IF Terminated(P, p) /\ event[p] = "none" /\ p \notin unanswered
                 THEN "exit" ELSE event[p]]

Lives(P) == [p \in Pid |-> IF Terminated(P, p) THEN "ended" ELSE life[p]]

\* What is lost with them: their code, and any Ctrl+C on its way.
lost(P) == signalled' = signalled \ terminate(P) /\ planted' = planted \ terminate(P)

\* The part of shutdown that is memory of tdb's own.  The breakpoint table
\* and the Ctrl+C flag are kept.
forget ==
  /\ process' = None /\ processes' = {} /\ pending_continue' = None

\* CreateProcessW gives the new root a pid no process has; it waits for its
\* creation event to be handled.
launch(q) ==
  /\ launches < MaxLaunches /\ launches' = launches + 1
  /\ life[q] = "none"

-----------------------------------------------------------------------------
(* The commands.                                                           *)

\* run: the old debuggee is shut down, a new one launched, and the loop entered.
run(q) ==
  /\ mode = "prompt"
  /\ launch(q)
  /\ life' = [Lives(processes) EXCEPT ![q] = "alive"]
  /\ event' = [Exiting(processes) EXCEPT ![q] = "create"]
  /\ lost(processes)
  /\ process' = q /\ processes' = {q}
  /\ pending_continue' = None
  /\ mode' = "loop"
  /\ UNCHANGED <<unanswered, breakpoints, interrupt_requested>>

\* The target cannot be started: the old debuggee is gone all the same.
run_not_found ==
  /\ mode = "prompt"
  /\ life' = Lives(processes) /\ event' = Exiting(processes)
  /\ lost(processes)
  /\ forget
  /\ UNCHANGED <<unanswered, launches, breakpoints, mode, interrupt_requested>>

\* SymbolResolver::new fails: the new debuggee is dropped before it has run,
\* its creation event still unread.
run_without_symbols(q) ==
  /\ mode = "prompt"
  /\ launch(q)
  /\ life' = [Lives(processes) EXCEPT ![q] = "ended"]
  /\ event' = [Exiting(processes) EXCEPT ![q] = "create"]
  /\ lost(processes)
  /\ forget
  /\ UNCHANGED <<unanswered, breakpoints, mode, interrupt_requested>>

\* continue, and the execution commands that end in it: the pending event is
\* answered, if there is one, and the loop entered.
continue_execution ==
  /\ mode = "prompt" /\ process # None
  /\ IF pending_continue = None
     THEN UNCHANGED <<life, event, unanswered>>
     ELSE /\ continue_event("none", pending_continue)
          /\ unanswered' = unanswered \ {pending_continue}
  /\ pending_continue' = None
  /\ mode' = "loop"
  /\ UNCHANGED <<planted, launches, signalled, debuggee, breakpoints,
                 interrupt_requested>>

\* break with no look at whether there is a process: current_pid is then none.
set_breakpoint_unchecked ==
  /\ mode = "prompt"
  /\ \E p \in {process} \cup Known : breakpoints' = breakpoints \cup {p}
  /\ UNCHANGED <<os, signalled, debuggee, pending_continue, mode,
                 interrupt_requested>>

\* break: in the root, by name or line, or in the current process, by address,
\* which `thread' can make any known one; it fails when the process can no
\* longer be written.
set_breakpoint ==
  /\ mode = "prompt" /\ process # None
  /\ \E p \in {process} \cup Known :
       /\ life[p] = "alive"
       /\ planted' = planted \cup {p}
       /\ breakpoints' = breakpoints \cup {p}
  /\ UNCHANGED <<life, event, unanswered, launches, signalled, debuggee, 
                 pending_continue, mode, interrupt_requested>>

\* delete: the entry goes even when its process is not tracked any more, and
\* the command fails.
remove_by_id(p) ==
  /\ mode = "prompt" /\ p \in breakpoints
  /\ breakpoints' = breakpoints \ {p}
  /\ planted' = IF process # None /\ p \in processes THEN planted \ {p} ELSE planted
  /\ UNCHANGED <<life, event, unanswered, launches, signalled, debuggee, 
                 pending_continue, mode, interrupt_requested>>

\* quit: what is debugged dies with the debugger.
quit ==
  /\ mode = "prompt"
  /\ forget /\ mode' = "quit"
  /\ life' = [p \in Pid |-> "none"] /\ event' = [p \in Pid |-> "none"]
  /\ unanswered' = {} /\ planted' = {} /\ signalled' = {}
  /\ UNCHANGED <<launches, breakpoints, interrupt_requested>>

Quit == mode = "quit" /\ UNCHANGED vars

-----------------------------------------------------------------------------
(* The loop.                                                               *)

\* A console thread of its own; the program keeps running.
console_ctrl_handler ==
  /\ mode # "quit" /\ ~interrupt_requested
  /\ interrupt_requested' = TRUE
  /\ UNCHANGED <<os, signalled, debuggee, breakpoints, pending_continue, mode>>

\* The top of the loop: the flag is taken and forwarded to the root, whose
\* console may not be there before its creation event has been handled; the
\* failure is ignored.
take_interrupt_requested ==
  /\ mode = "loop" /\ mode' = "wait"
  /\ interrupt_requested' = FALSE
  /\ \/ ~interrupt_requested /\ UNCHANGED signalled
     \/ interrupt_requested /\ life[process] = "alive" /\ signalled' = signalled \cup {process}
     \/ /\ interrupt_requested /\ (life[process] # "alive" \/ process \notin Known)
        /\ UNCHANGED signalled
  /\ UNCHANGED <<os, debuggee, breakpoints, pending_continue>>

\* WaitForDebugEventEx times out: the flag is looked at again.
wait_again == mode = "wait" /\ UNCHANGED vars

timed_out ==
  /\ mode = "wait" /\ \A p \in Pid : event[p] = "none"
  /\ mode' = "loop"
  /\ UNCHANGED <<os, signalled, debuggee, breakpoints, pending_continue,
                 interrupt_requested>>

wait_for_event(p, kind) == mode = "wait" /\ event[p] = kind

quiet_event(p) ==
  /\ wait_for_event(p, "quiet")
  /\ continue_event("quiet", p)
  /\ mode' = "loop"
  /\ UNCHANGED <<unanswered, planted, launches, signalled, debuggee, breakpoints,
                 pending_continue, interrupt_requested>>

\* register_process, for every process but the root, of this run or not.
CREATE_PROCESS(p) ==
  /\ wait_for_event(p, "create")
  /\ processes' = processes \cup {p}
  /\ continue_event("create", p)
  /\ mode' = "loop"
  /\ UNCHANGED <<unanswered, planted, launches, signalled, process, breakpoints,
                 pending_continue, interrupt_requested>>

\* The loop stops at an event, which the next `continue' answers.
Stop(p) ==
  /\ event' = [event EXCEPT ![p] = "none"]
  /\ unanswered' = unanswered \cup {p}
  /\ mode' = "prompt"
  /\ UNCHANGED <<life, planted, launches, signalled, debuggee, breakpoints, interrupt_requested>>

\* A breakpoint: its INT3 is taken out, stepped over and put back before the
\* stop.  In a process that is not tracked that fails, and the loop is left with
\* the event unanswered and nothing to answer it.
breakpoint_hit(p) ==
  /\ wait_for_event(p, "hit")
  /\ Stop(p)
  /\ pending_continue' = IF p \in breakpoints \ processes THEN None ELSE p

\* Every other exception stops, whatever process it is of.
exception(p) ==
  /\ wait_for_event(p, "fault")
  /\ Stop(p)
  /\ pending_continue' = p

\* Interrupted, in the root or in what an earlier run left behind.
control_c(p) ==
  /\ wait_for_event(p, "ctrl_c")
  /\ Stop(p)
  /\ pending_continue' = p

\* The root's exit, with the loop's knowledge of the root kept.
root_exit_kept(p) ==
  /\ wait_for_event(p, "exit") /\ p = process
  /\ event' = [event EXCEPT ![p] = "none"]
  /\ unanswered' = unanswered \cup {p}
  /\ mode' = "prompt"
  /\ UNCHANGED <<life, planted, launches, signalled, debuggee, breakpoints, pending_continue,
                 interrupt_requested>>

\* EXIT_PROCESS_DEBUG_EVENT of the root: shutdown, and its event is never answered.
root_exit(p) ==
  /\ wait_for_event(p, "exit") /\ p = process
  /\ life' = Lives(processes)
  /\ event' = [Exiting(processes) EXCEPT ![p] = "none"]
  /\ unanswered' = unanswered \cup {p}
  /\ lost(processes)
  /\ forget
  /\ mode' = "prompt"
  /\ UNCHANGED <<launches, breakpoints, interrupt_requested>>

\* EXIT_PROCESS_DEBUG_EVENT of any other process: remove_process.
child_exit(p) ==
  /\ wait_for_event(p, "exit") /\ p # process
  /\ processes' = processes \ {p}
  /\ continue_event("exit", p)
  /\ mode' = "loop"
  /\ UNCHANGED <<unanswered, planted, launches, signalled, process, breakpoints,
                 pending_continue, interrupt_requested>>

-----------------------------------------------------------------------------
Debuggee(p) == Raise(p) \/ RaiseControlC(p) \/ Exit(p) \/ \E q \in Pid : Spawn(p, q)

Handle(p) ==
  \/ quiet_event(p) \/ CREATE_PROCESS(p)
  \/ breakpoint_hit(p) \/ exception(p) \/ control_c(p)
  \/ root_exit(p) \/ child_exit(p)

Command ==
  \/ \E q \in Pid : run(q) \/ run_without_symbols(q) \/ remove_by_id(q)
  \/ run_not_found \/ continue_execution \/ set_breakpoint \/ quit

Next ==
  \/ Command \/ Quit
  \/ console_ctrl_handler \/ take_interrupt_requested \/ timed_out
  \/ \E p \in Pid : Debuggee(p) \/ Handle(p)

\* The loop does not stall, the debug object is a queue, so that no process's
\* event is passed over for ever, and the thread injected for a Ctrl+C gets to
\* run however busy the others of its process are.
HandleRoot == process # None /\ Handle(process)
RootControlC == process # None /\ RaiseControlC(process)

Fairness ==
  /\ WF_vars(take_interrupt_requested) /\ WF_vars(timed_out)
  /\ WF_vars(\E p \in Pid : Handle(p))
  /\ SF_vars(HandleRoot) /\ SF_vars(RootControlC)

Spec == Init /\ [][Next]_vars /\ Fairness

-----------------------------------------------------------------------------
(* Properties.                                                             *)

\* The loop never waits for a debuggee that can send nothing more: the root it
\* was entered for exists, and has no event that tdb read and left unanswered.
\* `continue' after the root's exit, after a stop in a process of an earlier run
\* or after a failed run would otherwise spin for ever, Ctrl+C included
\* (src/src/debugger.rs:1764-1768).
LoopHasRoot ==
  mode \in {"loop", "wait"} =>
    process # None /\ life[process] # "none" /\ process \notin unanswered

\* tdb loses no process: whatever is alive is in the table, or will be once its
\* creation event is read, in whichever run that is; and the table names no
\* process that is gone, whose pid Windows may have given away.
Accounted ==
  /\ \A p \in Pid : life[p] = "alive" => p \in processes \/ event[p] = "create"
  /\ \A p \in processes : life[p] # "none"

\* Ctrl+C while the debuggee runs brings the prompt back, though nothing else
\* ever happens in the debuggee (docs, F-PROC-09): the flag is polled between
\* waits, and no event of another process, dead or alive, takes it away.
CtrlCStops ==
  (mode \in {"loop", "wait"} /\ interrupt_requested /\ process \in Known)
    ~> (mode = "prompt")

=============================================================================

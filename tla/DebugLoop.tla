------------------------------ MODULE DebugLoop ------------------------------
(***************************************************************************)
(* The execution-control core of tdb: the REPL commands that plant INT3s,  *)
(* and the debug-event loop continue_execution that recognises them,       *)
(* steps over them and re-arms them (src/src/debugger.rs), over the code   *)
(* bytes and the threads of the debuggee (src/src/process.rs).             *)
(*                                                                         *)
(* The debugger is single-threaded and the process that raised a debug     *)
(* event is frozen until ContinueDebugEvent, so one command, and one event *)
(* with its handler, is one action.  Everything else interleaves: threads  *)
(* run between actions and may queue several events at once.               *)
(***************************************************************************)
EXTENDS Naturals, FiniteSets

CONSTANTS
  Process, Root,    \* debugged processes, the one launched by `run`
  Thread,           \* their threads
  ProcOf,           \* the process each thread belongs to
  MainThread,       \* main thread of Root
  CtrlHandler,      \* thread Windows injects to run the Ctrl+C handler
  Denied,           \* threads that refuse GetThreadContext/SetThreadContext
  Addr,             \* instruction addresses, the same in every process
  Flow,             \* the addresses an instruction may lead to
  Call, Fall,       \* call instructions, and the address each one returns to
  Line,             \* source line of an address, or None
  OwnInt3,          \* addresses where the program itself has an INT3
  ReturnSites,      \* return addresses unwinding one frame from an address may yield
  HookKind,         \* allocator entry points: "alloc" (malloc, calloc), "free"
  Block,            \* heap blocks an allocator may return
  Breakable,        \* addresses the user sets breakpoints at
  Commands,         \* the commands the user types
  Happenings,       \* "exception", "ctrlc", "watch", "notice": what else happens
  Entry,            \* where every thread starts
  None

HookAddr == DOMAIN HookKind
Loc      == Process \X Addr
Byte     == {"insn", "int3"}
Status   == {"continue", "not_handled"}
Slot     == [addr : Addr, byte : Byte]
LineOf   == {Line[a] : a \in Addr}

ASSUME Setting ==
  /\ Root \in Process /\ ProcOf \in [Thread -> Process]
  /\ MainThread \in Thread /\ ProcOf[MainThread] = Root
  /\ Flow \in [Addr -> SUBSET Addr]
  /\ Call \subseteq Addr /\ Fall \in [Call -> Addr]
  /\ OwnInt3 \subseteq Addr /\ ReturnSites \in [Addr -> SUBSET Addr]
  /\ Breakable \subseteq Addr /\ Entry \in Addr
  /\ HookAddr \subseteq Addr /\ HookKind \in [HookAddr -> {"alloc", "free"}]
  /\ None \notin [tid : Thread, status : Status]

ASSUME NoneApart ==
  /\ None \notin Addr \cup Byte /\ None \notin [byte : Byte, enabled : BOOLEAN]
  /\ None \notin Slot /\ None \notin [hook : HookAddr, ret : Addr, byte : Byte]
  /\ None \notin [over : BOOLEAN, start : LineOf]

VARIABLES
  \* the debuggee
  int3,                \* the locations whose code byte is 0xCC
  rip, past,           \* instruction pointer; past the INT3 it has just run
  tf,                  \* trap flag
  event,               \* what the thread has raised and no one answered yet
  held,                \* threads whose event was delivered and not continued
  \* the Debugger struct
  mode,                \* "prompt": in the REPL, "loop": in continue_execution
  last_thread_id, breakpoints, pending_breakpoint, pending_continue,
  step_target, step_over_bp, finish_bp,
  leak_hooks, allocations, pending_leak, pending_leak_rearm

threadVars == <<rip, past, tf>>
temps == <<step_target, step_over_bp, finish_bp>>
leaks == <<pending_leak, pending_leak_rearm>>
vars == <<int3, threadVars, event, held, mode, last_thread_id, breakpoints,
          pending_breakpoint, pending_continue, temps, leak_hooks,
          allocations, leaks>>

TypeOK ==
  /\ int3 \subseteq Loc
  /\ rip \in [Thread -> Addr]
  /\ past \in [Thread -> BOOLEAN]
  /\ tf \in [Thread -> BOOLEAN]
  /\ event \in [Thread -> {"none", "bp", "step", "watch", "exception", "ctrlc", "notice"}]
  /\ held \subseteq Thread
  /\ mode \in {"prompt", "loop"}
  /\ last_thread_id \in Thread
  /\ breakpoints \in [Loc -> [byte : Byte, enabled : BOOLEAN] \cup {None}]
  /\ pending_breakpoint \in Addr \cup {None}
  /\ pending_continue \in [tid : Thread, status : Status] \cup {None}
  /\ step_target \in [over : BOOLEAN, start : LineOf] \cup {None}
  /\ step_over_bp \in Slot \cup {None}
  /\ finish_bp \in Slot \cup {None}
  /\ leak_hooks \in [HookAddr -> Byte \cup {None}]
  /\ allocations \subseteq Block
  /\ pending_leak \in [hook : HookAddr, ret : Addr, byte : Byte] \cup {None}
  /\ pending_leak_rearm \in HookAddr \cup {None}

\* run: the debuggee is launched and continue_execution waits for it.
Init ==
  /\ int3 = Process \X OwnInt3
  /\ rip = [t \in Thread |-> Entry]
  /\ past = [t \in Thread |-> FALSE]
  /\ tf = [t \in Thread |-> FALSE]
  /\ event = [t \in Thread |-> "none"]
  /\ held = {}
  /\ mode = "loop"
  /\ last_thread_id = MainThread
  /\ breakpoints = [l \in Loc |-> None]
  /\ pending_breakpoint = None
  /\ pending_continue = None
  /\ step_target = None /\ step_over_bp = None /\ finish_bp = None
  /\ leak_hooks = [a \in HookAddr |-> None]
  /\ allocations = {}
  /\ pending_leak = None /\ pending_leak_rearm = None

-----------------------------------------------------------------------------
(* Code bytes.  `code' is a value of int3.                                 *)

\* The byte set_breakpoint saves: an INT3 that is there already is read back.
ReadNothing(code, l) == IF l \in code THEN None ELSE "insn"
ReadTooLate(code, l) == "int3"
Read(code, l) == IF l \in code THEN "int3" ELSE "insn"

\* set_breakpoint then writes 0xCC.
PlantLost(code, l) == code
Plant(code, l) == code \cup {l}

\* remove_breakpoint writes back whatever byte its caller saved.
WriteNothing(code, l, b) == code
WriteInsn(code, l, b) == code \ {l}
Write(code, l, b) == IF b = "int3" THEN code \cup {l} ELSE code \ {l}

Here(t) == <<ProcOf[t], rip[t]>>

-----------------------------------------------------------------------------
(* The debuggee.                                                           *)

\* A thread runs unless it waits for the answer to its own event, or its
\* process is frozen by an event that was delivered and not continued.
Frozen(p)   == \E h \in held : ProcOf[h] = p
Runnable(t) == event[t] = "none" /\ ~Frozen(ProcOf[t])

debuggerVars == <<held, mode, last_thread_id, breakpoints, pending_breakpoint,
                  pending_continue, temps, leak_hooks, allocations, leaks>>

\* An INT3 raises STATUS_BREAKPOINT with rip behind it; the trap flag stays.
HitInt3(t) ==
  /\ Runnable(t) /\ t # CtrlHandler
  /\ Here(t) \in int3 /\ ~past[t]
  /\ event' = [event EXCEPT ![t] = "bp"]
  /\ past' = [past EXCEPT ![t] = TRUE]
  /\ UNCHANGED <<int3, rip, tf, debuggerVars>>

\* Any other instruction runs to completion, and then traps if the trap flag
\* is set or if it touched watched data; both report STATUS_SINGLE_STEP.
\* No debug register can be set on a thread that denies its context.
Execute(t) ==
  /\ Runnable(t) /\ t # CtrlHandler
  /\ Here(t) \notin int3 \/ past[t]
  /\ \E next \in Flow[rip[t]], touched \in BOOLEAN :
       /\ touched => "watch" \in Happenings /\ t \notin Denied
       /\ rip' = [rip EXCEPT ![t] = next]
       /\ event' = [event EXCEPT ![t] = IF touched THEN "watch"
                                        ELSE IF tf[t] THEN "step" ELSE "none"]
  /\ past' = [past EXCEPT ![t] = FALSE]
  /\ tf' = [tf EXCEPT ![t] = FALSE]
  /\ UNCHANGED <<int3, debuggerVars>>

\* An instruction faults; the dispatcher may or may not keep the trap flag.
Fault(t) ==
  /\ "exception" \in Happenings
  /\ Runnable(t) /\ t # CtrlHandler
  /\ Here(t) \notin int3 \/ past[t]
  /\ event' = [event EXCEPT ![t] = "exception"]
  /\ \E keep \in BOOLEAN : tf' = [tf EXCEPT ![t] = @ /\ keep]
  /\ UNCHANGED <<int3, rip, past, debuggerVars>>

\* A thread is created, a DLL is loaded, a debug string is output: a debug
\* event raised inside a system call.
Notify(t) ==
  /\ "notice" \in Happenings
  /\ Runnable(t) /\ t # CtrlHandler
  /\ Here(t) \notin int3 \/ past[t]
  /\ event' = [event EXCEPT ![t] = "notice"]
  /\ UNCHANGED <<int3, threadVars, debuggerVars>>

\* interrupt() makes Windows inject a thread that raises DBG_CONTROL_C.
CtrlC ==
  /\ "ctrlc" \in Happenings
  /\ mode = "loop" /\ CtrlHandler \in Thread /\ Runnable(CtrlHandler)
  /\ event' = [event EXCEPT ![CtrlHandler] = "ctrlc"]
  /\ UNCHANGED <<int3, threadVars, debuggerVars>>

-----------------------------------------------------------------------------
(* Ways a handler ends.                                                    *)

\* `return Ok(())' with pending_continue recorded: the prompt comes back.
StopUnrecorded(t, status) ==
  /\ mode' = "prompt"
  /\ held' = held \cup {t}
  /\ UNCHANGED <<event, pending_continue>>

Stop(t, status) ==
  /\ mode' = "prompt"
  /\ pending_continue' = [tid |-> t, status |-> status]
  /\ held' = held \cup {t}
  /\ UNCHANGED event

\* continue_event and `continue'.
Resume(t) ==
  /\ event' = [event EXCEPT ![t] = "none"]
  /\ UNCHANGED <<held, mode, pending_continue>>

\* `?' propagates to the REPL: the event stays delivered and unanswered.
Propagate(t) ==
  /\ mode' = "prompt"
  /\ held' = held \cup {t}
  /\ UNCHANGED <<event, pending_continue>>

\* set_rip to the address of the INT3, so that its instruction runs next.
SetRipSkipped(t) == UNCHANGED past
SetRip(t) == past' = [past EXCEPT ![t] = FALSE]

SingleStep(t) == tf' = [tf EXCEPT ![t] = TRUE]

\* What every reported stop that is not one of the temporaries' own forgets.
ForgetTemporaries ==
  /\ step_target' = None /\ step_over_bp' = None /\ finish_bp' = None
  /\ pending_leak' = None /\ pending_leak_rearm' = None

should_keep_stepping(t) ==
  /\ step_target # None
  /\ step_target.start # None
  /\ step_target.start = Line[rip[t]]

\* arm_step on code bytes `code', with `old' in step_over_bp.  The decoder
\* reads the bytes as they are, so a call under an INT3 is not seen as one.
arm_step(t, over, code, old) ==
  LET back == <<ProcOf[t], Fall[rip[t]]>>
  IN  IF over /\ rip[t] \in Call /\ Here(t) \notin code
      THEN /\ UNCHANGED tf
           /\ \/ /\ breakpoints[back] = None
                 /\ step_over_bp' = [addr |-> back[2], byte |-> Read(code, back)]
                 /\ int3' = Plant(code, back)
              \/ /\ breakpoints[back] # None
                 /\ step_over_bp' = old
                 /\ int3' = code
      ELSE /\ SingleStep(t)
           /\ step_over_bp' = old
           /\ int3' = code

-----------------------------------------------------------------------------
(* STATUS_BREAKPOINT, in the order continue_execution tries the owners.    *)

IsLeakEntry(t)  == pending_leak # None /\ rip[t] = pending_leak.hook
IsLeakReturn(t) == pending_leak # None /\ rip[t] = pending_leak.ret
IsHook(t)       == rip[t] \in HookAddr /\ leak_hooks[rip[t]] # None
IsFinish(t)     == finish_bp # None /\ rip[t] = finish_bp.addr
IsStepOver(t)   == step_over_bp # None /\ rip[t] = step_over_bp.addr
IsEnabled(t)    == breakpoints[Here(t)] # None /\ breakpoints[Here(t)].enabled
IsUser(t)       == breakpoints[Here(t)] # None

\* wait_for_event returns t's event; it makes t the current thread.
Wait(t, kind) ==
  /\ mode = "loop"
  /\ event[t] = kind /\ ~Frozen(ProcOf[t])
  /\ last_thread_id' = t

\* malloc or calloc came back: note the pointer, put the hook back in.
LeakReturn(t) ==
  LET code == Write(int3, Here(t), pending_leak.byte)
      hook == <<ProcOf[t], pending_leak.hook>>
  IN  /\ Wait(t, "bp") /\ IsLeakReturn(t)
      /\ \/ /\ t \in Denied
            /\ int3' = code
            /\ Propagate(t)
            /\ UNCHANGED <<past, leak_hooks, allocations, leaks>>
         \/ /\ t \notin Denied
            /\ SetRip(t)
            /\ \E rax \in Block \cup {None} :
                 allocations' = allocations \cup ({rax} \ {None})
            /\ int3' = Plant(code, hook)
            /\ leak_hooks' = [leak_hooks EXCEPT ![hook[2]] = Read(code, hook)]
            /\ pending_leak' = None
            /\ UNCHANGED pending_leak_rearm
            /\ Resume(t)
      /\ UNCHANGED <<rip, tf, breakpoints, pending_breakpoint, temps>>

\* An allocation is waited for where it returns to.
AwaitReturn(t, code, ret) ==
  /\ HookKind[rip[t]] = "alloc"
  /\ pending_leak' = [hook |-> rip[t], ret |-> ret[2], byte |-> Read(code, ret)]
  /\ int3' = Plant(code, ret)
  /\ UNCHANGED <<tf, allocations, pending_leak_rearm>>

\* free, or a frame that does not unwind: step off the hook, then re-arm it.
FreeBlock(t) ==
  \E rcx \in Block \cup {None} :
    allocations' = IF HookKind[rip[t]] = "free" THEN allocations \ {rcx}
                                                ELSE allocations

NoStepOffHook(t, code) ==
  /\ FreeBlock(t)
  /\ int3' = Plant(code, Here(t))
  /\ UNCHANGED <<tf, leaks>>

StepOffHook(t, code) ==
  /\ FreeBlock(t)
  /\ pending_leak_rearm' = rip[t]
  /\ SingleStep(t)
  /\ int3' = code
  /\ UNCHANGED pending_leak

\* malloc, calloc or free is entered: the hook comes out.
LeakHook(t) ==
  LET code == Write(int3, Here(t), leak_hooks[rip[t]])
  IN  /\ Wait(t, "bp") /\ ~IsLeakReturn(t) /\ IsHook(t)
      /\ \/ /\ t \in Denied
            /\ int3' = code
            /\ Propagate(t)
            /\ UNCHANGED <<past, tf, allocations, leaks>>
         \/ /\ t \notin Denied
            /\ SetRip(t)
            /\ \/ StepOffHook(t, code)
               \/ \E a \in ReturnSites[rip[t]] :
                    AwaitReturn(t, code, <<ProcOf[t], a>>)
            /\ Resume(t)
      /\ UNCHANGED <<rip, breakpoints, pending_breakpoint, temps, leak_hooks>>

\* `up' arrived in the caller.
FinishHit(t) ==
  /\ Wait(t, "bp") /\ ~IsLeakReturn(t) /\ ~IsHook(t) /\ IsFinish(t)
  /\ int3' = Write(int3, Here(t), finish_bp.byte)
  /\ \/ /\ t \in Denied
        /\ Propagate(t)
        /\ UNCHANGED <<past, finish_bp>>
     \/ /\ t \notin Denied
        /\ SetRip(t)
        /\ finish_bp' = None
        /\ Stop(t, "continue")
  /\ UNCHANGED <<rip, tf, breakpoints, pending_breakpoint, step_target,
                 step_over_bp, leak_hooks, allocations, leaks>>

\* The call `next' stepped over came back: stop, or go on within the line.
StepOverHit(t) ==
  LET code == Write(int3, Here(t), step_over_bp.byte)
  IN  /\ Wait(t, "bp")
      /\ ~IsLeakReturn(t) /\ ~IsHook(t) /\ ~IsFinish(t) /\ IsStepOver(t)
      /\ \/ /\ t \in Denied
            /\ int3' = code
            /\ Propagate(t)
            /\ UNCHANGED <<past, tf, step_target, step_over_bp>>
         \/ /\ t \notin Denied /\ should_keep_stepping(t)
            /\ SetRip(t)
            /\ arm_step(t, step_target.over, code, None)
            /\ Resume(t)
            /\ UNCHANGED step_target
         \/ /\ t \notin Denied /\ ~should_keep_stepping(t)
            /\ SetRip(t)
            /\ int3' = code
            /\ step_target' = None /\ step_over_bp' = None
            /\ Stop(t, "continue")
            /\ UNCHANGED tf
      /\ UNCHANGED <<rip, breakpoints, pending_breakpoint, finish_bp,
                     leak_hooks, allocations, leaks>>

\* Run the one instruction the breakpoint covered; its step event re-arms.
StepOffAtPrompt(t) ==
  /\ SetRip(t)
  /\ pending_breakpoint' = rip[t]
  /\ SingleStep(t)
  /\ Stop(t, "continue")

StepOffUntrapped(t) ==
  /\ SetRip(t)
  /\ pending_breakpoint' = rip[t]
  /\ Resume(t)
  /\ UNCHANGED tf

StepOffNotRewound(t) ==
  /\ pending_breakpoint' = rip[t]
  /\ SingleStep(t)
  /\ Resume(t)
  /\ UNCHANGED past

StepOff(t) ==
  /\ SetRip(t)
  /\ pending_breakpoint' = rip[t]
  /\ SingleStep(t)
  /\ Resume(t)

\* A breakpoint of the user's: take it out, step over its instruction, and
\* let the step event put it back and report the stop.
BreakpointHit(t) ==
  LET l == Here(t)
  IN  /\ Wait(t, "bp")
      /\ ~IsLeakReturn(t) /\ ~IsHook(t) /\ ~IsFinish(t) /\ ~IsStepOver(t)
      /\ IsUser(t)
      /\ ForgetTemporaries
      /\ int3' = Write(int3, l, breakpoints[l].byte)
      /\ breakpoints' = [breakpoints EXCEPT ![l].enabled = FALSE]
      /\ \/ /\ t \in Denied
            /\ Propagate(t)
            /\ UNCHANGED <<past, tf, pending_breakpoint>>
         \/ /\ t \notin Denied
            /\ StepOff(t)
      /\ UNCHANGED <<rip, leak_hooks, allocations>>

-----------------------------------------------------------------------------
(* STATUS_SINGLE_STEP: a trap-flag step, a watchpoint, or both at once.    *)

TakeWatchpointHits(t) == event[t] = "watch"

WaitStep(t) == Wait(t, "step") \/ Wait(t, "watch")

\* The hook that was stepped over goes back in, whichever thread stepped.
LeakRearm(t) ==
  LET hook == <<ProcOf[t], pending_leak_rearm>>
  IN  /\ WaitStep(t) /\ pending_leak_rearm # None
      /\ leak_hooks' = [leak_hooks EXCEPT ![hook[2]] = Read(int3, hook)]
      /\ int3' = Plant(int3, hook)
      /\ pending_leak_rearm' = None
      /\ Resume(t)
      /\ UNCHANGED <<threadVars, breakpoints, pending_breakpoint, temps,
                     allocations, pending_leak>>

\* The breakpoint that was stepped over goes back in, and the hit is a stop.
RearmedDisabled(l) == [breakpoints[l] EXCEPT !.byte = Read(int3, l)]
RearmedTooLate(l) == [byte |-> "int3", enabled |-> TRUE]
Rearmed(l) == [byte |-> Read(int3, l), enabled |-> TRUE]

BreakpointRearm(t) ==
  LET l == <<ProcOf[t], pending_breakpoint>>
  IN  /\ WaitStep(t) /\ pending_leak_rearm = None /\ pending_breakpoint # None
      /\ \/ /\ breakpoints[l] = None
            /\ UNCHANGED <<int3, breakpoints>>
         \/ /\ breakpoints[l] # None
            /\ breakpoints' = [breakpoints EXCEPT ![l] = Rearmed(l)]
            /\ int3' = Plant(int3, l)
      /\ pending_breakpoint' = None
      /\ step_target' = IF TakeWatchpointHits(t) THEN None ELSE step_target
      /\ Stop(t, "continue")
      /\ UNCHANGED <<threadVars, step_over_bp, finish_bp, leak_hooks,
                     allocations, leaks>>

\* Neither re-arms anything: report a watchpoint, go on stepping, or report
\* the end of the step.
StepEvent(t) ==
  /\ WaitStep(t) /\ pending_leak_rearm = None /\ pending_breakpoint = None
  /\ \/ /\ TakeWatchpointHits(t) \/ ~should_keep_stepping(t)
        /\ step_target' = None
        /\ Stop(t, "continue")
        /\ UNCHANGED <<int3, tf, step_over_bp>>
     \/ /\ ~TakeWatchpointHits(t) /\ should_keep_stepping(t)
        /\ arm_step(t, step_target.over, int3, step_over_bp)
        /\ Resume(t)
        /\ UNCHANGED step_target
  /\ UNCHANGED <<rip, past, breakpoints, pending_breakpoint, finish_bp,
                 leak_hooks, allocations, leaks>>

-----------------------------------------------------------------------------
(* The other exceptions.                                                   *)

\* DBG_CONTROL_C: the prompt shows the main thread, not the handler's.
Interrupted(t) ==
  /\ mode = "loop" /\ event[t] = "ctrlc" /\ ~Frozen(ProcOf[t])
  /\ last_thread_id' = IF MainThread \in Denied THEN t ELSE MainThread
  /\ ForgetTemporaries
  /\ Stop(t, "not_handled")
  /\ UNCHANGED <<int3, threadVars, breakpoints, pending_breakpoint,
                 leak_hooks, allocations>>

\* Any other exception, and an INT3 no one here claims.
OtherException(t) ==
  /\ \/ Wait(t, "exception")
     \/ /\ Wait(t, "bp")
        /\ ~IsLeakReturn(t) /\ ~IsHook(t) /\ ~IsFinish(t) /\ ~IsStepOver(t)
        /\ ~IsUser(t)
  /\ ForgetTemporaries
  /\ Stop(t, "not_handled")
  /\ UNCHANGED <<int3, threadVars, breakpoints, pending_breakpoint,
                 leak_hooks, allocations>>

\* The events that are none of these fall through to ContinueDebugEvent.
OtherEvent(t) ==
  /\ Wait(t, "notice")
  /\ Resume(t)
  /\ UNCHANGED <<int3, threadVars, breakpoints, pending_breakpoint, temps,
                 leak_hooks, allocations, leaks>>

-----------------------------------------------------------------------------
(* The commands.                                                           *)

\* The head of continue_execution: answer the event the stop left open.
continue_without_take ==
  /\ mode' = "loop"
  /\ UNCHANGED pending_continue
  /\ IF pending_continue = None
     THEN UNCHANGED <<held, event>>
     ELSE /\ held' = held \ {pending_continue.tid}
          /\ event' = [event EXCEPT ![pending_continue.tid] = "none"]

continue_execution ==
  /\ mode' = "loop"
  /\ pending_continue' = None
  /\ IF pending_continue = None
     THEN UNCHANGED <<held, event>>
     ELSE /\ held' = held \ {pending_continue.tid}
          /\ event' = [event EXCEPT ![pending_continue.tid] = "none"]

Command(name) == mode = "prompt" /\ name \in Commands

\* The locations a target can resolve to: a symbol or file:line in the root,
\* a raw address in the current thread's process.
Targets == {Root, ProcOf[last_thread_id]} \X Breakable

\* break: an existing entry is replaced, whatever byte is there is saved.
\* "rebreak" names the user typing break at a location that has one.
set_breakpoint(l) ==
  /\ mode = "prompt" /\ l \in Targets
  /\ (IF breakpoints[l] = None THEN "break" ELSE "rebreak") \in Commands
  /\ breakpoints' = [breakpoints EXCEPT
                       ![l] = [byte |-> Read(int3, l), enabled |-> TRUE]]
  /\ int3' = Plant(int3, l)
  /\ UNCHANGED <<threadVars, event, held, mode, last_thread_id,
                 pending_breakpoint, pending_continue, temps, leak_hooks,
                 allocations, leaks>>

DeleteInList(l) ==
  /\ Command("delete") /\ breakpoints[l] # None
  /\ breakpoints' = [breakpoints EXCEPT ![l] = None]
  /\ UNCHANGED <<int3, threadVars, event, held, mode, last_thread_id,
                 pending_breakpoint, pending_continue, temps, leak_hooks,
                 allocations, leaks>>

Delete(l) ==
  /\ Command("delete") /\ breakpoints[l] # None
  /\ int3' = Write(int3, l, breakpoints[l].byte)
  /\ breakpoints' = [breakpoints EXCEPT ![l] = None]
  /\ UNCHANGED <<threadVars, event, held, mode, last_thread_id,
                 pending_breakpoint, pending_continue, temps, leak_hooks,
                 allocations, leaks>>

Continue ==
  /\ Command("continue")
  /\ continue_execution
  /\ UNCHANGED <<int3, threadVars, last_thread_id, breakpoints,
                 pending_breakpoint, temps, leak_hooks, allocations, leaks>>

\* step and next: one unit armed on the current thread, then continue.
start_step(over) ==
  /\ Command(IF over THEN "next" ELSE "step")
  /\ last_thread_id \notin Denied
  /\ step_target' = [over |-> over, start |-> Line[rip[last_thread_id]]]
  /\ arm_step(last_thread_id, over, int3, step_over_bp)
  /\ continue_execution
  /\ UNCHANGED <<rip, past, last_thread_id, breakpoints, pending_breakpoint,
                 finish_bp, leak_hooks, allocations, leaks>>

\* up: a temporary INT3 at the return address, unless the user has one there.
finish(a) ==
  LET l == <<ProcOf[last_thread_id], a>>
  IN  /\ Command("up") /\ a \in ReturnSites[rip[last_thread_id]]
      /\ last_thread_id \notin Denied
      /\ \/ /\ breakpoints[l] # None
            /\ UNCHANGED <<int3, finish_bp>>
         \/ /\ breakpoints[l] = None
            /\ finish_bp' = [addr |-> a, byte |-> Read(int3, l)]
            /\ int3' = Plant(int3, l)
      /\ continue_execution
      /\ UNCHANGED <<threadVars, last_thread_id, breakpoints,
                     pending_breakpoint, step_target, step_over_bp,
                     leak_hooks, allocations, leaks>>

switch_thread(t) ==
  /\ Command("thread")
  /\ last_thread_id' = t
  /\ UNCHANGED <<int3, threadVars, event, held, mode, breakpoints,
                 pending_breakpoint, pending_continue, temps, leak_hooks,
                 allocations, leaks>>

\* leak start: hooks always go to the root process; refused while running.
start_leak_tracking ==
  /\ Command("leak start") /\ HookAddr # {}
  /\ \A a \in HookAddr : leak_hooks[a] = None
  /\ leak_hooks' = [a \in HookAddr |-> Read(int3, <<Root, a>>)]
  /\ int3' = int3 \cup ({Root} \X HookAddr)
  /\ allocations' = {}
  /\ UNCHANGED <<threadVars, event, held, mode, last_thread_id, breakpoints,
                 pending_breakpoint, pending_continue, temps, leaks>>

\* leak stop: every hook's saved byte goes back, whatever is in flight.
Saved(b) == {<<Root, a>> : a \in {h \in HookAddr : leak_hooks[h] = b}}

stop_leak_tracking ==
  /\ Command("leak stop")
  /\ int3' = (int3 \ Saved("insn")) \cup Saved("int3")
  /\ leak_hooks' = [a \in HookAddr |-> None]
  /\ pending_leak' = None /\ pending_leak_rearm' = None
  /\ UNCHANGED <<threadVars, event, held, mode, last_thread_id, breakpoints,
                 pending_breakpoint, pending_continue, temps, allocations>>

-----------------------------------------------------------------------------
Handle(t) ==
  \/ LeakReturn(t) \/ LeakHook(t) \/ FinishHit(t) \/ StepOverHit(t)
  \/ BreakpointHit(t)
  \/ LeakRearm(t) \/ BreakpointRearm(t) \/ StepEvent(t)
  \/ Interrupted(t) \/ OtherException(t) \/ OtherEvent(t)

Debuggee(t) == HitInt3(t) \/ Execute(t) \/ Fault(t) \/ Notify(t)

User ==
  \/ \E l \in Loc : set_breakpoint(l) \/ Delete(l)
  \/ Continue
  \/ \E over \in BOOLEAN : start_step(over)
  \/ \E a \in Addr : finish(a)
  \/ \E t \in Thread : switch_thread(t)
  \/ start_leak_tracking \/ stop_leak_tracking

Next == User \/ CtrlC \/ \E t \in Thread : Debuggee(t) \/ Handle(t)

Spec == Init /\ [][Next]_vars

\* Threads are scheduled, the loop polls for events, and a user at the prompt
\* sooner or later resumes the debuggee.
FairSpec ==
  /\ Spec
  /\ WF_vars(Continue)
  /\ \A t \in Thread : WF_vars(HitInt3(t) \/ Execute(t)) /\ WF_vars(Handle(t))

-----------------------------------------------------------------------------
(* Properties.                                                             *)

\* Every delivered event is answered exactly once: the loop waits only when it
\* owes no reply, and at the prompt the one reply owed is the recorded one
\* (continue_execution's pending_continue against ContinueDebugEvent).
OneReplyOwed ==
  IF mode = "loop"
  THEN held = {} /\ pending_continue = None
  ELSE /\ pending_continue # None
       /\ held = {pending_continue.tid}
       /\ event[pending_continue.tid] # "none"

\* A thread that ran into an INT3 and is continued with DBG_CONTINUE is
\* rewound first, so the instruction under the INT3 is never skipped.  Only
\* a reply of DBG_EXCEPTION_NOT_HANDLED may leave rip behind the INT3.
NeverSkips ==
  [][\A t \in Thread :
       event[t] = "bp" /\ event'[t] = "none" =>
         \/ ~past'[t]
         \/ pending_continue = [tid |-> t, status |-> "not_handled"]]_vars

\* The threads of which the program has seen the trap: the debugger has answered
\* for the INT3 they are behind.
Trapped == {t \in Thread : past[t] /\ event[t] # "bp"}
Bare == INSTANCE Program WITH pc <- rip, trapped <- Trapped

\* Under the debugger the program runs as it does alone: whatever is planted,
\* stepped off and put back, every instruction is executed from its start, none
\* is skipped, and the program's own INT3s still raise theirs
\* (continue_execution's rewinds and byte writes, taken together).
RunsAsAlone == Bare!Spec

\* The program is never handed an exception for an INT3 the debugger planted:
\* the only unclaimed INT3s are the program's own.
NoStrayInt3 ==
  mode = "prompt" /\ pending_continue # None =>
    LET t == pending_continue.tid
    IN  event[t] = "bp" /\ pending_continue.status = "not_handled" =>
          rip[t] \in OwnInt3

\* The enabled flag `breakpoints' lists says whether the INT3 is in the code.
EnabledIffPlanted ==
  \A l \in Loc : breakpoints[l] # None =>
    (breakpoints[l].enabled <=> l \in int3)

\* While the user is at the prompt no breakpoint is left out of the code: the
\* event loop reaps the step that puts it back before it reports the hit.
ArmedAtPrompt ==
  mode = "prompt" =>
    \A l \in Loc : breakpoints[l] # None => breakpoints[l].enabled

\* A breakpoint waiting to be put back has a single-step event on its way.
RearmIsComing ==
  pending_breakpoint # None =>
    \E t \in Thread : tf[t] \/ event[t] \in {"step", "watch"}

\* Each temporary the debugger remembers has its INT3 in the code, and each
\* allocator hook is in the code unless it is the one waiting to go back in.
TemporariesPlanted ==
  /\ finish_bp # None => \E p \in Process : <<p, finish_bp.addr>> \in int3
  /\ step_over_bp # None => \E p \in Process : <<p, step_over_bp.addr>> \in int3
  /\ pending_leak # None => \E p \in Process : <<p, pending_leak.ret>> \in int3
  /\ \A a \in HookAddr : leak_hooks[a] # None =>
       (<<Root, a>> \in int3 <=>
          /\ pending_leak_rearm # a
          /\ pending_leak = None \/ pending_leak.hook # a)

\* No INT3 wedges a thread: the instruction under it runs, once the user lets
\* the debuggee go on, instead of trapping again and again.
InstructionsComplete ==
  \A t \in Thread, a \in Addr : rip[t] = a ~> rip[t] # a

\* A breakpoint that is out of the code is the one the next step event puts
\* back.
DisabledIsPending ==
  \A l \in Loc : breakpoints[l] # None /\ ~breakpoints[l].enabled =>
    pending_breakpoint = l[2]

\* Wherever the debugger has covered an instruction, some record still holds
\* the program's byte, so removing the INT3s can restore the program.
OriginalKept ==
  \A l \in int3 : l[2] \notin OwnInt3 =>
    \/ breakpoints[l] # None /\ breakpoints[l].byte = "insn"
    \/ finish_bp = [addr |-> l[2], byte |-> "insn"]
    \/ step_over_bp = [addr |-> l[2], byte |-> "insn"]
    \/ l[2] \in HookAddr /\ leak_hooks[l[2]] = "insn"
    \/ /\ pending_leak # None
       /\ pending_leak.ret = l[2] /\ pending_leak.byte = "insn"

=============================================================================

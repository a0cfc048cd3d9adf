------------------------------ MODULE ThreadLock ------------------------------
(***************************************************************************)
(* `lock', `unlock' and `thread' (src/src/debugger.rs): the thread table,  *)
(* the threads the debugger froze and the suspend counts Windows keeps,    *)
(* while threads and child processes come and go and the session restarts. *)
(*                                                                         *)
(* One event with its handler, or one command, is one action.              *)
(***************************************************************************)
EXTENDS Naturals, FiniteSets

CONSTANTS
  Thread, Process, Root,
  ProcOf,        \* the process of each thread
  Main,          \* the first thread of each process
  Denied,        \* threads OpenThread refuses the debugger
  Refusing,      \* threads that open but fail Get/SetThreadContext
  Lockable,      \* the threads the user locks to
  MaxSuspend,    \* MAXIMUM_SUSPEND_COUNT
  None

ASSUME Setting ==
  /\ Root \in Process
  /\ ProcOf \in [Thread -> Process]
  /\ Main \in [Process -> Thread]
  /\ \A p \in Process : ProcOf[Main[p]] = p
  /\ Denied \subseteq Thread /\ Refusing \subseteq Thread
  /\ Lockable \subseteq Thread
  /\ MaxSuspend \in Nat \ {0}
  /\ None \notin Thread

VARIABLES
  life, dying,       \* unborn, alive or dead; being killed by ExitProcess
  suspends,          \* the suspend count Windows keeps for each thread
  event,             \* the event a thread has raised and no one answered
  \* the Debugger struct
  process,           \* self.process is Some
  mode, held,        \* at the prompt, or in the loop; the thread stopped for
  last_thread_id, threads, locked_thread, frozen_threads

os == <<life, dying, suspends, event>>
session == <<process, mode, held>>
lock == <<locked_thread, frozen_threads>>
vars == <<os, session, last_thread_id, threads, lock>>

TypeOK ==
  /\ life \in [Thread -> {"unborn", "alive", "dead"}]
  /\ dying \subseteq Thread
  /\ suspends \in [Thread -> 0 .. MaxSuspend]
  /\ event \in [Thread -> {"none", "create_process", "create_thread", "stop",
                           "exit_thread", "exit_process"}]
  /\ process \in BOOLEAN
  /\ mode \in {"prompt", "loop"}
  /\ held \in Thread \cup {None}
  /\ last_thread_id \in Thread \cup {None}
  /\ threads \subseteq Thread
  /\ locked_thread \in Thread \cup {None}
  /\ frozen_threads \subseteq Thread

\* tdb has started, and nothing runs yet.
Init ==
  /\ life = [t \in Thread |-> "unborn"] /\ dying = {}
  /\ suspends = [t \in Thread |-> 0]
  /\ event = [t \in Thread |-> "none"]
  /\ process = FALSE /\ mode = "prompt" /\ held = None
  /\ last_thread_id = None
  /\ threads = {} /\ locked_thread = None /\ frozen_threads = {}

-----------------------------------------------------------------------------
(* The debuggee.                                                           *)

Alive(p) == {t \in Thread : ProcOf[t] = p /\ life[t] = "alive"}

\* Nothing runs in a process that waits for the answer to its event.
Halted(p) == ~process \/ (held # None /\ ProcOf[held] = p)

Runnable(t) ==
  /\ life[t] = "alive" /\ t \notin dying
  /\ event[t] = "none" /\ suspends[t] = 0 /\ ~Halted(ProcOf[t])

debuggerVars == <<session, last_thread_id, threads, lock>>

\* A thread starts: created by another, as the first of a child process, or
\* injected into the root to run the Ctrl+C handler.
Start(t) ==
  /\ life[t] = "unborn"
  /\ \/ \E s \in Thread : Runnable(s) /\ (ProcOf[s] = ProcOf[t] \/ t = Main[ProcOf[t]])
     \/ /\ process /\ mode = "loop" /\ ProcOf[t] = Root
        /\ Alive(Root) \ dying # {}
  /\ life' = [life EXCEPT ![t] = "alive"]
  /\ event' = [event EXCEPT ![t] = IF t = Main[ProcOf[t]] THEN "create_process"
                                                          ELSE "create_thread"]
  /\ UNCHANGED <<dying, suspends, debuggerVars>>

\* A breakpoint, a step, a watchpoint, Ctrl+C: anything the loop stops for.
ReachStop(t) ==
  /\ Runnable(t)
  /\ event' = [event EXCEPT ![t] = "stop"]
  /\ UNCHANGED <<life, dying, suspends, debuggerVars>>

\* A thread ends, of itself or killed; the last one ends the process.
Exit(t) ==
  /\ \/ Runnable(t)
     \/ t \in dying /\ life[t] = "alive" /\ event[t] = "none" /\ ~Halted(ProcOf[t])
  /\ life' = [life EXCEPT ![t] = "dead"]
  /\ event' = [event EXCEPT ![t] = IF Alive(ProcOf[t]) = {t} THEN "exit_process"
                                                             ELSE "exit_thread"]
  /\ UNCHANGED <<dying, suspends, debuggerVars>>

\* ExitProcess kills every thread, suspended or not.
ExitProcess(t) ==
  /\ Runnable(t)
  /\ dying' = dying \cup Alive(ProcOf[t])
  /\ UNCHANGED <<life, suspends, event, debuggerVars>>

-----------------------------------------------------------------------------
(* SuspendThread, ResumeThread, and what a context access leaves behind.   *)

Suspend(ts) ==
  [t \in Thread |-> IF t \in ts /\ suspends[t] < MaxSuspend
                    THEN suspends[t] + 1 ELSE suspends[t]]

ThawNone(ts) == suspends
Thaw(ts) ==
  [t \in Thread |-> IF t \in ts /\ suspends[t] > 0
                    THEN suspends[t] - 1 ELSE suspends[t]]

\* get_thread_context and set_thread_context suspend the thread first; when
\* the access itself fails, `?' returns before ResumeThread.
ContextAccess(t) == Suspend(({t} \cap Refusing) \ Denied)

-----------------------------------------------------------------------------
(* Debug events.                                                           *)

Wait(t, kind) ==
  /\ process /\ mode = "loop"
  /\ event[t] = kind /\ ~Halted(ProcOf[t])
  /\ last_thread_id' = t

Answer(t) == event' = [event EXCEPT ![t] = "none"]

\* A process's first thread: registered, its debug registers left alone.
CREATE_PROCESS_ByPid(t) ==
  /\ Wait(t, "create_process")
  /\ threads' = threads \cup {ProcOf[t]}
  /\ Answer(t)
  /\ UNCHANGED <<life, dying, suspends, session, lock>>

CREATE_PROCESS(t) ==
  /\ Wait(t, "create_process")
  /\ threads' = threads \cup {t}
  /\ Answer(t)
  /\ UNCHANGED <<life, dying, suspends, session, lock>>

\* A newcomer is given the watchpoints, and never frozen.
CREATE_THREAD_Frozen(t) ==
  /\ Wait(t, "create_thread")
  /\ threads' = threads \cup {t}
  /\ suspends' = Suspend(IF locked_thread = None THEN {} ELSE {t})
  /\ frozen_threads' = IF locked_thread = None THEN frozen_threads
                                               ELSE frozen_threads \cup {t}
  /\ Answer(t)
  /\ UNCHANGED <<life, dying, session, locked_thread>>

CREATE_THREAD(t) ==
  /\ Wait(t, "create_thread")
  /\ threads' = threads \cup {t}
  /\ suspends' = ContextAccess(t)
  /\ Answer(t)
  /\ UNCHANGED <<life, dying, session, lock>>

\* The lock ends with its thread, and everyone it froze runs again.
EXIT_THREAD_NoThaw(t) ==
  /\ Wait(t, "exit_thread")
  /\ threads' = threads \ {t}
  /\ locked_thread' = IF locked_thread = t THEN None ELSE locked_thread
  /\ frozen_threads' = frozen_threads \ {t}
  /\ Answer(t)
  /\ UNCHANGED <<life, dying, suspends, session>>

EXIT_THREAD(t) ==
  /\ Wait(t, "exit_thread")
  /\ threads' = threads \ {t}
  /\ IF locked_thread = t
     THEN /\ suspends' = Thaw(frozen_threads \ {t})
          /\ frozen_threads' = {}
          /\ locked_thread' = None
     ELSE /\ frozen_threads' = frozen_threads \ {t}
          /\ UNCHANGED <<suspends, locked_thread>>
  /\ Answer(t)
  /\ UNCHANGED <<life, dying, session>>

\* Dropping the DebuggeeProcess terminates every process it still tracks; what
\* they have left in the event queue is not followed.
shutdown ==
  /\ event' = [t \in Thread |-> "none"]
  /\ life' = [t \in Thread |-> "dead"]
  /\ process' = FALSE /\ mode' = "prompt" /\ held' = None
  /\ threads' = {} /\ locked_thread' = None /\ frozen_threads' = {}

\* The root's exit ends the session.  A child's takes its threads out of the
\* tables, and the lock with them if it was one of theirs.
EXIT_PROCESS(t) ==
  LET gone == {u \in threads : ProcOf[u] = ProcOf[t]}
  IN  /\ Wait(t, "exit_process")
      /\ \/ /\ ProcOf[t] = Root
            /\ shutdown
         \/ /\ ProcOf[t] # Root
            /\ threads' = threads \ gone
            /\ frozen_threads' = frozen_threads \ gone
            /\ locked_thread' = IF locked_thread \in gone THEN None ELSE locked_thread
            /\ Answer(t)
            /\ UNCHANGED <<life, session>>
      /\ UNCHANGED <<dying, suspends>>

\* Every event the loop returns to the prompt for.
Stop(t) ==
  /\ Wait(t, "stop")
  /\ mode' = "prompt" /\ held' = t
  /\ UNCHANGED <<os, process, threads, lock>>

-----------------------------------------------------------------------------
(* The commands.                                                           *)

continue_execution ==
  /\ process /\ mode = "prompt"
  /\ mode' = "loop" /\ held' = None
  /\ event' = [event EXCEPT ![held] = "none"]
  /\ UNCHANGED <<life, dying, suspends, process, last_thread_id, threads, lock>>

\* The threads a first lock freezes: those known, other than its target, that
\* can be opened.
Everyone(target) == threads \ Denied
Others(target) == threads \ ({target} \cup Denied)

\* lock: freeze everyone else, or hand the lock over.
lock_thread(target) ==
  /\ process /\ mode = "prompt"
  /\ target \in threads \cap Lockable /\ target # locked_thread
  /\ \/ /\ locked_thread = None
        /\ suspends' = Suspend(Others(target))
        /\ frozen_threads' = frozen_threads \cup Others(target)
     \/ /\ locked_thread # None
        /\ suspends' = [t \in Thread |->
                          IF t = target /\ t \in frozen_threads \ Denied
                          THEN Thaw({t})[t]
                          ELSE Suspend({locked_thread} \ Denied)[t]]
        /\ frozen_threads' = (frozen_threads \ {target}) \cup
                             ({locked_thread} \ Denied)
  /\ locked_thread' = target
  /\ last_thread_id' = target
  /\ UNCHANGED <<life, dying, event, session, threads>>

unlock_thread ==
  /\ process /\ mode = "prompt" /\ locked_thread # None
  /\ suspends' = Thaw(frozen_threads \ Denied)
  /\ frozen_threads' = {} /\ locked_thread' = None
  /\ UNCHANGED <<life, dying, event, session, last_thread_id, threads>>

switch_thread(t) ==
  /\ process /\ mode = "prompt" /\ t \in threads
  /\ last_thread_id' = t
  /\ suspends' = ContextAccess(t)
  /\ UNCHANGED <<life, dying, event, session, threads, lock>>

\* run: whatever there was is shut down, and a new debuggee is launched.
Run ==
  /\ mode = "prompt"
  /\ life' = [t \in Thread |-> IF t = Main[Root] THEN "alive" ELSE "unborn"]
  /\ dying' = {}
  /\ suspends' = [t \in Thread |-> 0]
  /\ event' = [t \in Thread |-> IF t = Main[Root] THEN "create_process" ELSE "none"]
  /\ process' = TRUE /\ mode' = "loop" /\ held' = None
  /\ threads' = {} /\ locked_thread' = None /\ frozen_threads' = {}
  /\ UNCHANGED last_thread_id

-----------------------------------------------------------------------------
Debuggee(t) == Start(t) \/ ReachStop(t) \/ Exit(t) \/ ExitProcess(t)

Handle(t) ==
  \/ CREATE_PROCESS(t) \/ CREATE_THREAD(t)
  \/ EXIT_THREAD(t) \/ EXIT_PROCESS(t) \/ Stop(t)

User ==
  \/ continue_execution \/ unlock_thread \/ Run
  \/ \E t \in Thread : lock_thread(t) \/ switch_thread(t)

Next == User \/ \E t \in Thread : Debuggee(t) \/ Handle(t)

Spec == Init /\ [][Next]_vars

-----------------------------------------------------------------------------
(* Properties.                                                             *)

\* The threads the debugger believes frozen are the suspended ones, each
\* suspended once: what `unlock' resumes runs again.
SuspendedOnce ==
  \A t \in Thread : life[t] = "alive" =>
    suspends[t] = IF t \in frozen_threads THEN 1 ELSE 0

\* Threads are frozen only while a lock is held: once its thread has exited,
\* no thread is left frozen where `unlock' no longer reaches it (docs,
\* F-TH-06).
FreezeHasOwner == frozen_threads # {} => locked_thread # None

\* The debugger never waits for a debuggee in which everything is frozen.
SomeoneRuns ==
  process /\ mode = "loop" =>
    \E t \in Thread :
      event[t] # "none" \/ (life[t] = "alive" /\ (suspends[t] = 0 \/ t \in dying))

\* lock, unlock and the thread events keep the promise of Freeze.
F == INSTANCE Freeze WITH
       known <- threads, owner <- locked_thread,
       stopped <- {t \in threads : suspends[t] > 0}
KeepsFreeze == F!Spec
=============================================================================

--------------------------- MODULE Session_proofs ---------------------------
(***************************************************************************)
(* The invariants of Session, for every number of processes and launches:  *)
(* TypeOK, Accounted and LoopHasRoot.                                      *)
(***************************************************************************)
EXTENDS Session, TLAPS

(***************************************************************************)
(* LoopHasRoot is not inductive.  It holds because a read event of the     *)
(* root is always the one `continue' will answer (Answerable), and because *)
(* a process with an event on its way still exists and owes no answer      *)
(* (OnTheWay), so that a pid given away a second time is owed nothing.     *)
(***************************************************************************)
Rooted ==
  /\ process # None => process \in processes
  /\ process = None => processes = {}
  /\ mode \in {"loop", "wait"} => process # None /\ pending_continue = None

Answerable ==
  /\ process # None /\ process \in unanswered => pending_continue = process
  /\ pending_continue # None => pending_continue \in unanswered

OnTheWay ==
  \A p \in Pid :
    /\ event[p] # "none" => life[p] # "none" /\ p \notin unanswered
    /\ life[p] = "none" => p \notin unanswered

IInv == TypeOK /\ Accounted /\ Rooted /\ Answerable /\ OnTheWay

\* The inductive invariant implies what it is for.
LEMMA IInvImpliesLoopHasRoot == IInv => LoopHasRoot
  BY DEF IInv, LoopHasRoot, Accounted, Rooted, Answerable, TypeOK

\* Nothing exists before the first run.
LEMMA InitIInv == Init => IInv
<1> SUFFICES ASSUME Init PROVE IInv
  OBVIOUS
<1> USE SessionAssumption DEF SessionAssumption, Init
<1>1. TypeOK
  <2>1. life \in [Pid -> {"none", "alive", "ended"}] /\ event \in [Pid -> Kind \cup {"none"}]
    OBVIOUS
  <2>2. launches \in 0 .. MaxLaunches
    OBVIOUS
  <2>3. QED
    BY <2>1, <2>2 DEF TypeOK
<1>2. Accounted /\ Rooted /\ Answerable /\ OnTheWay
  BY DEF Accounted, Rooted, Answerable, OnTheWay
<1>3. QED
  BY <1>1, <1>2 DEF IInv

\* The steps of the debuggees leave what tdb knows alone.
LEMMA DebuggeeIInv ==
  ASSUME IInv, NEW p \in Pid, Debuggee(p)
  PROVE  IInv'
<1> USE SessionAssumption DEF SessionAssumption, IInv, TypeOK, Accounted, Rooted, Answerable, OnTheWay, Runs, tdb,
       debuggee
<1>1. CASE Raise(p)
  BY <1>1 DEF Raise, Kind
<1>2. CASE RaiseControlC(p)
  BY <1>2 DEF RaiseControlC, Kind
<1>3. CASE Exit(p)
  BY <1>3 DEF Exit, Kind
<1>4. CASE \E q \in Pid : Spawn(p, q)
  BY <1>4 DEF Spawn, Kind
<1>5. QED
  BY <1>1, <1>2, <1>3, <1>4 DEF Debuggee

\* Terminating what the table names leaves nothing alive but processes whose
\* creation event is unread, and gives no pid away.
LEMMA TerminateLeaves ==
  ASSUME IInv
  PROVE  /\ Lives(processes) \in [Pid -> {"none", "alive", "ended"}]
         /\ Exiting(processes) \in [Pid -> Kind \cup {"none"}]
         /\ \A p \in Pid :
              /\ Lives(processes)[p] = "alive" =>
                   p \notin processes /\ Exiting(processes)[p] = "create"
              /\ Lives(processes)[p] = "none" <=> life[p] = "none"
              /\ Exiting(processes)[p] # "none" => life[p] # "none" /\ p \notin unanswered
  BY DEF IInv, TypeOK, Accounted, OnTheWay, Lives, Exiting, Terminated, terminate, Kind

\* The commands.
LEMMA CommandIInv ==
  ASSUME IInv, Command
  PROVE  IInv'
<1> USE SessionAssumption DEF SessionAssumption, IInv, TypeOK, Accounted, Rooted, Answerable, OnTheWay, os, debuggee
<1>1. ASSUME NEW q \in Pid, run(q)
      PROVE  IInv'
  BY <1>1, TerminateLeaves DEF run, launch, lost, terminate, Kind
<1>2. CASE run_not_found
  BY <1>2, TerminateLeaves DEF run_not_found, lost, forget, terminate
<1>3. ASSUME NEW q \in Pid, run_without_symbols(q)
      PROVE  IInv'
  BY <1>3, TerminateLeaves DEF run_without_symbols, launch, lost, forget, terminate, Kind
<1>4. CASE continue_execution
  BY <1>4 DEF continue_execution, continue_event, Answered, Kind
<1>5. CASE set_breakpoint
  BY <1>5 DEF set_breakpoint, Known
<1>6. ASSUME NEW q \in Pid, remove_by_id(q)
      PROVE  IInv'
  BY <1>6 DEF remove_by_id
<1>7. CASE quit
  BY <1>7 DEF quit, forget
<1>8. QED
  BY <1>1, <1>2, <1>3, <1>4, <1>5, <1>6, <1>7 DEF Command

\* The handlers of the debug events.
LEMMA HandleIInv ==
  ASSUME IInv, NEW p \in Pid, Handle(p)
  PROVE  IInv'
<1> USE SessionAssumption DEF SessionAssumption, IInv, TypeOK, Accounted, Rooted, Answerable, OnTheWay, debuggee,
       wait_for_event, continue_event, Answered, Stop, Kind
<1>1. CASE quiet_event(p)
  BY <1>1 DEF quiet_event
<1>2. CASE CREATE_PROCESS(p)
  <2>1. process # None /\ life' = life /\ life[p] # "none" /\ p \notin unanswered
    BY <1>2 DEF CREATE_PROCESS
  <2>2. TypeOK'
    BY <1>2, <2>1 DEF CREATE_PROCESS
  <2>3. Accounted' /\ OnTheWay'
    BY <1>2, <2>1 DEF CREATE_PROCESS
  <2>4. Rooted' /\ Answerable'
    BY <1>2, <2>1 DEF CREATE_PROCESS
  <2>5. QED
    BY <2>2, <2>3, <2>4
<1>3. CASE breakpoint_hit(p)
  BY <1>3 DEF breakpoint_hit
<1>4. CASE exception(p)
  BY <1>4 DEF exception
<1>5. CASE control_c(p)
  BY <1>5 DEF control_c
<1>6. CASE root_exit(p)
  <2>1. TypeOK'
    BY <1>6, TerminateLeaves DEF root_exit, lost, forget, terminate
  <2>2. Accounted' /\ Rooted' /\ Answerable' /\ OnTheWay'
    BY <1>6, TerminateLeaves DEF root_exit, forget
  <2>3. QED
    BY <2>1, <2>2
<1>7. CASE child_exit(p)
  BY <1>7 DEF child_exit
<1>8. QED
  BY <1>1, <1>2, <1>3, <1>4, <1>5, <1>6, <1>7 DEF Handle

\* Every step keeps the inductive invariant.
LEMMA NextIInv == IInv /\ [Next]_vars => IInv'
<1> SUFFICES ASSUME IInv, [Next]_vars
             PROVE  IInv'
  OBVIOUS
<1>1. CASE Command
  BY <1>1, CommandIInv
<1>2. CASE \E p \in Pid : Debuggee(p) \/ Handle(p)
  BY <1>2, DebuggeeIInv, HandleIInv
<1>3. CASE console_ctrl_handler \/ take_interrupt_requested \/ timed_out
  BY <1>3
  DEF console_ctrl_handler, take_interrupt_requested, timed_out, os, debuggee,
      IInv, TypeOK, Accounted, Rooted, Answerable, OnTheWay
<1>4. CASE Quit \/ UNCHANGED vars
  BY <1>4 DEF Quit, vars, os, debuggee, IInv, TypeOK, Accounted, Rooted, Answerable, OnTheWay
<1>5. QED
  BY <1>1, <1>2, <1>3, <1>4 DEF Next

\* Every behaviour keeps it.
LEMMA SpecIInv == Spec => []IInv
  BY InitIInv, NextIInv, PTL DEF Spec

\* The variables keep their types.
THEOREM TypeCorrect == Spec => []TypeOK
<1>1. IInv => TypeOK
  BY DEF IInv
<1>2. QED
  BY <1>1, SpecIInv, PTL

\* Across restarts and exits tdb loses sight of no living process, and its table
\* names none that is gone: Drop kills whatever the table has, and the rest is a
\* child whose creation event some later loop will read.
THEOREM NoProcessIsLost == Spec => []Accounted
<1>1. IInv => Accounted
  BY DEF IInv
<1>2. QED
  BY <1>1, SpecIInv, PTL

\* Whatever the events of earlier runs do, the loop waits only while there is a
\* root that still has something to send and whose last event was answered.
THEOREM TheLoopHasARoot == Spec => []LoopHasRoot
  BY SpecIInv, IInvImpliesLoopHasRoot, PTL

=============================================================================

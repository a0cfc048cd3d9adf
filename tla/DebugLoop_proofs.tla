--------------------------- MODULE DebugLoop_proofs ---------------------------
(***************************************************************************)
(* Proofs about DebugLoop, for every program (Addr, Flow, Call, Line), set *)
(* of threads and processes, and set of commands the user may type.        *)
(***************************************************************************)
EXTENDS DebugLoop, TLAPS

-----------------------------------------------------------------------------
(* Type correctness.                                                       *)

\* The location a thread is at is a location of its process.
LEMMA HereTyped ==
  ASSUME TypeOK, NEW t \in Thread
  PROVE  Here(t) \in Loc /\ ProcOf[t] \in Process /\ rip[t] \in Addr
BY Setting DEF Setting, TypeOK, Here, Loc

\* Saving a byte and writing one back stay within code bytes.
LEMMA CodeTyped ==
  ASSUME NEW code \in SUBSET Loc, NEW l \in Loc, NEW b
  PROVE  /\ Read(code, l) \in Byte
         /\ Plant(code, l) \in SUBSET Loc
         /\ Write(code, l, b) \in SUBSET Loc
BY DEF Read, Plant, Write, Byte

\* The start of a session is well typed.
LEMMA InitTyped == Init => TypeOK
<1> SUFFICES ASSUME Init PROVE TypeOK
  OBVIOUS
<1> USE Setting DEF Setting, Init, Loc, HookAddr
<1>1. int3 \subseteq Loc /\ rip \in [Thread -> Addr] /\ past \in [Thread -> BOOLEAN]
      /\ tf \in [Thread -> BOOLEAN]
  OBVIOUS
<1>2. event \in [Thread -> {"none", "bp", "step", "watch", "exception", "ctrlc", "notice"}]
  OBVIOUS
<1>3. breakpoints \in [Loc -> [byte : Byte, enabled : BOOLEAN] \cup {None}]
  OBVIOUS
<1>4. leak_hooks \in [HookAddr -> Byte \cup {None}]
  OBVIOUS
<1> QED
  BY <1>1, <1>2, <1>3, <1>4 DEF TypeOK

\* A fresh breakpoint entry is well typed.
LEMMA EntryTyped ==
  ASSUME TypeOK, NEW l \in Loc, NEW entry \in [byte : Byte, enabled : BOOLEAN]
  PROVE  [breakpoints EXCEPT ![l] = entry]
           \in [Loc -> [byte : Byte, enabled : BOOLEAN] \cup {None}]
BY DEF TypeOK

\* Arming a step touches the trap flag, the code and step_over_bp only.
LEMMA ArmTyped ==
  ASSUME TypeOK, NEW t \in Thread, NEW over, NEW code \in SUBSET Loc,
         NEW old \in Slot \cup {None}, arm_step(t, over, code, old)
  PROVE  /\ tf' \in [Thread -> BOOLEAN]
         /\ int3' \in SUBSET Loc
         /\ step_over_bp' \in Slot \cup {None}
<1> DEFINE back == <<ProcOf[t], Fall[rip[t]]>>
<1>1. CASE over /\ rip[t] \in Call /\ Here(t) \notin code
  <2>1. back \in Loc /\ back[2] \in Addr
    BY <1>1, HereTyped, Setting DEF Setting, Loc
  <2>2. Read(code, back) \in Byte /\ Plant(code, back) \in SUBSET Loc
    BY <2>1, CodeTyped
  <2>3. [addr |-> back[2], byte |-> Read(code, back)] \in Slot
    BY <2>1, <2>2 DEF Slot
  <2> QED
    BY <1>1, <2>2, <2>3 DEF arm_step, TypeOK
<1>2. CASE ~(over /\ rip[t] \in Call /\ Here(t) \notin code)
  BY <1>2 DEF arm_step, SingleStep, TypeOK
<1> QED
  BY <1>1, <1>2

\* The debuggee's own steps keep the types.
LEMMA DebuggeeTyped ==
  ASSUME TypeOK, NEW t \in Thread, Debuggee(t) PROVE TypeOK'
<1> USE Setting DEF Setting, TypeOK, debuggerVars, temps, leaks, threadVars
<1>1. CASE HitInt3(t)
  BY <1>1 DEF HitInt3
<1>2. CASE Execute(t)
  <2>1. Flow[rip[t]] \subseteq Addr
    OBVIOUS
  <2> QED
    BY <1>2, <2>1 DEF Execute
<1>3. CASE Fault(t)
  BY <1>3 DEF Fault
<1>4. CASE Notify(t)
  BY <1>4 DEF Notify
<1> QED
  BY <1>1, <1>2, <1>3, <1>4 DEF Debuggee

\* The handlers of STATUS_BREAKPOINT keep the types.
LEMMA BreakpointsTyped ==
  ASSUME TypeOK, NEW t \in Thread,
         LeakReturn(t) \/ LeakHook(t) \/ FinishHit(t) \/ StepOverHit(t) \/ BreakpointHit(t)
  PROVE  TypeOK'
<1> USE Setting DEF Setting, TypeOK, temps, leaks, threadVars, Wait, SetRip,
        Stop, Resume, Propagate
<1>0. Here(t) \in Loc /\ ProcOf[t] \in Process /\ rip[t] \in Addr
  BY HereTyped
<1>1. CASE LeakReturn(t)
  <2> DEFINE code == Write(int3, Here(t), pending_leak.byte)
             hook == <<ProcOf[t], pending_leak.hook>>
  <2>1. code \in SUBSET Loc
    BY <1>0, CodeTyped
  <2>2. pending_leak # None => hook \in Loc /\ hook[2] \in HookAddr
    BY <1>0 DEF Loc, HookAddr
  <2>3. pending_leak # None => Read(code, hook) \in Byte /\ Plant(code, hook) \in SUBSET Loc
    BY <2>1, <2>2, CodeTyped
  <2> HIDE DEF code, hook
  <2>4. int3' \in SUBSET Loc
    BY <1>1, <2>1, <2>3 DEF LeakReturn, IsLeakReturn, code, hook
  <2>5. leak_hooks' \in [HookAddr -> Byte \cup {None}]
    BY <1>1, <2>2, <2>3 DEF LeakReturn, IsLeakReturn, code, hook
  <2> QED
    BY <1>1, <2>4, <2>5 DEF LeakReturn
<1>2. CASE LeakHook(t)
  <2> DEFINE code == Write(int3, Here(t), leak_hooks[rip[t]])
  <2>1. code \in SUBSET Loc
    BY <1>0, CodeTyped
  <2> HIDE DEF code
  <2>2. /\ rip[t] \in HookAddr
        /\ \A a \in ReturnSites[rip[t]] : a \in Addr /\ <<ProcOf[t], a>> \in Loc
    BY <1>0, <1>2 DEF LeakHook, IsHook, Loc
  <2>3. ASSUME StepOffHook(t, code) PROVE TypeOK'
    BY <1>2, <2>1, <2>2, <2>3 DEF LeakHook, StepOffHook, FreeBlock, SingleStep
  <2>4. ASSUME NEW a \in ReturnSites[rip[t]], AwaitReturn(t, code, <<ProcOf[t], a>>)
        PROVE  TypeOK'
    <3>1. /\ Read(code, <<ProcOf[t], a>>) \in Byte
          /\ Plant(code, <<ProcOf[t], a>>) \in SUBSET Loc
      BY <2>1, <2>2, CodeTyped
    <3>2. pending_leak' \in [hook : HookAddr, ret : Addr, byte : Byte]
      BY <2>2, <2>4, <3>1 DEF AwaitReturn
    <3>3. int3' \in SUBSET Loc /\ UNCHANGED <<tf, allocations, pending_leak_rearm>>
      BY <2>4, <3>1 DEF AwaitReturn
    <3>4. past' \in [Thread -> BOOLEAN] /\ Wait(t, "bp")
      BY <1>2 DEF LeakHook
    <3>5. Resume(t) \/ Propagate(t)
      BY <1>2 DEF LeakHook
    <3>6. UNCHANGED <<rip, breakpoints, pending_breakpoint, temps, leak_hooks>>
      BY <1>2 DEF LeakHook
    <3> QED
      BY <3>2, <3>3, <3>4, <3>5, <3>6
  <2>5. ASSUME t \in Denied PROVE TypeOK'
    BY <1>2, <2>1, <2>5 DEF LeakHook, code
  <2> QED
    BY <1>2, <2>3, <2>4, <2>5 DEF LeakHook, code
<1>3. CASE FinishHit(t)
  <2>1. int3' \in SUBSET Loc
    BY <1>0, <1>3, CodeTyped DEF FinishHit
  <2>2. past' \in [Thread -> BOOLEAN] /\ finish_bp' \in Slot \cup {None}
    BY <1>3 DEF FinishHit
  <2>3. Stop(t, "continue") \/ Propagate(t)
    BY <1>3 DEF FinishHit
  <2>4. pending_continue' \in [tid : Thread, status : Status] \cup {None}
    BY <2>3 DEF Status
  <2>5. /\ Wait(t, "bp")
        /\ UNCHANGED <<rip, tf, breakpoints, pending_breakpoint, step_target,
                       step_over_bp, leak_hooks, allocations, leaks>>
    BY <1>3 DEF FinishHit
  <2> QED
    BY <2>1, <2>2, <2>3, <2>4, <2>5
<1>4. CASE StepOverHit(t)
  <2> DEFINE code == Write(int3, Here(t), step_over_bp.byte)
  <2>1. code \in SUBSET Loc
    BY <1>0, CodeTyped
  <2> HIDE DEF code
  <2>2. /\ tf' \in [Thread -> BOOLEAN] /\ int3' \in SUBSET Loc
        /\ step_over_bp' \in Slot \cup {None}
        /\ step_target' \in {None, step_target}
    <3>1. CASE t \notin Denied /\ should_keep_stepping(t)
      BY <1>4, <2>1, <3>1, ArmTyped DEF StepOverHit, code
    <3>2. CASE ~(t \notin Denied /\ should_keep_stepping(t))
      BY <1>4, <2>1, <3>2 DEF StepOverHit, code
    <3> QED
      BY <3>1, <3>2
  <2>3. past' \in [Thread -> BOOLEAN] /\ Wait(t, "bp")
    BY <1>4 DEF StepOverHit
  <2>4. Stop(t, "continue") \/ Propagate(t) \/ Resume(t)
    BY <1>4 DEF StepOverHit
  <2>5. pending_continue' \in [tid : Thread, status : Status] \cup {None}
    BY <2>4 DEF Status
  <2>6. UNCHANGED <<rip, breakpoints, pending_breakpoint, finish_bp,
                    leak_hooks, allocations, leaks>>
    BY <1>4 DEF StepOverHit
  <2> QED
    BY <2>2, <2>3, <2>4, <2>5, <2>6
<1>5. CASE BreakpointHit(t)
  <2>1. int3' \in SUBSET Loc
    BY <1>0, <1>5, CodeTyped DEF BreakpointHit
  <2>2. breakpoints' \in [Loc -> [byte : Byte, enabled : BOOLEAN] \cup {None}]
    BY <1>0, <1>5 DEF BreakpointHit, IsUser
  <2>3. /\ past' \in [Thread -> BOOLEAN] /\ tf' \in [Thread -> BOOLEAN]
        /\ pending_breakpoint' \in Addr \cup {None}
        /\ Propagate(t) \/ Resume(t)
    BY <1>0, <1>5 DEF BreakpointHit, StepOff, SingleStep
  <2>4. /\ Wait(t, "bp") /\ ForgetTemporaries
        /\ UNCHANGED <<rip, leak_hooks, allocations>>
    BY <1>5 DEF BreakpointHit
  <2> QED
    BY <2>1, <2>2, <2>3, <2>4 DEF ForgetTemporaries
<1> QED
  BY <1>1, <1>2, <1>3, <1>4, <1>5

\* The handlers of STATUS_SINGLE_STEP and of the other events keep the types.
LEMMA OthersTyped ==
  ASSUME TypeOK, NEW t \in Thread,
         LeakRearm(t) \/ BreakpointRearm(t) \/ StepEvent(t) \/ Interrupted(t)
           \/ OtherException(t) \/ OtherEvent(t)
  PROVE  TypeOK'
<1> USE Setting DEF Setting, TypeOK, temps, leaks, threadVars, Wait, WaitStep,
        Stop, Resume
<1>0. /\ ProcOf[t] \in Process
      /\ [tid |-> t, status |-> "continue"] \in [tid : Thread, status : Status]
      /\ [tid |-> t, status |-> "not_handled"] \in [tid : Thread, status : Status]
  BY DEF Status
<1>1. CASE LeakRearm(t)
  <2> DEFINE hook == <<ProcOf[t], pending_leak_rearm>>
  <2>1. hook \in Loc /\ hook[2] \in HookAddr
    BY <1>0, <1>1 DEF LeakRearm, Loc, HookAddr
  <2>2. Read(int3, hook) \in Byte /\ Plant(int3, hook) \in SUBSET Loc
    BY <2>1, CodeTyped
  <2> HIDE DEF hook
  <2>3. /\ int3' \in SUBSET Loc
        /\ leak_hooks' \in [HookAddr -> Byte \cup {None}]
    BY <1>1, <2>1, <2>2 DEF LeakRearm, hook
  <2> QED
    BY <1>1, <2>3 DEF LeakRearm
<1>2. CASE BreakpointRearm(t)
  <2> DEFINE l == <<ProcOf[t], pending_breakpoint>>
  <2>1. l \in Loc
    BY <1>0, <1>2 DEF BreakpointRearm, Loc
  <2>2. Rearmed(l) \in [byte : Byte, enabled : BOOLEAN] /\ Plant(int3, l) \in SUBSET Loc
    BY <2>1, CodeTyped DEF Rearmed
  <2>e. [breakpoints EXCEPT ![l] = Rearmed(l)]
          \in [Loc -> [byte : Byte, enabled : BOOLEAN] \cup {None}]
    BY <2>1, <2>2, EntryTyped
  <2>3. /\ int3' \in SUBSET Loc
        /\ breakpoints' \in [Loc -> [byte : Byte, enabled : BOOLEAN] \cup {None}]
    <3>1. \/ UNCHANGED <<int3, breakpoints>>
          \/ /\ breakpoints' = [breakpoints EXCEPT ![l] = Rearmed(l)]
             /\ int3' = Plant(int3, l)
      BY <1>2 DEF BreakpointRearm
    <3> QED
      BY <2>2, <2>e, <3>1
  <2>4. /\ step_target' \in {None, step_target}
        /\ pending_breakpoint' = None /\ WaitStep(t) /\ Stop(t, "continue")
        /\ UNCHANGED <<threadVars, step_over_bp, finish_bp, leak_hooks,
                       allocations, leaks>>
    BY <1>2 DEF BreakpointRearm
  <2> QED
    BY <1>0, <2>3, <2>4
<1>3. CASE StepEvent(t)
  <2>1. /\ tf' \in [Thread -> BOOLEAN] /\ int3' \in SUBSET Loc
        /\ step_over_bp' \in Slot \cup {None}
    <3>1. CASE ~TakeWatchpointHits(t) /\ should_keep_stepping(t)
      BY <1>3, <3>1, ArmTyped DEF StepEvent
    <3>2. CASE TakeWatchpointHits(t) \/ ~should_keep_stepping(t)
      BY <1>3, <3>2 DEF StepEvent
    <3> QED
      BY <3>1, <3>2
  <2>2. /\ step_target' \in {None, step_target} /\ WaitStep(t)
        /\ Stop(t, "continue") \/ Resume(t)
        /\ UNCHANGED <<rip, past, breakpoints, pending_breakpoint, finish_bp,
                       leak_hooks, allocations, leaks>>
    BY <1>3 DEF StepEvent
  <2> QED
    BY <1>0, <2>1, <2>2
<1>4. CASE Interrupted(t)
  BY <1>0, <1>4 DEF Interrupted, ForgetTemporaries
<1>5. CASE OtherException(t)
  BY <1>0, <1>5 DEF OtherException, ForgetTemporaries
<1>6. CASE OtherEvent(t)
  BY <1>6 DEF OtherEvent
<1> QED
  BY <1>1, <1>2, <1>3, <1>4, <1>5, <1>6

\* The head of continue_execution keeps the types of what it writes.
LEMMA ContinueTyped ==
  ASSUME TypeOK, continue_execution
  PROVE  /\ held' \subseteq Thread /\ mode' \in {"prompt", "loop"}
         /\ event' \in [Thread -> {"none", "bp", "step", "watch", "exception", "ctrlc",
                                   "notice"}]
         /\ pending_continue' = None
BY DEF TypeOK, continue_execution

\* The commands keep the types.
LEMMA UserTyped == ASSUME TypeOK, User PROVE TypeOK'
<1> USE Setting DEF Setting, temps, leaks, threadVars
<1>1. ASSUME NEW l \in Loc, set_breakpoint(l) PROVE TypeOK'
  <2>1. Read(int3, l) \in Byte /\ Plant(int3, l) \in SUBSET Loc
    BY CodeTyped DEF TypeOK
  <2>2. breakpoints' \in [Loc -> [byte : Byte, enabled : BOOLEAN] \cup {None}]
    BY <1>1, <2>1, EntryTyped DEF set_breakpoint
  <2> QED
    BY <1>1, <2>1, <2>2 DEF set_breakpoint, TypeOK
<1>2. ASSUME NEW l \in Loc, Delete(l) PROVE TypeOK'
  <2>1. int3' \in SUBSET Loc
    BY <1>2, CodeTyped DEF Delete, TypeOK
  <2> QED
    BY <1>2, <2>1 DEF Delete, TypeOK
<1>3. CASE Continue
  BY <1>3, ContinueTyped DEF Continue, TypeOK
<1>4. ASSUME NEW over \in BOOLEAN, start_step(over) PROVE TypeOK'
  <2>1. last_thread_id \in Thread /\ int3 \in SUBSET Loc
        /\ step_over_bp \in Slot \cup {None}
    BY DEF TypeOK
  <2>2. arm_step(last_thread_id, over, int3, step_over_bp) /\ continue_execution
    BY <1>4 DEF start_step
  <2>3. /\ tf' \in [Thread -> BOOLEAN] /\ int3' \in SUBSET Loc
        /\ step_over_bp' \in Slot \cup {None}
    BY <2>1, <2>2, ArmTyped
  <2>4. step_target' \in [over : BOOLEAN, start : LineOf] \cup {None}
    BY <1>4, <2>1 DEF start_step, LineOf, TypeOK
  <2> QED
    BY <1>4, <2>2, <2>3, <2>4, ContinueTyped DEF start_step, TypeOK
<1>5. ASSUME NEW a \in Addr, finish(a) PROVE TypeOK'
  <2> DEFINE l == <<ProcOf[last_thread_id], a>>
  <2>1. l \in Loc
    BY DEF TypeOK, Loc
  <2>2. Read(int3, l) \in Byte /\ Plant(int3, l) \in SUBSET Loc
    BY <2>1, CodeTyped DEF TypeOK
  <2>3. [addr |-> a, byte |-> Read(int3, l)] \in Slot
    BY <2>2 DEF Slot
  <2>4. \/ UNCHANGED <<int3, finish_bp>>
        \/ /\ finish_bp' = [addr |-> a, byte |-> Read(int3, l)]
           /\ int3' = Plant(int3, l)
    BY <1>5 DEF finish
  <2>5. /\ continue_execution
        /\ UNCHANGED <<threadVars, last_thread_id, breakpoints, pending_breakpoint,
                       step_target, step_over_bp, leak_hooks, allocations, leaks>>
    BY <1>5 DEF finish
  <2> QED
    BY <2>2, <2>3, <2>4, <2>5, ContinueTyped DEF TypeOK
<1>6. ASSUME NEW t \in Thread, switch_thread(t) PROVE TypeOK'
  BY <1>6 DEF switch_thread, TypeOK
<1>7. CASE start_leak_tracking
  <2>1. {Root} \X HookAddr \subseteq Loc
    BY DEF Loc
  <2>2. [a \in HookAddr |-> Read(int3, <<Root, a>>)] \in [HookAddr -> Byte \cup {None}]
    BY DEF Read, Byte
  <2>3. /\ leak_hooks' \in [HookAddr -> Byte \cup {None}]
        /\ int3' = int3 \cup ({Root} \X HookAddr)
    BY <1>7, <2>2 DEF start_leak_tracking
  <2> QED
    BY <1>7, <2>1, <2>3 DEF start_leak_tracking, TypeOK
<1>8. CASE stop_leak_tracking
  <2>1. Saved("int3") \subseteq Loc
    BY DEF Saved, Loc
  <2> QED
    BY <1>8, <2>1 DEF stop_leak_tracking, TypeOK
<1> QED
  BY <1>1, <1>2, <1>3, <1>4, <1>5, <1>6, <1>7, <1>8 DEF User

\* Every step keeps the types.
LEMMA StepTyped == TypeOK /\ [Next]_vars => TypeOK'
<1> SUFFICES ASSUME TypeOK, [Next]_vars PROVE TypeOK'
  OBVIOUS
<1>1. CASE User
  BY <1>1, UserTyped
<1>2. CASE CtrlC
  BY <1>2 DEF CtrlC, TypeOK, debuggerVars, threadVars, temps, leaks
<1>3. ASSUME NEW t \in Thread, Debuggee(t) PROVE TypeOK'
  BY <1>3, DebuggeeTyped
<1>4. ASSUME NEW t \in Thread, Handle(t) PROVE TypeOK'
  BY <1>4, BreakpointsTyped, OthersTyped DEF Handle
<1>5. CASE UNCHANGED vars
  BY <1>5 DEF vars, TypeOK, threadVars, temps, leaks
<1> QED
  BY <1>1, <1>2, <1>3, <1>4, <1>5 DEF Next

\* The code bytes, the threads and every slot of the Debugger struct are well
\* typed in every reachable state.
THEOREM TypeCorrect == Spec => []TypeOK
<1>1. Init => TypeOK
  BY InitTyped
<1>2. TypeOK /\ [Next]_vars => TypeOK'
  BY StepTyped
<1> QED
  BY <1>1, <1>2, PTL DEF Spec

-----------------------------------------------------------------------------
(* How a handler ends.                                                     *)

\* An event that the loop answers with DBG_CONTINUE, now or through
\* pending_continue, leaves no thread behind an INT3 it has not rewound.
Answered(t) ==
  \/ Resume(t) /\ (event[t] = "bp" => ~past'[t])
  \/ Stop(t, "continue") /\ (event[t] = "bp" => ~past'[t])
  \/ Stop(t, "not_handled")
  \/ Propagate(t) /\ t \in Denied

\* Every handler of every event ends in one of those four ways, and moves no
\* thread but its own.
LEMMA HandlerEnds ==
  ASSUME TypeOK, NEW t \in Thread, Handle(t)
  PROVE  /\ mode = "loop" /\ event[t] # "none"
         /\ \A u \in Thread \ {t} : past'[u] = past[u]
         /\ Answered(t)
<1> USE DEF TypeOK, Wait, SetRip, temps, leaks, threadVars, Answered
<1>1. CASE LeakReturn(t)
  BY <1>1 DEF LeakReturn
<1>2. CASE LeakHook(t)
  BY <1>2 DEF LeakHook
<1>3. CASE FinishHit(t)
  BY <1>3 DEF FinishHit
<1>4. CASE StepOverHit(t)
  BY <1>4 DEF StepOverHit
<1>5. CASE BreakpointHit(t)
  BY <1>5 DEF BreakpointHit, StepOff
<1>6. CASE LeakRearm(t)
  BY <1>6 DEF LeakRearm, WaitStep
<1>7. CASE BreakpointRearm(t)
  BY <1>7 DEF BreakpointRearm, WaitStep
<1>8. CASE StepEvent(t)
  BY <1>8 DEF StepEvent, WaitStep
<1>9. CASE Interrupted(t)
  BY <1>9 DEF Interrupted
<1>10. CASE OtherException(t)
  BY <1>10 DEF OtherException
<1>11. CASE OtherEvent(t)
  BY <1>11 DEF OtherEvent
<1> QED
  BY <1>1, <1>2, <1>3, <1>4, <1>5, <1>6, <1>7, <1>8, <1>9, <1>10, <1>11 DEF Handle

\* The debuggee raises events only on threads that had none, and the debugger's
\* own state is none of its business.
LEMMA DebuggeeRaises ==
  ASSUME TypeOK, NEW t \in Thread, Debuggee(t) \/ (CtrlC /\ t = CtrlHandler)
  PROVE  /\ event[t] = "none"
         /\ \A u \in Thread \ {t} : event'[u] = event[u] /\ past'[u] = past[u]
         /\ UNCHANGED <<held, mode, pending_continue>>
BY DEF TypeOK, Debuggee, HitInt3, Execute, Fault, Notify, CtrlC, Runnable,
       debuggerVars, threadVars

\* A command leaves threads and replies alone, or resumes the debuggee.
LEMMA CommandEnds ==
  ASSUME User
  PROVE  /\ mode = "prompt"
         /\ UNCHANGED past
         /\ continue_execution \/ UNCHANGED <<event, held, mode, pending_continue>>
BY DEF User, set_breakpoint, Delete, Continue, start_step, finish, switch_thread,
       start_leak_tracking, stop_leak_tracking, Command, threadVars

-----------------------------------------------------------------------------
(* No instruction is skipped.                                              *)

\* The strengthening NeverSkips needs: the reply the prompt has recorded is for
\* an event that is still open, and rewinds what it answers.
RewoundReply ==
  /\ mode = "loop" => pending_continue = None
  /\ pending_continue # None =>
       /\ event[pending_continue.tid] # "none"
       /\ pending_continue.status = "continue" /\ event[pending_continue.tid] = "bp"
            => ~past[pending_continue.tid]

\* Every step keeps the recorded reply honest.
LEMMA StepRewound == TypeOK /\ RewoundReply /\ [Next]_vars => RewoundReply'
<1> SUFFICES ASSUME TypeOK, RewoundReply, [Next]_vars PROVE RewoundReply'
  OBVIOUS
<1> USE DEF RewoundReply
<1>0. pending_continue # None => pending_continue \in [tid : Thread, status : Status]
  BY DEF TypeOK
<1>1. CASE User
  BY <1>1, CommandEnds DEF continue_execution
<1>2. ASSUME NEW t \in Thread, Debuggee(t) \/ (CtrlC /\ t = CtrlHandler) PROVE RewoundReply'
  <2>1. /\ event[t] = "none"
        /\ \A u \in Thread \ {t} : event'[u] = event[u] /\ past'[u] = past[u]
        /\ UNCHANGED <<held, mode, pending_continue>>
    BY <1>2, DebuggeeRaises
  <2> QED
    BY <1>0, <2>1
<1>3. ASSUME NEW t \in Thread, Handle(t) PROVE RewoundReply'
  <2>1. mode = "loop" /\ event[t] # "none" /\ Answered(t)
    BY <1>3, HandlerEnds
  <2>2. CASE Resume(t) \/ Propagate(t)
    BY <2>1, <2>2 DEF Resume, Propagate
  <2>3. CASE Stop(t, "continue") /\ (event[t] = "bp" => ~past'[t])
    BY <2>1, <2>3 DEF Stop
  <2>4. CASE Stop(t, "not_handled")
    BY <2>1, <2>4 DEF Stop
  <2> QED
    BY <2>1, <2>2, <2>3, <2>4 DEF Answered
<1>4. CASE UNCHANGED vars
  BY <1>4 DEF vars, threadVars
<1> QED
  BY <1>1, <1>2, <1>3, <1>4 DEF Next, CtrlC

\* A step that answers an INT3 either rewinds its thread or passes the exception
\* on to the program.
LEMMA StepNeverSkips ==
  TypeOK /\ RewoundReply /\ [Next]_vars =>
    \A t \in Thread :
      event[t] = "bp" /\ event'[t] = "none" =>
        \/ ~past'[t]
        \/ pending_continue = [tid |-> t, status |-> "not_handled"]
<1> SUFFICES ASSUME TypeOK, RewoundReply, [Next]_vars, NEW t \in Thread,
                    event[t] = "bp", event'[t] = "none"
             PROVE  \/ ~past'[t]
                    \/ pending_continue = [tid |-> t, status |-> "not_handled"]
  OBVIOUS
<1>1. CASE User
  <2>1. continue_execution /\ UNCHANGED past
    BY <1>1, CommandEnds
  <2>2. pending_continue # None /\ pending_continue.tid = t
    BY <2>1 DEF continue_execution, TypeOK
  <2>3. pending_continue \in [tid : Thread, status : Status]
    BY <2>2 DEF TypeOK
  <2> QED
    BY <2>1, <2>2, <2>3 DEF RewoundReply, Status
<1>2. ASSUME NEW u \in Thread, Debuggee(u) \/ (CtrlC /\ u = CtrlHandler) PROVE FALSE
  BY <1>2, DebuggeeRaises
<1>3. ASSUME NEW u \in Thread, Handle(u) PROVE ~past'[t]
  <2>1. event[u] # "none" /\ Answered(u)
    BY <1>3, HandlerEnds
  <2>2. u = t /\ Resume(t)
    BY <2>1 DEF Answered, Resume, Stop, Propagate, TypeOK
  <2> QED
    BY <2>1, <2>2 DEF Answered, Resume, Stop, Propagate, TypeOK
<1>4. CASE UNCHANGED vars
  BY <1>4 DEF vars
<1> QED
  BY <1>1, <1>2, <1>3, <1>4 DEF Next, CtrlC

\* Whatever the interleaving of threads, events and commands, and even with
\* threads that deny their context, the debugger never makes the program skip
\* the instruction under an INT3.
THEOREM InstructionsNeverSkipped == Spec => NeverSkips
<1>1. Init => RewoundReply
  BY DEF Init, RewoundReply
<1>2. TypeOK /\ RewoundReply /\ [Next]_vars => RewoundReply'
  BY StepRewound
<1>3. TypeOK /\ RewoundReply /\ [Next]_vars =>
        [\A t \in Thread :
           event[t] = "bp" /\ event'[t] = "none" =>
             \/ ~past'[t]
             \/ pending_continue = [tid |-> t, status |-> "not_handled"]]_vars
  BY StepNeverSkips
<1> QED
  BY <1>1, <1>2, <1>3, TypeCorrect, PTL DEF Spec, NeverSkips

-----------------------------------------------------------------------------
(* Every event is answered.                                                *)

\* The replies stay in balance across every step, if no thread denies its
\* context.
LEMMA StepOneReply ==
  ASSUME Denied = {}
  PROVE  TypeOK /\ OneReplyOwed /\ [Next]_vars => OneReplyOwed'
<1> SUFFICES ASSUME TypeOK, OneReplyOwed, [Next]_vars PROVE OneReplyOwed'
  OBVIOUS
<1> USE DEF OneReplyOwed
<1>0. pending_continue # None => pending_continue.tid \in Thread
  BY DEF TypeOK
<1>1. CASE User
  BY <1>1, CommandEnds DEF continue_execution
<1>2. ASSUME NEW t \in Thread, Debuggee(t) \/ (CtrlC /\ t = CtrlHandler) PROVE OneReplyOwed'
  <2>1. /\ event[t] = "none"
        /\ \A u \in Thread \ {t} : event'[u] = event[u]
        /\ UNCHANGED <<held, mode, pending_continue>>
    BY <1>2, DebuggeeRaises
  <2> QED
    BY <1>0, <2>1
<1>3. ASSUME NEW t \in Thread, Handle(t) PROVE OneReplyOwed'
  <2>1. mode = "loop" /\ event[t] # "none" /\ Answered(t)
    BY <1>3, HandlerEnds
  <2>2. CASE Resume(t)
    BY <2>1, <2>2 DEF Resume
  <2>3. ASSUME NEW status \in Status, Stop(t, status) PROVE OneReplyOwed'
    <3>1. /\ mode' = "prompt" /\ held' = {t} /\ event' = event
          /\ pending_continue' = [tid |-> t, status |-> status]
      BY <2>1, <2>3 DEF Stop
    <3>2. pending_continue' # None
      BY <3>1, Setting DEF Setting
    <3> QED
      BY <2>1, <3>1, <3>2
  <2> QED
    BY <2>1, <2>2, <2>3 DEF Answered, Status
<1>4. CASE UNCHANGED vars
  BY <1>4 DEF vars
<1> QED
  BY <1>1, <1>2, <1>3, <1>4 DEF Next, CtrlC

\* If every thread lets its context be read, the loop never waits with a reply
\* owed, and never comes back to the prompt owing more than the recorded one.
THEOREM RepliesBalance == ASSUME Denied = {} PROVE Spec => []OneReplyOwed
<1>1. Init => OneReplyOwed
  BY DEF Init, OneReplyOwed
<1>2. TypeOK /\ OneReplyOwed /\ [Next]_vars => OneReplyOwed'
  BY StepOneReply
<1> QED
  BY <1>1, <1>2, TypeCorrect, PTL DEF Spec

-----------------------------------------------------------------------------
(* One thread: a breakpoint that is hit is back before the prompt is.      *)

\* One thread that raises no exceptions while it steps, and no breakpoints on
\* the hooked entries.  Every command is allowed.
OneThread ==
  /\ Thread = {MainThread} /\ Denied = {}
  /\ {"exception", "ctrlc"} \cap Happenings = {}
  /\ Breakable \cap HookAddr = {}

SteppedOff == <<ProcOf[MainThread], pending_breakpoint>>

\* The thread is about to run the instruction that the breakpoint covered, and
\* to trap after it; or it has.
OnTheWay ==
  \/ /\ event[MainThread] \in {"none", "bp", "notice"}
     /\ tf[MainThread] /\ rip[MainThread] = pending_breakpoint
  \/ event[MainThread] \in {"step", "watch"}

\* While a breakpoint is stepped off the loop has control, and no other record
\* claims the events of the thread.
Pending ==
  pending_breakpoint # None =>
    /\ mode = "loop"
    /\ finish_bp = None /\ step_over_bp = None
    /\ pending_leak = None /\ pending_leak_rearm = None
    /\ breakpoints[SteppedOff] # None
    /\ OnTheWay

\* Breakpoints are where the user may set them, and enabled but for the one
\* that is stepped off.
Listed ==
  \A l \in Loc : breakpoints[l] # None =>
    /\ l[2] \in Breakable
    /\ ~breakpoints[l].enabled => pending_breakpoint # None /\ l = SteppedOff

StepOffInv == TypeOK /\ Pending /\ Listed

\* Commands are typed when nothing is pending, and leave it so.
LEMMA UserStepOff ==
  ASSUME OneThread, StepOffInv, User
  PROVE  (Pending /\ Listed)'
<1> USE DEF StepOffInv, Pending, Listed
<1>1. /\ mode = "prompt" /\ UNCHANGED pending_breakpoint
      /\ \/ UNCHANGED breakpoints
         \/ \E l \in Loc : set_breakpoint(l) \/ Delete(l)
  <2>1. CASE \E l \in Loc : set_breakpoint(l) \/ Delete(l)
    BY <2>1 DEF set_breakpoint, Delete, Command
  <2>2. CASE \E over \in BOOLEAN : start_step(over)
    BY <2>2 DEF start_step, Command
  <2>3. CASE \E a \in Addr : finish(a)
    BY <2>3 DEF finish, Command
  <2>4. CASE \E t \in Thread : switch_thread(t)
    BY <2>4 DEF switch_thread, Command
  <2>5. CASE Continue
    BY <2>5 DEF Continue, Command
  <2>6. CASE start_leak_tracking
    BY <2>6, Zenon DEF start_leak_tracking, Command
  <2>7. CASE stop_leak_tracking
    BY <2>7, Zenon DEF stop_leak_tracking, Command
  <2> QED
    BY <2>1, <2>2, <2>3, <2>4, <2>5, <2>6, <2>7 DEF User
<1>2. CASE UNCHANGED breakpoints
  BY <1>1, <1>2
<1>3. ASSUME NEW l \in Loc, set_breakpoint(l) PROVE Listed'
  <2>1. l[2] \in Breakable
    BY <1>3 DEF set_breakpoint, Targets
  <2>2. breakpoints' = [breakpoints EXCEPT ![l] = [byte |-> Read(int3, l), enabled |-> TRUE]]
    BY <1>3 DEF set_breakpoint
  <2> QED
    BY <1>1, <2>1, <2>2 DEF TypeOK
<1>4. ASSUME NEW l \in Loc, Delete(l) PROVE Listed'
  <2>1. breakpoints' = [breakpoints EXCEPT ![l] = None]
    BY <1>4 DEF Delete
  <2>2. \A m \in Loc : breakpoints'[m] # None => breakpoints'[m] = breakpoints[m]
    BY <2>1 DEF TypeOK
  <2> SUFFICES ASSUME NEW m \in Loc, breakpoints'[m] # None
               PROVE  m[2] \in Breakable /\ breakpoints'[m].enabled
    BY <1>1
  <2>3. breakpoints[m] # None /\ breakpoints'[m] = breakpoints[m]
    BY <2>2
  <2>4. m[2] \in Breakable /\ breakpoints[m].enabled
    BY <1>1, <2>3
  <2> QED
    BY <2>3, <2>4
<1> QED
  BY <1>1, <1>2, <1>3, <1>4

\* The thread runs one instruction and traps.
LEMMA DebuggeeStepOff ==
  ASSUME OneThread, StepOffInv, NEW t \in Thread, Debuggee(t)
  PROVE  (Pending /\ Listed)'
<1> USE DEF StepOffInv, Pending, Listed, debuggerVars, temps, leaks, SteppedOff
<1>1. t = MainThread
  BY DEF OneThread
<1>2. UNCHANGED debuggerVars
  BY DEF Debuggee, HitInt3, Execute, Fault, Notify
<1>3. pending_breakpoint # None /\ OnTheWay => OnTheWay'
  <2> SUFFICES ASSUME pending_breakpoint # None, OnTheWay PROVE OnTheWay'
    OBVIOUS
  <2>1. tf[t] /\ rip[t] = pending_breakpoint /\ event[t] = "none"
    BY <1>1 DEF OnTheWay, Debuggee, HitInt3, Execute, Fault, Notify, Runnable
  <2>2. CASE HitInt3(t)
    BY <1>1, <1>2, <2>1, <2>2 DEF HitInt3, OnTheWay, TypeOK
  <2>3. CASE Execute(t)
    BY <1>1, <1>2, <2>1, <2>3 DEF Execute, OnTheWay, TypeOK
  <2>4. CASE Notify(t)
    BY <1>1, <1>2, <2>1, <2>4 DEF Notify, OnTheWay, TypeOK, threadVars
  <2>5. ~Fault(t)
    BY DEF Fault, OneThread
  <2> QED
    BY <2>2, <2>3, <2>4, <2>5 DEF Debuggee
<1> QED
  BY <1>2, <1>3

\* Only the breakpoint's own handlers see the thread before its step is reaped.
LEMMA HandleStepOff ==
  ASSUME OneThread, StepOffInv, NEW t \in Thread, Handle(t)
  PROVE  (Pending /\ Listed)'
<1> USE DEF StepOffInv
<1>1. t = MainThread /\ t \notin Denied /\ MainThread \in Thread
  BY DEF OneThread
<1>2. Here(t) \in Loc /\ ProcOf[t] \in Process /\ rip[t] \in Addr
  BY HereTyped
<1>3. ASSUME pending_breakpoint # None, event[t] = "bp"
      PROVE  rip[t] = pending_breakpoint /\ Here(t) = SteppedOff /\ rip[t] \notin HookAddr
  BY <1>1, <1>2, <1>3 DEF Pending, OnTheWay, SteppedOff, Here, Listed, OneThread, Loc
<1>4. CASE UNCHANGED <<pending_breakpoint, breakpoints>> /\ pending_breakpoint = None
  BY <1>4 DEF Pending, Listed, SteppedOff
<1>5. CASE LeakReturn(t) \/ LeakHook(t) \/ FinishHit(t) \/ StepOverHit(t)
  <2>1. UNCHANGED <<pending_breakpoint, breakpoints>> /\ event[t] = "bp"
    BY <1>5 DEF LeakReturn, LeakHook, FinishHit, StepOverHit, Wait
  <2>2. pending_breakpoint = None
    BY <1>3, <1>5, <2>1 DEF Pending, LeakReturn, LeakHook, FinishHit, StepOverHit,
       IsLeakReturn, IsHook, IsFinish, IsStepOver
  <2> QED
    BY <1>4, <2>1, <2>2
<1>6. CASE BreakpointHit(t)
  <2>1. /\ mode' = "loop" /\ event' = [event EXCEPT ![t] = "none"]
        /\ tf' = [tf EXCEPT ![t] = TRUE] /\ rip' = rip
        /\ pending_breakpoint' = rip[t] /\ ForgetTemporaries
        /\ breakpoints[Here(t)] # None /\ event[t] = "bp"
        /\ breakpoints' = [breakpoints EXCEPT ![Here(t)].enabled = FALSE]
    BY <1>1, <1>6 DEF BreakpointHit, StepOff, Resume, SingleStep, Wait, IsUser
  <2>2. SteppedOff' = Here(t)
    BY <1>1, <2>1 DEF SteppedOff, Here
  <2>3. \A l \in Loc : /\ breakpoints'[l] # None => breakpoints[l] # None
                       /\ l # Here(t) => breakpoints'[l] = breakpoints[l]
    BY <1>2, <2>1 DEF TypeOK
  <2>4. breakpoints[Here(t)] \in [byte : Byte, enabled : BOOLEAN]
    BY <1>2, <2>1 DEF TypeOK
  <2>5. breakpoints'[Here(t)] # None
    BY <1>2, <2>1, <2>4, NoneApart DEF TypeOK, NoneApart
  <2>6. Pending'
    BY <1>1, <1>2, <2>1, <2>2, <2>5 DEF Pending, OnTheWay, ForgetTemporaries, TypeOK
  <2>7. pending_breakpoint' # None
    BY <1>2, <2>1, NoneApart DEF NoneApart
  <2>8. Listed'
    BY <1>2, <1>3, <2>1, <2>2, <2>3, <2>7 DEF Listed
  <2> QED
    BY <2>6, <2>8
<1>7. CASE LeakRearm(t)
  <2>1. UNCHANGED <<pending_breakpoint, breakpoints>> /\ pending_leak_rearm # None
    BY <1>7 DEF LeakRearm
  <2> QED
    BY <1>4, <2>1 DEF Pending
<1>8. CASE BreakpointRearm(t)
  <2>1. pending_breakpoint' = None /\ pending_breakpoint # None
    BY <1>8 DEF BreakpointRearm
  <2>2. breakpoints' = [breakpoints EXCEPT ![SteppedOff] = Rearmed(SteppedOff)]
    BY <1>1, <1>8, <2>1 DEF BreakpointRearm, Pending, SteppedOff
  <2>3. Rearmed(SteppedOff).enabled
    BY DEF Rearmed
  <2>4. Listed'
    BY <2>1, <2>2, <2>3 DEF Listed, TypeOK, Pending
  <2> QED
    BY <2>1, <2>4 DEF Pending
<1>9. CASE StepEvent(t)
  BY <1>4, <1>9 DEF StepEvent
<1>10. CASE Interrupted(t)
  BY <1>1, <1>4, <1>10 DEF Interrupted, Pending, OnTheWay
<1>11. CASE OtherException(t)
  <2>1. UNCHANGED <<pending_breakpoint, breakpoints>>
    BY <1>11 DEF OtherException
  <2>2. pending_breakpoint = None
    BY <1>1, <1>3, <1>11 DEF OtherException, Wait, IsUser, Pending, OnTheWay
  <2> QED
    BY <1>4, <2>1, <2>2
<1>12. CASE OtherEvent(t)
  <2>1. /\ UNCHANGED <<pending_breakpoint, breakpoints, rip, tf, mode, finish_bp, step_over_bp,
                      pending_leak, pending_leak_rearm>>
        /\ event[t] = "notice" /\ event' = [event EXCEPT ![t] = "none"]
    BY <1>12 DEF OtherEvent, Wait, Resume, threadVars, temps, leaks
  <2> QED
    BY <1>1, <2>1 DEF Pending, Listed, SteppedOff, OnTheWay, TypeOK
<1> QED
  BY <1>5, <1>6, <1>7, <1>8, <1>9, <1>10, <1>11, <1>12 DEF Handle

\* Stepping off a breakpoint is never interrupted by anything but the events
\* that the loop lets pass.
LEMMA StepOffInvariant == ASSUME OneThread PROVE Spec => []StepOffInv
<1>1. Init => StepOffInv
  BY InitTyped DEF Init, StepOffInv, Pending, Listed
<1>2. StepOffInv /\ [Next]_vars => StepOffInv'
  <2> SUFFICES ASSUME StepOffInv, [Next]_vars PROVE (Pending /\ Listed)'
    BY StepTyped DEF StepOffInv
  <2>1. CASE UNCHANGED vars
    BY <2>1 DEF vars, threadVars, temps, leaks, StepOffInv, Pending, Listed, SteppedOff, OnTheWay
  <2>2. ~CtrlC
    BY DEF CtrlC, OneThread
  <2> QED
    BY <2>1, <2>2, UserStepOff, DebuggeeStepOff, HandleStepOff DEF Next
<1> QED
  BY <1>1, <1>2, PTL DEF Spec

\* With one thread, no breakpoint is out of the code while the user is at the
\* prompt: continue_execution returns only after the step that put it back.
THEOREM ArmedAtEveryPrompt == ASSUME OneThread PROVE Spec => []ArmedAtPrompt
<1>1. StepOffInv => ArmedAtPrompt
  BY DEF StepOffInv, Pending, Listed, ArmedAtPrompt
<1> QED
  BY <1>1, StepOffInvariant, PTL

\* With one thread, the step event that puts a breakpoint back is never lost.
THEOREM RearmAlwaysComes == ASSUME OneThread PROVE Spec => []RearmIsComing
<1>1. StepOffInv => RearmIsComing
  BY DEF StepOffInv, Pending, OnTheWay, RearmIsComing, OneThread
<1> QED
  BY <1>1, StepOffInvariant, PTL

-----------------------------------------------------------------------------
(* Any threads: the breakpoint table and the code agree.                   *)

\* A session with breakpoints and single steps only, on one process.  Any
\* threads, any events, any contexts denied.
Plain ==
  /\ Process = {Root}
  /\ Commands \subseteq {"break", "continue", "step", "thread"}
  /\ Breakable \cap OwnInt3 = {}

\* No temporary INT3 is ever planted.
Idle ==
  /\ finish_bp = None /\ step_over_bp = None
  /\ pending_leak = None /\ pending_leak_rearm = None
  /\ \A a \in HookAddr : leak_hooks[a] = None
  /\ step_target # None => ~step_target.over

\* An entry holds the program's byte, and its flag says what the code holds.
Entries ==
  \A l \in Loc : breakpoints[l] # None =>
    /\ l[2] \notin OwnInt3 /\ breakpoints[l].byte = "insn"
    /\ breakpoints[l].enabled <=> l \in int3

\* Every INT3, in the code or already raised, has an owner, who never goes, and
\* the program keeps its own.
OwnPlanted == Process \X OwnInt3 \subseteq int3
Owned(l) == l[2] \in OwnInt3 \/ breakpoints[l] # None
AllOwned ==
  /\ OwnPlanted
  /\ \A l \in int3 : Owned(l)
  /\ \A t \in Thread : event[t] = "bp" => Owned(Here(t))

\* The breakpoint stepped off is out of the code, so what its re-arm saves is
\* the program's byte.
StepsOffEntry ==
  pending_breakpoint # None =>
    LET l == <<Root, pending_breakpoint>>
    IN  breakpoints[l] # None /\ ~breakpoints[l].enabled

PlainInv == Idle /\ Entries /\ AllOwned /\ StepsOffEntry /\ NoStrayInt3

\* Replacing one entry changes that entry only.
LEMMA EntryChanged ==
  ASSUME TypeOK, NEW l \in Loc, NEW on \in BOOLEAN,
         breakpoints' = [breakpoints EXCEPT ![l] = [byte |-> "insn", enabled |-> on]]
  PROVE  /\ breakpoints'[l] # None
         /\ breakpoints'[l].byte = "insn" /\ breakpoints'[l].enabled = on
         /\ \A m \in Loc : m # l => breakpoints'[m] = breakpoints[m]
<1>1. breakpoints'[l] = [byte |-> "insn", enabled |-> on]
  BY DEF TypeOK
<1>2. [byte |-> "insn", enabled |-> on] \in [byte : Byte, enabled : BOOLEAN]
  BY DEF Byte
<1>3. \A m \in Loc : m # l => breakpoints'[m] = breakpoints[m]
  BY DEF TypeOK
<1> QED
  BY <1>1, <1>2, <1>3, NoneApart DEF NoneApart

\* The commands of a plain session.
LEMMA UserPlain ==
  ASSUME Plain, TypeOK, RewoundReply, PlainInv, User PROVE PlainInv'
<1>1. ASSUME UNCHANGED <<int3, rip, breakpoints, pending_breakpoint, finish_bp, step_over_bp,
                         pending_leak, pending_leak_rearm, leak_hooks>>,
             step_target' # None => ~step_target'.over,
             \A t \in Thread : event'[t] \in {event[t], "none"},
             mode' = "loop" \/ UNCHANGED <<mode, event, pending_continue>>
      PROVE  PlainInv'
  <2>1. Idle' /\ Entries' /\ StepsOffEntry'
    BY <1>1 DEF PlainInv, Idle, Entries, StepsOffEntry
  <2>2. AllOwned'
    BY <1>1 DEF PlainInv, AllOwned, OwnPlanted, Owned, Here
  <2>3. NoStrayInt3'
    BY <1>1 DEF PlainInv, NoStrayInt3
  <2> QED
    BY <2>1, <2>2, <2>3 DEF PlainInv
<1>2. continue_execution =>
        mode' = "loop" /\ \A t \in Thread : event'[t] \in {event[t], "none"}
  BY DEF continue_execution, TypeOK
<1>3. CASE Continue
  BY <1>1, <1>2, <1>3 DEF Continue, PlainInv, Idle, threadVars, temps, leaks
<1>4. CASE \E t \in Thread : switch_thread(t)
  BY <1>1, <1>4 DEF switch_thread, PlainInv, Idle, threadVars, temps, leaks
<1>5. ASSUME NEW over \in BOOLEAN, start_step(over) PROVE PlainInv'
  <2>1. ~over
    BY <1>5 DEF start_step, Command, Plain
  <2>2. int3' = int3 /\ step_over_bp' = step_over_bp
    BY <1>5, <2>1 DEF start_step, arm_step
  <2>3. step_target' # None => ~step_target'.over
    BY <1>5, <2>1 DEF start_step
  <2> QED
    BY <1>1, <1>2, <1>5, <2>2, <2>3 DEF start_step, leaks
<1>6. ASSUME NEW l \in Loc, set_breakpoint(l) PROVE PlainInv'
  <2>1. breakpoints[l] = None /\ l[2] \in Breakable
    BY <1>6 DEF set_breakpoint, Plain, Targets
  <2>2. l \notin int3 /\ l[2] \notin OwnInt3
    BY <2>1 DEF PlainInv, AllOwned, OwnPlanted, Owned, Plain
  <2>3. /\ breakpoints' = [breakpoints EXCEPT ![l] = [byte |-> "insn", enabled |-> TRUE]]
        /\ int3' = int3 \cup {l}
    BY <1>6, <2>2 DEF set_breakpoint, Read, Plant
  <2>4. /\ breakpoints'[l] # None
        /\ breakpoints'[l].byte = "insn" /\ breakpoints'[l].enabled = TRUE
        /\ \A m \in Loc : m # l => breakpoints'[m] = breakpoints[m]
    BY <2>3, EntryChanged
  <2>5. Entries'
    BY <2>2, <2>3, <2>4 DEF PlainInv, Entries
  <2>6. AllOwned'
    <3>1. \A m \in Loc : Owned(m) => Owned(m)'
      BY <2>4 DEF Owned
    <3>2. Owned(l)'
      BY <2>4 DEF Owned
    <3>3. UNCHANGED event /\ \A u \in Thread : Here(u) \in Loc /\ Here(u)' = Here(u)
      BY <1>6, HereTyped DEF set_breakpoint, threadVars, Here
    <3> QED
      BY <2>3, <3>1, <3>2, <3>3 DEF PlainInv, AllOwned, OwnPlanted, TypeOK
  <2>7. StepsOffEntry'
    <3> SUFFICES ASSUME pending_breakpoint # None
                 PROVE  LET m == <<Root, pending_breakpoint>>
                        IN  breakpoints'[m] # None /\ ~breakpoints'[m].enabled
      BY <1>6 DEF set_breakpoint, StepsOffEntry
    <3>1. <<Root, pending_breakpoint>> \in Loc
      BY Setting DEF Setting, TypeOK, Loc
    <3> QED
      BY <2>1, <2>4, <3>1 DEF PlainInv, StepsOffEntry
  <2>8. Idle' /\ NoStrayInt3'
    BY <1>6 DEF PlainInv, Idle, NoStrayInt3, set_breakpoint, threadVars, temps, leaks
  <2> QED
    BY <2>5, <2>6, <2>7, <2>8 DEF PlainInv
<1>7. /\ \A l \in Loc : ~Delete(l)
      /\ \A a \in Addr : ~finish(a)
      /\ ~start_leak_tracking /\ ~stop_leak_tracking
  <2>1. ~Command("delete") /\ ~Command("up") /\ ~Command("leak start") /\ ~Command("leak stop")
    <3>1. /\ "delete" \notin Commands /\ "up" \notin Commands
          /\ "leak start" \notin Commands /\ "leak stop" \notin Commands
      BY Zenon DEF Plain
    <3> QED
      BY <3>1, Zenon DEF Command
  <2> QED
    BY <2>1, Zenon DEF Delete, finish, start_leak_tracking, stop_leak_tracking
<1> QED
  BY <1>3, <1>4, <1>5, <1>6, <1>7 DEF User

\* The threads of the debuggee; an INT3 they raise is owned.
LEMMA DebuggeePlain ==
  ASSUME Plain, TypeOK, RewoundReply, PlainInv, NEW t \in Thread, Debuggee(t)
  PROVE  PlainInv'
<1>1. UNCHANGED <<debuggerVars, int3>> /\ event[t] = "none"
  BY DEF Debuggee, HitInt3, Execute, Fault, Notify, Runnable
<1>2. /\ \A u \in Thread : u # t => event'[u] = event[u] /\ rip'[u] = rip[u]
      /\ event'[t] = "bp" => Here(t) \in int3 /\ rip' = rip
  BY DEF Debuggee, HitInt3, Execute, Fault, Notify, TypeOK, threadVars
<1>3. Idle' /\ Entries' /\ StepsOffEntry'
  BY <1>1 DEF PlainInv, Idle, Entries, StepsOffEntry, debuggerVars, temps, leaks
<1>4. AllOwned'
  BY <1>1, <1>2 DEF PlainInv, AllOwned, OwnPlanted, Owned, Here, debuggerVars
<1>5. NoStrayInt3'
  <2>1. pending_continue # None => pending_continue.tid # t /\ pending_continue.tid \in Thread
    BY <1>1 DEF RewoundReply, TypeOK
  <2> QED
    BY <1>1, <1>2, <2>1 DEF PlainInv, NoStrayInt3, debuggerVars
<1> QED
  BY <1>3, <1>4, <1>5 DEF PlainInv

\* The handlers: only the breakpoints' own two touch the code.
LEMMA HandlePlain ==
  ASSUME Plain, TypeOK, RewoundReply, PlainInv, NEW t \in Thread, Handle(t)
  PROVE  PlainInv'
<1>1. Here(t) \in Loc /\ ProcOf[t] = Root /\ Here(t) = <<Root, rip[t]>> /\ rip[t] \in Addr
  BY HereTyped DEF Plain, Here
<1>2. mode = "loop" /\ pending_continue = None /\ event[t] # "none"
  BY HandlerEnds DEF RewoundReply
<1>3. ~LeakReturn(t) /\ ~LeakHook(t) /\ ~FinishHit(t) /\ ~StepOverHit(t) /\ ~LeakRearm(t)
  BY DEF LeakReturn, LeakHook, FinishHit, StepOverHit, LeakRearm, IsLeakReturn, IsHook,
     IsFinish, IsStepOver, PlainInv, Idle
<1>4. \A u \in Thread : event'[u] = "bp" => event[u] = "bp"
  BY HandlerEnds DEF Answered, Stop, Resume, Propagate, TypeOK
<1>5. NoStrayInt3'
  <2>1. CASE Stop(t, "not_handled")
    <3>1. CASE event[t] # "bp"
      BY <2>1, <3>1 DEF Stop, NoStrayInt3
    <3>2. CASE event[t] = "bp"
      <4>1. \/ OtherException(t) /\ ~IsUser(t)
            \/ BreakpointHit(t)
        BY <1>3, <3>2 DEF Handle, BreakpointRearm, StepEvent, Interrupted, OtherException,
           OtherEvent, WaitStep, Wait
      <4>2. ~BreakpointHit(t)
        BY <1>2, <2>1, Setting DEF BreakpointHit, StepOff, Stop, Resume, Propagate, Setting, Status
      <4>3. rip[t] \in OwnInt3 /\ rip' = rip
        BY <1>1, <3>2, <4>1, <4>2
           DEF IsUser, PlainInv, AllOwned, OwnPlanted, Owned, OtherException, threadVars
      <4> QED
        BY <2>1, <4>3 DEF Stop, NoStrayInt3
    <3> QED
      BY <3>1, <3>2
  <2>2. CASE Stop(t, "continue")
    BY <2>2 DEF Stop, NoStrayInt3
  <2>3. CASE Resume(t) \/ Propagate(t)
    BY <1>2, <2>3 DEF Resume, Propagate, NoStrayInt3
  <2> QED
    BY <2>1, <2>2, <2>3, HandlerEnds DEF Answered
<1>6. ASSUME UNCHANGED <<rip, int3, breakpoints, pending_breakpoint>>, Idle' PROVE PlainInv'
  BY <1>4, <1>5, <1>6 DEF PlainInv, Entries, AllOwned, OwnPlanted, Owned, Here, StepsOffEntry
<1>7. CASE StepEvent(t)
  <2>1. step_target # None => ~step_target.over
    BY DEF PlainInv, Idle
  <2>2. Idle' /\ int3' = int3
    <3>1. CASE should_keep_stepping(t) /\ ~TakeWatchpointHits(t)
      BY <1>7, <2>1, <3>1 DEF StepEvent, should_keep_stepping, arm_step, PlainInv, Idle, leaks
    <3>2. CASE ~(should_keep_stepping(t) /\ ~TakeWatchpointHits(t))
      BY <1>7, <3>2 DEF StepEvent, PlainInv, Idle, leaks
    <3> QED
      BY <3>1, <3>2
  <2> QED
    BY <1>6, <1>7, <2>2 DEF StepEvent
<1>8. CASE Interrupted(t)
  BY <1>6, <1>8 DEF Interrupted, ForgetTemporaries, PlainInv, Idle, threadVars
<1>9. CASE OtherException(t)
  BY <1>6, <1>9 DEF OtherException, ForgetTemporaries, PlainInv, Idle, threadVars
<1>10. CASE OtherEvent(t)
  BY <1>6, <1>10 DEF OtherEvent, PlainInv, Idle, threadVars, temps, leaks
<1>11. CASE BreakpointHit(t)
  <2>0. PICK l \in Loc : l = Here(t)
    BY <1>1
  <2>1. breakpoints[l] # None /\ l[2] \notin OwnInt3 /\ breakpoints[l].byte = "insn"
    BY <1>11, <2>0 DEF BreakpointHit, IsUser, PlainInv, Entries
  <2>2. /\ breakpoints' = [breakpoints EXCEPT ![l].enabled = FALSE]
        /\ int3' = int3 \ {l} /\ rip' = rip
    BY <1>11, <2>1, <2>0 DEF BreakpointHit, Write
  <2>4. /\ breakpoints'[l] # None
        /\ breakpoints'[l].byte = "insn" /\ breakpoints'[l].enabled = FALSE
        /\ \A m \in Loc : m # l => breakpoints'[m] = breakpoints[m]
    <3>1. breakpoints[l] \in [byte : Byte, enabled : BOOLEAN]
      BY <2>1 DEF TypeOK
    <3>2. /\ breakpoints'[l] = [breakpoints[l] EXCEPT !.enabled = FALSE]
          /\ \A m \in Loc : m # l => breakpoints'[m] = breakpoints[m]
      BY <2>2 DEF TypeOK
    <3>3. breakpoints'[l] \in [byte : Byte, enabled : BOOLEAN]
      BY <3>1, <3>2
    <3> QED
      BY <2>1, <3>1, <3>2, <3>3, NoneApart DEF NoneApart
  <2>5. Entries'
    BY <2>1, <2>2, <2>4 DEF PlainInv, Entries
  <2>6. AllOwned'
    <3>1. \A m \in Loc : Owned(m) => Owned(m)'
      BY <2>4 DEF Owned
    <3>2. \A u \in Thread : Here(u) \in Loc /\ Here(u)' = Here(u)
      BY <2>2, HereTyped DEF Here
    <3> QED
      BY <1>4, <2>1, <2>2, <3>1, <3>2 DEF PlainInv, AllOwned, OwnPlanted, TypeOK
  <2>7. StepsOffEntry'
    <3>1. pending_breakpoint' = rip[t] \/ pending_breakpoint' = pending_breakpoint
      BY <1>11 DEF BreakpointHit, StepOff
    <3>2. CASE pending_breakpoint' = rip[t]
      BY <1>1, <2>0, <2>4, <3>2 DEF StepsOffEntry
    <3>3. CASE pending_breakpoint' = pending_breakpoint
      <4>1. pending_breakpoint # None => <<Root, pending_breakpoint>> \in Loc
        BY Setting DEF Setting, TypeOK, Loc
      <4> QED
        BY <2>4, <3>3, <4>1 DEF PlainInv, StepsOffEntry
    <3> QED
      BY <3>1, <3>2, <3>3
  <2>8. Idle'
    BY <1>11 DEF BreakpointHit, ForgetTemporaries, PlainInv, Idle
  <2> QED
    BY <1>5, <2>5, <2>6, <2>7, <2>8 DEF PlainInv
<1>12. CASE BreakpointRearm(t)
  <2>1. pending_breakpoint # None /\ pending_breakpoint' = None /\ rip' = rip
    BY <1>12 DEF BreakpointRearm, threadVars
  <2>2. PICK l \in Loc : l = <<Root, pending_breakpoint>>
    BY <2>1, Setting DEF Setting, TypeOK, Loc
  <2>3. breakpoints[l] # None /\ l \notin int3 /\ l[2] \notin OwnInt3
    BY <2>1, <2>2 DEF PlainInv, StepsOffEntry, Entries
  <2>4. /\ breakpoints' = [breakpoints EXCEPT ![l] = [byte |-> "insn", enabled |-> TRUE]]
        /\ int3' = int3 \cup {l}
    BY <1>1, <1>12, <2>2, <2>3 DEF BreakpointRearm, Rearmed, Read, Plant
  <2>5. /\ breakpoints'[l] # None
        /\ breakpoints'[l].byte = "insn" /\ breakpoints'[l].enabled = TRUE
        /\ \A m \in Loc : m # l => breakpoints'[m] = breakpoints[m]
    BY <2>4, EntryChanged
  <2>6. Entries'
    BY <2>3, <2>4, <2>5 DEF PlainInv, Entries
  <2>7. AllOwned'
    <3>1. \A m \in Loc : Owned(m) => Owned(m)'
      BY <2>5 DEF Owned
    <3>2. \A u \in Thread : Here(u) \in Loc /\ Here(u)' = Here(u)
      BY <2>1, HereTyped DEF Here
    <3>3. Owned(l)'
      BY <2>5 DEF Owned
    <3> QED
      BY <1>4, <2>4, <3>1, <3>2, <3>3 DEF PlainInv, AllOwned, OwnPlanted, TypeOK
  <2>8. Idle' /\ StepsOffEntry'
    BY <1>12, <2>1 DEF BreakpointRearm, StepsOffEntry, PlainInv, Idle, leaks
  <2> QED
    BY <1>5, <2>6, <2>7, <2>8 DEF PlainInv
<1> QED
  BY <1>3, <1>7, <1>8, <1>9, <1>10, <1>11, <1>12 DEF Handle

\* In a plain session the table, the code and the events raised always agree.
LEMMA PlainInvariant == ASSUME Plain PROVE Spec => [](TypeOK /\ PlainInv)
<1>1. Init => TypeOK /\ RewoundReply /\ PlainInv
  <2>1. Init => RewoundReply
    BY DEF Init, RewoundReply
  <2>2. Init => PlainInv
    BY DEF Init, PlainInv, Idle, Entries, AllOwned, OwnPlanted, Owned, StepsOffEntry,
       NoStrayInt3, Loc
  <2> QED
    BY <2>1, <2>2, InitTyped
<1>2. TypeOK /\ RewoundReply /\ PlainInv /\ [Next]_vars => (TypeOK /\ RewoundReply /\ PlainInv)'
  <2> SUFFICES ASSUME TypeOK, RewoundReply, PlainInv, [Next]_vars PROVE PlainInv'
    BY StepTyped, StepRewound
  <2>1. CASE UNCHANGED vars
    BY <2>1 DEF vars, threadVars, temps, leaks, PlainInv, Idle, Entries, AllOwned, OwnPlanted,
       Owned, Here, StepsOffEntry, NoStrayInt3
  <2>2. CASE CtrlC
    <3>1. /\ UNCHANGED <<int3, threadVars, debuggerVars>> /\ mode = "loop"
          /\ \A t \in Thread : event'[t] = "bp" => event[t] = "bp"
      BY <2>2 DEF CtrlC, TypeOK
    <3> QED
      BY <3>1 DEF threadVars, debuggerVars, temps, leaks, PlainInv, Idle, Entries, AllOwned,
         OwnPlanted, Owned, Here, StepsOffEntry, NoStrayInt3
  <2> QED
    BY <2>1, <2>2, UserPlain, DebuggeePlain, HandlePlain DEF Next
<1> QED
  BY <1>1, <1>2, PTL DEF Spec

\* The enabled flag a plain session lists tells whether the INT3 is in the code,
\* whatever the threads' hits and steps do to each other.
THEOREM FlagsTruthful == ASSUME Plain PROVE Spec => []EnabledIffPlanted
<1>1. PlainInv => EnabledIffPlanted
  BY DEF PlainInv, Entries, EnabledIffPlanted
<1> QED
  BY <1>1, PlainInvariant, PTL

\* The debugger never hands a plain session's program an exception of its own
\* making.
THEOREM NoneStray == ASSUME Plain PROVE Spec => []NoStrayInt3
<1>1. PlainInv => NoStrayInt3
  BY DEF PlainInv
<1> QED
  BY <1>1, PlainInvariant, PTL

\* The program's byte under every INT3 of a plain session is on record.
THEOREM OriginalsOnRecord == ASSUME Plain PROVE Spec => []OriginalKept
<1>1. TypeOK /\ PlainInv => OriginalKept
  BY DEF PlainInv, Entries, AllOwned, OwnPlanted, Owned, OriginalKept, TypeOK
<1> QED
  BY <1>1, PlainInvariant, PTL

-----------------------------------------------------------------------------
(* The program runs as it does alone.                                      *)

\* What has to be known of a session: no INT3 the debugger planted is taken for
\* the program's, and none of the program's is taken out.
Tame == TypeOK /\ NoStrayInt3 /\ OwnPlanted

\* What then follows: a thread is left behind an INT3 only by the program's own.
BehindOwn == \A t \in Trapped : rip[t] \in OwnInt3
AloneInv == RewoundReply /\ BehindOwn

programVars == <<rip, Trapped>>

\* No command moves a thread.
LEMMA CommandsStay == ASSUME User PROVE UNCHANGED <<rip, past>>
<1>1. CASE \E l \in Loc : set_breakpoint(l) \/ Delete(l)
  BY <1>1 DEF set_breakpoint, Delete, threadVars
<1>2. CASE Continue \/ (\E over \in BOOLEAN : start_step(over)) \/ \E a \in Addr : finish(a)
  BY <1>2 DEF Continue, start_step, finish, threadVars
<1>3. CASE \E t \in Thread : switch_thread(t)
  BY <1>3 DEF switch_thread, threadVars
<1>4. CASE start_leak_tracking \/ stop_leak_tracking
  BY <1>4, Zenon DEF start_leak_tracking, stop_leak_tracking, threadVars
<1> QED
  BY <1>1, <1>2, <1>3, <1>4 DEF User

\* Nor does a handler, but for rewinding it over the INT3 it has hit.
LEMMA HandlersStay ==
  ASSUME NEW t \in Thread, Handle(t)
  PROVE  UNCHANGED rip /\ (event[t] # "bp" => UNCHANGED past)
<1> USE DEF Wait, threadVars
<1>1. CASE LeakReturn(t) \/ LeakHook(t) \/ FinishHit(t) \/ StepOverHit(t) \/ BreakpointHit(t)
  BY <1>1 DEF LeakReturn, LeakHook, FinishHit, StepOverHit, BreakpointHit
<1>2. CASE LeakRearm(t) \/ BreakpointRearm(t) \/ StepEvent(t)
  BY <1>2 DEF LeakRearm, BreakpointRearm, StepEvent
<1>3. CASE Interrupted(t) \/ OtherException(t) \/ OtherEvent(t)
  BY <1>3 DEF Interrupted, OtherException, OtherEvent
<1> QED
  BY <1>1, <1>2, <1>3 DEF Handle

\* A reply to an INT3 the debugger does not claim is the end of the program's
\* own trap; any other command is nothing to the program.
LEMMA UserAlone ==
  ASSUME Tame, AloneInv, User
  PROVE  (\E t \in Thread : Bare!Trap(t)) \/ UNCHANGED programVars
<1>1. UNCHANGED <<rip, past>> /\ mode = "prompt"
  BY CommandsStay, CommandEnds
<1>2. CASE UNCHANGED event
  BY <1>1, <1>2 DEF programVars, Trapped
<1>3. CASE continue_execution /\ pending_continue # None
  <2> DEFINE t == pending_continue.tid
  <2>1. t \in Thread /\ pending_continue.status \in Status
    BY <1>3 DEF Tame, TypeOK
  <2>2. event' = [event EXCEPT ![t] = "none"]
    BY <1>3 DEF continue_execution
  <2>3. CASE event[t] = "bp" /\ past[t]
    <3>1. pending_continue.status = "not_handled"
      BY <1>3, <2>1, <2>3 DEF AloneInv, RewoundReply, Status
    <3>2. rip[t] \in OwnInt3
      BY <1>1, <1>3, <2>3, <3>1 DEF Tame, NoStrayInt3
    <3>3. t \notin Trapped /\ Trapped' = Trapped \cup {t}
      BY <1>1, <2>1, <2>2, <2>3 DEF Trapped, Tame, TypeOK
    <3> QED
      BY <1>1, <2>1, <3>2, <3>3 DEF Bare!Trap
  <2>4. CASE ~(event[t] = "bp" /\ past[t])
    <3>1. Trapped' = Trapped
      BY <1>1, <2>1, <2>2, <2>4 DEF Trapped, Tame, TypeOK
    <3> QED
      BY <1>1, <3>1 DEF programVars
  <2> QED
    BY <2>3, <2>4
<1> QED
  BY <1>2, <1>3, CommandEnds DEF continue_execution

\* The debuggee executes its instructions, and its INT3s only after their trap.
LEMMA DebuggeeAlone ==
  ASSUME Tame, AloneInv, NEW t \in Thread, Debuggee(t) \/ (CtrlC /\ t = CtrlHandler)
  PROVE  Bare!Run(t) \/ UNCHANGED programVars
<1>1. CASE Execute(t)
  <2>1. PICK next \in Flow[rip[t]] :
          /\ rip' = [rip EXCEPT ![t] = next]
          /\ \A u \in Thread \ {t} : event'[u] = event[u]
    BY <1>1 DEF Execute, Tame, TypeOK
  <2>2. past' = [past EXCEPT ![t] = FALSE] /\ event[t] = "none"
    BY <1>1 DEF Execute, Runnable
  <2>3. Trapped' = Trapped \ {t}
    BY <2>1, <2>2 DEF Trapped, Tame, TypeOK
  <2>4. rip[t] \in OwnInt3 <=> t \in Trapped
    <3>1. rip[t] \in OwnInt3 => Here(t) \in int3
      BY Setting DEF Setting, Here, Tame, OwnPlanted
    <3> QED
      BY <1>1, <2>2, <3>1 DEF Execute, Trapped, AloneInv, BehindOwn
  <2> QED
    BY <2>1, <2>3, <2>4 DEF Bare!Run
<1>2. CASE ~Execute(t)
  <2>1. rip' = rip /\ Trapped' = Trapped
    BY <1>2 DEF Debuggee, HitInt3, Fault, Notify, CtrlC, threadVars, Runnable, Trapped, Tame, TypeOK
  <2> QED
    BY <2>1 DEF programVars
<1> QED
  BY <1>1, <1>2

\* What the event loop does in between, the program does not notice.
LEMMA HandleAlone ==
  ASSUME Tame, NEW t \in Thread, Handle(t)
  PROVE  UNCHANGED programVars
<1>1. UNCHANGED rip /\ (event[t] # "bp" => UNCHANGED past)
  BY HandlersStay
<1>2. \A u \in Thread \ {t} : past'[u] = past[u] /\ event'[u] = event[u]
  BY HandlerEnds DEF Tame, Answered, Resume, Stop, Propagate, TypeOK
<1>3. t \in Trapped' <=> t \in Trapped
  BY <1>1, HandlerEnds DEF Tame, Answered, Resume, Stop, Propagate, TypeOK, Trapped
<1> QED
  BY <1>1, <1>2, <1>3 DEF programVars, Trapped

\* Each step of a tame session is one of the program's, or none.
LEMMA StepAlone ==
  Tame /\ AloneInv /\ [Next]_vars => AloneInv' /\ [Bare!Next]_programVars
<1> SUFFICES ASSUME Tame, AloneInv, [Next]_vars PROVE AloneInv' /\ [Bare!Next]_programVars
  OBVIOUS
<1>1. [Bare!Next]_programVars
  <2>1. CASE UNCHANGED vars
    BY <2>1 DEF vars, threadVars, programVars, Trapped
  <2> QED
    BY <2>1, UserAlone, DebuggeeAlone, HandleAlone DEF Next, CtrlC, Bare!Next
<1>2. BehindOwn'
  <2>1. CASE UNCHANGED programVars
    BY <2>1 DEF programVars, AloneInv, BehindOwn
  <2>2. ASSUME NEW t \in Thread, Bare!Trap(t) \/ Bare!Run(t) PROVE BehindOwn'
    <3>1. rip \in [Thread -> Addr] /\ Trapped \subseteq Thread
      BY DEF Tame, TypeOK, Trapped
    <3>2. CASE Bare!Trap(t)
      BY <3>1, <3>2 DEF Bare!Trap, AloneInv, BehindOwn
    <3>3. CASE Bare!Run(t)
      BY <3>1, <3>3 DEF Bare!Run, AloneInv, BehindOwn
    <3> QED
      BY <2>2, <3>2, <3>3
  <2> QED
    BY <1>1, <2>1, <2>2 DEF Bare!Next
<1> QED
  BY <1>1, <1>2, StepRewound DEF Tame, AloneInv

LEMMA InitAlone == Init => AloneInv /\ Bare!Init
BY DEF Init, AloneInv, RewoundReply, BehindOwn, Trapped, Bare!Init

\* Whatever the threads, events, denied contexts and commands of a plain session,
\* its program runs as it does alone: Program, which knows no debugger.
THEOREM PlainRunsAsAlone == ASSUME Plain PROVE Spec => RunsAsAlone
<1>1. Spec => [](TypeOK /\ PlainInv)
  BY PlainInvariant
<1>2. TypeOK /\ PlainInv => Tame
  BY DEF PlainInv, AllOwned, Tame
<1>3. Init => AloneInv /\ Bare!Init
  BY InitAlone
<1>4. Tame /\ AloneInv /\ [Next]_vars => AloneInv' /\ [Bare!Next]_<<rip, Trapped>>
  BY StepAlone DEF programVars
<1> QED
  BY <1>1, <1>2, <1>3, <1>4, PTL DEF Spec, RunsAsAlone, Bare!Spec
=============================================================================

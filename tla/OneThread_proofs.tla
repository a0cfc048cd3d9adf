--------------------------- MODULE OneThread_proofs ---------------------------
(***************************************************************************)
(* A session with one thread, for every program: who owns which INT3, and  *)
(* who has saved which byte, through breakpoints, step, next, up and the   *)
(* leak hooks.                                                             *)
(*                                                                         *)
(* Sequential says what such a session must keep clear of.  Each conjunct  *)
(* names a case in which debugger.rs does lose a byte or a hit: README,    *)
(* section 4.                                                              *)
(***************************************************************************)
EXTENDS DebugLoop_proofs

\* A thread at a that is let run gets to r before anything in off.
RunsTo(a, r, off) ==
  \/ a = r
  \/ \E S \in SUBSET (Addr \ off) :
       a \in S /\ \A b \in S : Flow[b] \subseteq S \cup {r}

\* What makes the loop stop and forget the temporaries.
Stops == Breakable \cup OwnInt3
\* And what loses sight of an allocation: another hook, or a call inside the
\* allocator that comes back to the same address.
AllocStops(r) == Stops \cup HookAddr \cup {c \in Call : Fall[c] = r}

\* No breakpoint inside a call that is stepped over.
CallsReturn ==
  \A c \in Call :
    /\ Fall[c] # c /\ Fall[c] \notin HookAddr
    /\ \A n \in Flow[c] : RunsTo(n, Fall[c], Stops)

\* Nor on the way to where `up' stops.
FramesReturn ==
  \A a \in Addr : \A r \in ReturnSites[a] :
    a \notin OwnInt3 /\ r \notin HookAddr /\ RunsTo(a, r, Stops)

\* `up' and `leak stop' know nothing of an allocation that has not returned.
UpFree == "up" \notin Commands /\ "leak stop" \notin Commands

AllocatorsReturn ==
  \A h \in HookAddr : HookKind[h] = "alloc" =>
    \A r \in ReturnSites[h] :
      /\ UpFree
      /\ r \notin Breakable \cup HookAddr
      /\ \A n \in Flow[h] : RunsTo(n, r, AllocStops(r))

Sequential ==
  /\ OneThread /\ "watch" \notin Happenings /\ "rebreak" \notin Commands
  /\ OwnInt3 \cap (Breakable \cup HookAddr) = {}
  /\ "next" \in Commands => CallsReturn
  /\ "up" \in Commands => FramesReturn
  /\ AllocatorsReturn

-----------------------------------------------------------------------------
(* The invariant.                                                          *)

At(a) == <<Root, a>>
Original(a) == IF a \in OwnInt3 THEN "int3" ELSE "insn"
HasSlot(slot, a) == slot # None /\ slot.addr = a

\* Who may have covered the instruction at a.
Awaited(a) == pending_leak # None /\ pending_leak.ret = a
HookedAt(a) == a \in HookAddr /\ leak_hooks[a] # None
Owner(l) ==
  \/ l[2] \in OwnInt3
  \/ breakpoints[l] # None
  \/ /\ l[1] = Root
     /\ HookedAt(l[2]) \/ Awaited(l[2]) \/ HasSlot(finish_bp, l[2]) \/ HasSlot(step_over_bp, l[2])

Code ==
  /\ Process \X OwnInt3 \subseteq int3
  /\ \A l \in int3 : Owner(l)

\* The thread: an INT3 it raised is still there when the loop looks at it, and
\* at the prompt only one of the program's own leaves rip or the trap flag odd.
Raised ==
  /\ event[MainThread] \in {"none", "bp", "step", "notice"}
  /\ event[MainThread] = "step" => ~tf[MainThread] /\ ~past[MainThread]
  /\ mode = "loop" /\ event[MainThread] = "bp" => At(rip[MainThread]) \in int3
  /\ mode = "prompt" /\ (tf[MainThread] \/ past[MainThread]) => rip[MainThread] \in OwnInt3

\* The entries hold the program's bytes, and their flags are true.
Flags ==
  /\ \A l \in Loc : breakpoints[l] # None =>
       breakpoints[l].byte = "insn" /\ (breakpoints[l].enabled <=> l \in int3)
  /\ pending_breakpoint # None => ~breakpoints[SteppedOff].enabled

\* A temporary INT3 has a byte of its own, and the thread is on its way there.
Kept(slot) ==
  /\ At(slot.addr) \in int3 /\ breakpoints[At(slot.addr)] = None
  /\ slot.addr \notin HookAddr /\ slot.byte = Original(slot.addr)

Undisturbed ==
  /\ mode = "loop"
  /\ tf[MainThread] \/ event[MainThread] = "step" => pending_leak_rearm # None
  /\ past[MainThread] => event[MainThread] = "bp"

\* It has yet to execute the call.
Calling(r) ==
  /\ rip[MainThread] \in Call /\ Fall[rip[MainThread]] = r
  /\ At(rip[MainThread]) \notin int3
  /\ event[MainThread] \in {"none", "notice"}

Finishing ==
  finish_bp # None =>
    /\ step_over_bp = None /\ "up" \in Commands
    /\ Kept(finish_bp) /\ Undisturbed
    /\ RunsTo(rip[MainThread], finish_bp.addr, Stops)

SteppingOver ==
  /\ step_over_bp # None =>
       /\ "next" \in Commands
       /\ Kept(step_over_bp) /\ Undisturbed
       /\ \/ Calling(step_over_bp.addr)
          \/ RunsTo(rip[MainThread], step_over_bp.addr, Stops)
  /\ step_target # None /\ step_target.over => "next" \in Commands

\* Hooks are in the code but for the one whose owner is on its way back.
Out(a) == pending_leak_rearm = a \/ (pending_leak # None /\ pending_leak.hook = a)
Hooks ==
  \A a \in HookAddr : leak_hooks[a] # None =>
    leak_hooks[a] = "insn" /\ (At(a) \in int3 <=> ~Out(a))

Rearming ==
  pending_leak_rearm # None =>
    /\ leak_hooks[pending_leak_rearm] # None /\ pending_leak = None /\ mode = "loop"
    /\ \/ /\ event[MainThread] \in {"none", "notice"}
          /\ tf[MainThread] /\ rip[MainThread] = pending_leak_rearm
       \/ event[MainThread] = "step"

\* The thread is inside the allocator it entered through the hook.
Inside(leak) ==
  \/ rip[MainThread] = leak.hook /\ mode = "loop" /\ event[MainThread] \in {"none", "notice"}
  \/ RunsTo(rip[MainThread], leak.ret, AllocStops(leak.ret))

Allocating ==
  pending_leak # None =>
    /\ leak_hooks[pending_leak.hook] # None
    /\ HookKind[pending_leak.hook] = "alloc"
    /\ pending_leak.ret \in ReturnSites[pending_leak.hook]
    /\ At(pending_leak.ret) \in int3
    /\ pending_leak.byte = IF HasSlot(step_over_bp, pending_leak.ret) THEN "int3"
                           ELSE Original(pending_leak.ret)
    /\ past[MainThread] => mode = "loop" /\ event[MainThread] = "bp"
    /\ Inside(pending_leak)

OwnersInv ==
  /\ Code /\ Raised /\ Flags /\ Finishing /\ SteppingOver
  /\ Hooks /\ Rearming /\ Allocating /\ NoStrayInt3

\* On top of what DebugLoop_proofs has shown of one thread.
Before == StepOffInv /\ OneReplyOwed

-----------------------------------------------------------------------------
(* What the parts say together.                                            *)

\* Before it gets to r, the thread is at nothing in off.
LEMMA RunsOn ==
  ASSUME NEW a, NEW r, NEW off, RunsTo(a, r, off), a # r
  PROVE  a \notin off /\ \A n \in Flow[a] : RunsTo(n, r, off)
BY DEF RunsTo

\* There is only the main thread, in the root.
LEMMA Alone ==
  ASSUME Sequential, TypeOK
  PROVE  /\ MainThread \in Thread /\ \A t \in Thread : t = MainThread
         /\ Denied = {} /\ ProcOf[MainThread] = Root /\ Root \in Process
         /\ last_thread_id = MainThread
         /\ rip[MainThread] \in Addr /\ Here(MainThread) = At(rip[MainThread])
BY Setting DEF Setting, Sequential, OneThread, TypeOK, Here, At

\* A hook's address is no null value.
LEMMA HookThere ==
  \A a \in HookAddr : a \in Addr /\ a # None /\ At(a) \in Loc
BY Setting, NoneApart DEF Setting, NoneApart, At, Loc

\* Where `up' is ruled out it leaves nothing behind.
LEMMA NoFinish ==
  ASSUME UpFree, Finishing
  PROVE  finish_bp = None /\ "up" \notin Commands
<1>1. "up" \notin Commands
  BY Zenon DEF UpFree
<1> QED
  BY <1>1 DEF Finishing

\* At the prompt nothing is outstanding but an allocation.
LEMMA PromptIdle ==
  ASSUME OwnersInv, Before, mode = "prompt"
  PROVE  /\ finish_bp = None /\ step_over_bp = None
         /\ pending_breakpoint = None /\ pending_leak_rearm = None
BY DEF OwnersInv, Before, StepOffInv, Pending, Finishing, SteppingOver, Rearming, Undisturbed

\* The debuggee runs only while the loop waits.
LEMMA RunsInLoop ==
  ASSUME Sequential, TypeOK, OneReplyOwed, NEW t \in Thread, Runnable(t)
  PROVE  mode = "loop" /\ event[t] = "none"
<1>1. ProcOf[MainThread] = ProcOf[t]
  BY Alone
<1>2. mode # "loop" => held = {MainThread}
  BY Alone DEF OneReplyOwed, TypeOK
<1> QED
  BY <1>1, <1>2 DEF Runnable, Frozen, TypeOK

-----------------------------------------------------------------------------
(* The debuggee.                                                           *)

\* An INT3 is hit: it is a temporary's, a hook's, a breakpoint's or the
\* program's, and never the one that is stepped off.
LEMMA HitOwned ==
  ASSUME Sequential, Before, OwnersInv, NEW t \in Thread, HitInt3(t)
  PROVE  OwnersInv'
<1> USE DEF OwnersInv
<1>1. /\ t = MainThread /\ mode = "loop" /\ event[MainThread] = "none"
      /\ At(rip[MainThread]) \in int3 /\ rip[MainThread] \in Addr
  BY Alone, RunsInLoop DEF HitInt3, Before, StepOffInv
<1>2. /\ event' = [event EXCEPT ![MainThread] = "bp"]
      /\ past' = [past EXCEPT ![MainThread] = TRUE]
      /\ UNCHANGED <<int3, rip, tf, mode, breakpoints, pending_breakpoint, pending_continue,
                     step_target, step_over_bp, finish_bp, leak_hooks, pending_leak,
                     pending_leak_rearm>>
  BY <1>1 DEF HitInt3, debuggerVars, temps, leaks
<1>3. event'[MainThread] = "bp" /\ past'[MainThread]
  BY <1>2, Alone DEF Before, StepOffInv, TypeOK
<1>4. pending_leak_rearm = None
  BY <1>1 DEF Rearming, Hooks, Out, Before, StepOffInv, TypeOK
<1>5. Code' /\ Flags' /\ Hooks' /\ Rearming'
  BY <1>2, <1>4 DEF Code, Flags, Hooks, Rearming, Owner, HookedAt, Awaited, HasSlot, Out, SteppedOff
<1>6. Raised' /\ NoStrayInt3'
  BY <1>1, <1>2, <1>3 DEF Raised, NoStrayInt3
<1>7. Finishing'
  BY <1>1, <1>2, <1>3 DEF Finishing, Kept, Undisturbed
<1>8. SteppingOver'
  BY <1>1, <1>2, <1>3 DEF SteppingOver, Kept, Undisturbed, Calling
<1>9. Allocating'
  BY <1>1, <1>2, <1>3 DEF Allocating, Inside, HasSlot, Hooks, Out, Before, StepOffInv, TypeOK
<1> QED
  BY <1>5, <1>6, <1>7, <1>8, <1>9

\* One instruction runs, which no INT3 covers.
LEMMA ExecuteOwned ==
  ASSUME Sequential, Before, OwnersInv, NEW t \in Thread, Execute(t)
  PROVE  OwnersInv'
<1> USE DEF OwnersInv
<1>1. /\ t = MainThread /\ mode = "loop" /\ event[MainThread] = "none"
      /\ At(rip[MainThread]) \notin int3 \/ past[MainThread]
      /\ rip[MainThread] \in Addr
  BY Alone, RunsInLoop DEF Execute, Before, StepOffInv
<1>2. PICK n \in Flow[rip[MainThread]] :
        /\ rip' = [rip EXCEPT ![MainThread] = n]
        /\ event' = [event EXCEPT ![MainThread] = IF tf[MainThread] THEN "step" ELSE "none"]
  BY <1>1 DEF Execute, Sequential
<1>3. /\ past' = [past EXCEPT ![MainThread] = FALSE]
      /\ tf' = [tf EXCEPT ![MainThread] = FALSE]
      /\ UNCHANGED <<int3, mode, breakpoints, pending_breakpoint, pending_continue,
                     step_target, step_over_bp, finish_bp, leak_hooks, pending_leak,
                     pending_leak_rearm>>
  BY <1>1 DEF Execute, debuggerVars, temps, leaks
<1>4. /\ rip'[MainThread] = n /\ ~past'[MainThread] /\ ~tf'[MainThread]
      /\ event'[MainThread] = IF tf[MainThread] THEN "step" ELSE "none"
  BY <1>2, <1>3, Alone DEF Before, StepOffInv, TypeOK
<1>5. Code' /\ Flags' /\ Hooks'
  BY <1>3 DEF Code, Flags, Hooks, Owner, HookedAt, Awaited, HasSlot, Out, SteppedOff
<1>6. Raised' /\ NoStrayInt3'
  BY <1>1, <1>3, <1>4 DEF Raised, NoStrayInt3
<1>7. Rearming'
  BY <1>1, <1>3, <1>4 DEF Rearming
<1>8. Finishing'
  <2> SUFFICES ASSUME finish_bp # None PROVE Finishing'
    BY <1>3 DEF Finishing
  <2>1. RunsTo(n, finish_bp.addr, Stops)
    BY <1>1, RunsOn DEF Finishing, Kept, Undisturbed
  <2> QED
    BY <1>1, <1>3, <1>4, <2>1 DEF Finishing, Kept, Undisturbed
<1>9. SteppingOver'
  <2>1. ASSUME step_over_bp # None PROVE RunsTo(n, step_over_bp.addr, Stops)
    <3>1. CASE Calling(step_over_bp.addr)
      BY <2>1, <3>1 DEF Calling, SteppingOver, Sequential, CallsReturn
    <3>2. CASE RunsTo(rip[MainThread], step_over_bp.addr, Stops)
      BY <1>1, <2>1, <3>2, RunsOn DEF SteppingOver, Kept, Undisturbed
    <3> QED
      BY <2>1, <3>1, <3>2 DEF SteppingOver
  <2> QED
    BY <1>1, <1>3, <1>4, <2>1 DEF SteppingOver, Kept, Undisturbed
<1>10. Allocating'
  <2> SUFFICES ASSUME pending_leak # None PROVE Allocating'
    BY <1>3 DEF Allocating
  <2>1. ~past[MainThread]
    BY <1>1 DEF Allocating
  <2>2. RunsTo(n, pending_leak.ret, AllocStops(pending_leak.ret))
    <3>1. CASE rip[MainThread] = pending_leak.hook
      BY <3>1 DEF Allocating, Sequential, AllocatorsReturn, Before, StepOffInv, TypeOK
    <3>2. CASE RunsTo(rip[MainThread], pending_leak.ret, AllocStops(pending_leak.ret))
      BY <1>1, <2>1, <3>2, RunsOn DEF Allocating
    <3> QED
      BY <3>1, <3>2 DEF Allocating, Inside
  <2> QED
    BY <1>3, <1>4, <2>2 DEF Allocating, Inside, HasSlot, AllocStops, Stops
<1> QED
  BY <1>5, <1>6, <1>7, <1>8, <1>9, <1>10

\* A notice comes from where the thread is.
LEMMA NotifyOwned ==
  ASSUME Sequential, Before, OwnersInv, NEW t \in Thread, Notify(t)
  PROVE  OwnersInv'
<1> USE DEF OwnersInv
<1>1. t = MainThread /\ mode = "loop" /\ event[MainThread] = "none"
  BY Alone, RunsInLoop DEF Notify, Before, StepOffInv
<1>2. /\ event' = [event EXCEPT ![MainThread] = "notice"]
      /\ UNCHANGED <<int3, rip, past, tf, mode, breakpoints, pending_breakpoint, pending_continue,
                     step_target, step_over_bp, finish_bp, leak_hooks, pending_leak,
                     pending_leak_rearm>>
  BY <1>1 DEF Notify, debuggerVars, temps, leaks, threadVars
<1>3. event'[MainThread] = "notice"
  BY <1>2, Alone DEF Before, StepOffInv, TypeOK
<1>4. Code' /\ Flags' /\ Hooks'
  BY <1>2 DEF Code, Flags, Hooks, Owner, HookedAt, Awaited, HasSlot, Out, SteppedOff
<1>5. Raised' /\ NoStrayInt3' /\ Rearming'
  BY <1>1, <1>2, <1>3 DEF Raised, NoStrayInt3, Rearming
<1>6. Finishing' /\ SteppingOver'
  BY <1>1, <1>2, <1>3 DEF Finishing, SteppingOver, Kept, Undisturbed, Calling
<1>7. Allocating'
  BY <1>1, <1>2, <1>3 DEF Allocating, Inside, HasSlot
<1> QED
  BY <1>4, <1>5, <1>6, <1>7

-----------------------------------------------------------------------------
(* The handlers of STATUS_BREAKPOINT.                                      *)

\* While a temporary or an allocation is outstanding, an INT3 the thread runs
\* into on the way is not one that makes the loop forget it.
LEMMA OnlyOwners ==
  ASSUME Sequential, Before, OwnersInv, mode = "loop", event[MainThread] = "bp"
  PROVE  /\ At(rip[MainThread]) \in int3 /\ pending_leak_rearm = None
         /\ finish_bp # None => rip[MainThread] = finish_bp.addr \/ rip[MainThread] \notin Stops
         /\ step_over_bp # None =>
              rip[MainThread] = step_over_bp.addr \/ rip[MainThread] \notin Stops
         /\ pending_leak # None =>
              \/ rip[MainThread] = pending_leak.ret
              \/ rip[MainThread] \notin AllocStops(pending_leak.ret)
BY RunsOn DEF OwnersInv, Raised, Rearming, Finishing, SteppingOver, Calling, Allocating, Inside

\* An entry is where the user may set breakpoints.
LEMMA EntryBreakable ==
  ASSUME Before, NEW l \in Loc, breakpoints[l] # None
  PROVE  l[2] \in Breakable
BY DEF Before, StepOffInv, Listed

\* Writing a saved byte back.
LEMMA WriteBack ==
  ASSUME NEW code, NEW l, NEW b
  PROVE  /\ b = "int3" => Write(code, l, b) = code \cup {l}
         /\ b # "int3" => Write(code, l, b) = code \ {l}
BY DEF Write

\* malloc returned: the INT3 at its return site goes, unless next waits there
\* too, and the hook goes back in.
LEMMA LeakReturnOwned ==
  ASSUME Sequential, Before, OwnersInv, NEW t \in Thread, LeakReturn(t)
  PROVE  OwnersInv'
<1> USE DEF OwnersInv
<1> DEFINE back == pending_leak.ret
           hook == pending_leak.hook
           code == Write(int3, At(back), pending_leak.byte)
<1>0. TypeOK
  BY DEF Before, StepOffInv
<1>1. /\ t = MainThread /\ mode = "loop" /\ event[MainThread] = "bp"
      /\ pending_leak # None /\ rip[MainThread] = back
      /\ Here(t) = At(back) /\ <<ProcOf[t], pending_leak.hook>> = At(hook)
  BY <1>0, Alone DEF LeakReturn, Wait, IsLeakReturn, At
<1>2. /\ back \in Addr /\ hook \in HookAddr /\ hook \in Addr /\ back \notin HookAddr
      /\ back \notin Breakable /\ At(back) \in Loc /\ At(hook) \in Loc /\ UpFree
      /\ \A a \in HookAddr : a # None
  BY <1>0, <1>1, Setting, NoneApart, Alone
     DEF Setting, NoneApart, TypeOK, Allocating, Sequential, AllocatorsReturn, Loc, At
<1>3. At(hook) \notin int3 /\ At(hook) \notin code /\ At(hook) # At(back)
  BY <1>1, <1>2, WriteBack DEF Allocating, Hooks, Out, At
<1>4. /\ past' = [past EXCEPT ![MainThread] = FALSE]
      /\ int3' = code \cup {At(hook)}
      /\ leak_hooks' = [leak_hooks EXCEPT ![hook] = "insn"]
      /\ pending_leak' = None
      /\ event' = [event EXCEPT ![MainThread] = "none"]
      /\ UNCHANGED <<mode, pending_continue, pending_leak_rearm, rip, tf, breakpoints,
                     pending_breakpoint, step_target, step_over_bp, finish_bp>>
  <2>1. hook = <<ProcOf[t], pending_leak.hook>>[2]
    OBVIOUS
  <2> HIDE DEF hook, code
  <2> QED
    BY <1>0, <1>1, <1>3, <2>1, Alone DEF LeakReturn, SetRip, Resume, Plant, Read, temps, code, back
<1>5. past'[MainThread] = FALSE /\ event'[MainThread] = "none"
  BY <1>0, <1>4, Alone DEF TypeOK
<1>6. /\ leak_hooks'[hook] = "insn" /\ leak_hooks'[hook] # None
      /\ \A a \in HookAddr : a # hook => leak_hooks'[a] = leak_hooks[a]
  BY <1>0, <1>1, <1>2, <1>4 DEF TypeOK, Allocating, Hooks
<1>7. finish_bp = None /\ pending_leak_rearm = None
  BY <1>1, <1>2, OnlyOwners, NoFinish
<1>8. IF back \in OwnInt3 \/ HasSlot(step_over_bp, back) THEN code = int3
                                                          ELSE code = int3 \ {At(back)}
  <2>1. /\ pending_leak.byte = IF HasSlot(step_over_bp, back) THEN "int3" ELSE Original(back)
        /\ At(back) \in int3
    BY <1>1 DEF Allocating
  <2>2. /\ pending_leak.byte = "int3" => code = int3 \cup {At(back)}
        /\ pending_leak.byte # "int3" => code = int3 \ {At(back)}
    BY WriteBack
  <2> HIDE DEF code, back
  <2> QED
    BY <2>1, <2>2 DEF Original
<1> HIDE DEF back, hook, code
<1>9. Code'
  <2>1. Process \X OwnInt3 \subseteq code
    BY <1>8 DEF Code, At
  <2>2. ASSUME NEW l \in code PROVE Owner(l)'
    <3>1. Owner(l) /\ l \in int3
      BY <1>8 DEF Code
    <3>2. CASE l[1] = Root /\ Awaited(l[2])
      <4>1. l = At(back)
        BY <1>0, <3>1, <3>2 DEF Awaited, back, At, TypeOK, Loc
      <4>2. back \in OwnInt3 \/ HasSlot(step_over_bp, back)
        BY <1>8, <4>1
      <4> QED
        BY <1>4, <4>1, <4>2 DEF Owner, HasSlot, At
    <3>3. CASE l[1] = Root /\ HookedAt(l[2])
      BY <1>6, <3>3 DEF Owner, HookedAt
    <3> QED
      BY <1>4, <3>1, <3>2, <3>3 DEF Owner, HasSlot
  <2>3. ASSUME NEW l, l = At(hook) PROVE Owner(l)'
    BY <1>2, <1>6, <2>3 DEF Owner, HookedAt, At
  <2> QED
    BY <1>4, <2>1, <2>2, <2>3 DEF Code
<1>10. Raised' /\ NoStrayInt3'
  BY <1>1, <1>4, <1>5 DEF Raised, NoStrayInt3
<1>11. Flags'
  BY <1>0, <1>2, <1>4, <1>8, EntryBreakable DEF Flags, At, SteppedOff, Sequential, OneThread
<1>12. Finishing' /\ Rearming' /\ Allocating'
  BY <1>4, <1>7 DEF Finishing, Rearming, Allocating
<1>13. SteppingOver'
  <2> SUFFICES ASSUME step_over_bp # None PROVE SteppingOver'
    BY <1>4 DEF SteppingOver
  <2>1. At(step_over_bp.addr) \in code
    BY <1>8 DEF SteppingOver, Kept, HasSlot, At
  <2>2. RunsTo(rip[MainThread], step_over_bp.addr, Stops)
    BY <1>1 DEF SteppingOver, Calling
  <2> QED
    BY <1>1, <1>4, <1>5, <2>1, <2>2 DEF SteppingOver, Kept, Undisturbed
<1>14. Hooks'
  <2> SUFFICES ASSUME NEW a \in HookAddr, leak_hooks'[a] # None
               PROVE  leak_hooks'[a] = "insn" /\ At(a) \in int3'
    BY <1>2, <1>4, <1>7 DEF Hooks, Out
  <2>1. CASE a = hook
    BY <1>4, <1>6, <2>1
  <2>2. CASE a # hook
    BY <1>1, <1>2, <1>4, <1>6, <1>7, <1>8, <2>2 DEF Hooks, Out, At, hook
  <2> QED
    BY <2>1, <2>2
<1> QED
  BY <1>9, <1>10, <1>11, <1>12, <1>13, <1>14

\* malloc or free is entered: the hook comes out, for one instruction or until
\* the allocator returns.
LEMMA LeakHookOwned ==
  ASSUME Sequential, Before, OwnersInv, NEW t \in Thread, LeakHook(t)
  PROVE  OwnersInv'
<1> USE DEF OwnersInv
<1> DEFINE here == rip[MainThread]
           code == int3 \ {At(here)}
<1>0. TypeOK
  BY DEF Before, StepOffInv
<1>1. /\ t = MainThread /\ mode = "loop" /\ event[MainThread] = "bp"
      /\ here \in HookAddr /\ leak_hooks[here] = "insn" /\ leak_hooks[here] # None
      /\ here \in Addr /\ At(here) \in Loc /\ here \notin Stops
      /\ Here(t) = At(here)
  BY <1>0, Alone DEF LeakHook, Wait, IsHook, Hooks, Sequential, OneThread, Stops, Loc, At
<1>2. /\ past' = [past EXCEPT ![MainThread] = FALSE]
      /\ event' = [event EXCEPT ![MainThread] = "none"]
      /\ UNCHANGED <<mode, pending_continue, rip, breakpoints, pending_breakpoint,
                     step_target, step_over_bp, finish_bp, leak_hooks>>
      /\ \/ StepOffHook(t, code)
         \/ \E a \in ReturnSites[here] : AwaitReturn(t, code, At(a))
  <2>1. Write(int3, Here(t), leak_hooks[rip[t]]) = code
    BY <1>1, WriteBack
  <2> HIDE DEF code
  <2> QED
    BY <1>0, <1>1, <2>1, Alone DEF LeakHook, SetRip, Resume, temps, At
<1>3. past'[MainThread] = FALSE /\ event'[MainThread] = "none"
  BY <1>0, <1>2, Alone DEF TypeOK
<1>4. pending_leak = None /\ pending_leak_rearm = None
  <2>1. pending_leak # None =>
          pending_leak.ret \notin HookAddr /\ here \notin HookAddr \ AllocStops(pending_leak.ret)
    BY <1>0, <1>1 DEF Allocating, Sequential, AllocatorsReturn, AllocStops, TypeOK
  <2> QED
    BY <1>1, <2>1, OnlyOwners
<1>5. breakpoints[At(here)] = None
  BY <1>1, EntryBreakable DEF At, Stops
<1>6. NoStrayInt3'
  BY <1>1, <1>2 DEF NoStrayInt3
<1> HIDE DEF here, code
<1>7. /\ finish_bp # None => finish_bp.addr # here
      /\ step_over_bp # None => step_over_bp.addr # here
  BY <1>1 DEF Finishing, SteppingOver, Kept
<1>8. CASE StepOffHook(t, code)
  <2>1. /\ pending_leak_rearm' = here /\ int3' = code /\ pending_leak' = None
        /\ tf' = [tf EXCEPT ![MainThread] = TRUE] /\ tf'[MainThread]
        /\ pending_leak_rearm' # None
    BY <1>0, <1>1, <1>4, <1>8, Alone, NoneApart DEF StepOffHook, SingleStep, TypeOK, here, NoneApart
  <2>2. Code'
    BY <1>1, <1>2, <1>4, <2>1 DEF Code, Owner, HookedAt, Awaited, HasSlot, code, At, Stops
  <2>3. Raised'
    BY <1>1, <1>2, <1>3 DEF Raised
  <2>4. Flags'
    BY <1>1, <1>2, <1>5, <2>1 DEF Flags, SteppedOff, code
  <2>5. Hooks'
    BY <1>1, <1>2, <1>4, <2>1, HookThere DEF Hooks, Out, At, code
  <2>r. Rearming'
    BY <1>1, <1>2, <1>3, <2>1 DEF Rearming, here
  <2>6. Finishing' /\ SteppingOver'
    BY <1>1, <1>2, <1>3, <1>7, <2>1
       DEF Finishing, SteppingOver, Kept, Undisturbed, Calling, code, At
  <2>7. Allocating'
    BY <2>1 DEF Allocating
  <2> QED
    BY <1>6, <2>2, <2>3, <2>4, <2>5, <2>r, <2>6, <2>7
<1>9. ASSUME NEW a \in ReturnSites[here], AwaitReturn(t, code, At(a)) PROVE OwnersInv'
  <2>1. HookKind[here] = "alloc" /\ UpFree /\ a \notin Breakable \cup HookAddr
    BY <1>1, <1>9 DEF AwaitReturn, Sequential, AllocatorsReturn, here
  <2>2. a \in Addr /\ At(a) \in Loc /\ At(a) # At(here) /\ finish_bp = None
    BY <1>0, <1>1, <2>1, Setting, Alone, NoFinish DEF Setting, Loc, At
  <2>3. /\ pending_leak' = [hook |-> here, ret |-> a, byte |-> Read(code, At(a))]
        /\ int3' = code \cup {At(a)}
        /\ tf' = tf /\ pending_leak_rearm' = None
    BY <1>1, <1>4, <1>9 DEF AwaitReturn, Plant, At, here
  <2>4. pending_leak' # None /\ pending_leak'.hook = here /\ pending_leak'.ret = a
    BY <1>1, <2>2, <2>3, NoneApart DEF NoneApart, Read, Byte
  <2>5. Read(code, At(a)) = IF HasSlot(step_over_bp, a) THEN "int3" ELSE Original(a)
    <3>1. At(a) \in code <=> At(a) \in int3
      BY <2>2 DEF code
    <3>2. a \in OwnInt3 => At(a) \in int3
      BY Alone, <1>0 DEF Code, At
    <3>3. HasSlot(step_over_bp, a) => At(a) \in int3
      BY DEF HasSlot, SteppingOver, Kept
    <3>4. At(a) \in int3 => a \in OwnInt3 \/ HasSlot(step_over_bp, a)
      BY <1>4, <2>1, <2>2, EntryBreakable DEF Code, Owner, HookedAt, Awaited, HasSlot, At
    <3> QED
      BY <3>1, <3>2, <3>3, <3>4 DEF Read, Original
  <2>6. Code'
    <3>1. Owner(At(a))'
      BY <2>4 DEF Owner, Awaited, At
    <3>2. \A l \in code : Owner(l)'
      BY <1>1, <1>2, <1>4 DEF Code, Owner, HookedAt, Awaited, HasSlot, code, At
    <3>3. Process \X OwnInt3 \subseteq code
      BY <1>1 DEF Code, code, At, Stops
    <3> QED
      BY <2>3, <3>1, <3>2, <3>3 DEF Code
  <2>7. Raised'
    BY <1>1, <1>2, <1>3 DEF Raised
  <2>8. Flags'
    BY <1>1, <1>2, <1>5, <2>1, <2>2, <2>3, EntryBreakable DEF Flags, SteppedOff, code, At
  <2>9. Hooks' /\ Rearming'
    BY <1>1, <1>2, <1>4, <2>1, <2>3, <2>4, HookThere DEF Hooks, Rearming, Out, At, code
  <2>10. SteppingOver'
    BY <1>1, <1>2, <1>3, <1>4, <1>7, <2>2, <2>3
       DEF SteppingOver, Kept, Undisturbed, Calling, code, At
  <2>12. Finishing'
    BY <1>2, <2>2 DEF Finishing
  <2>11. Allocating'
    BY <1>1, <1>2, <1>3, <2>1, <2>3, <2>4, <2>5 DEF Allocating, Inside, HasSlot, here
  <2> QED
    BY <1>6, <2>6, <2>7, <2>8, <2>9, <2>10, <2>11, <2>12
<1> QED
  BY <1>2, <1>8, <1>9

-----------------------------------------------------------------------------
(* No temporary outstanding.                                               *)

\* What the code bytes `code' must be like once there is no temporary.
Settled(code) ==
  /\ Process \X OwnInt3 \subseteq code
  /\ \A l \in code :
       \/ l[2] \in OwnInt3 \/ breakpoints[l] # None
       \/ l[1] = Root /\ (HookedAt(l[2]) \/ Awaited(l[2]))
  /\ \A l \in Loc : breakpoints[l] # None =>
       breakpoints[l].byte = "insn" /\ (breakpoints[l].enabled <=> l \in code)
  /\ \A a \in HookAddr : leak_hooks[a] # None =>
       leak_hooks[a] = "insn" /\ (At(a) \in code <=> ~Out(a))
  /\ pending_leak # None =>
       At(pending_leak.ret) \in code /\ pending_leak.byte = Original(pending_leak.ret)

\* They are, while there is none.
LEMMA SettledHere ==
  ASSUME OwnersInv, finish_bp = None, step_over_bp = None PROVE Settled(int3)
BY DEF OwnersInv, Settled, Code, Owner, Flags, Hooks, Allocating, HasSlot

\* Where an allocation leads while the thread is stopped or on its way.
Returning(here, gone) ==
  pending_leak # None =>
    /\ RunsTo(here, pending_leak.ret, AllocStops(pending_leak.ret))
    /\ ~gone

\* A step that leaves such code bytes, and no temporary, keeps the records.
LEMMA SettledNext ==
  ASSUME NEW code, Settled(code), Allocating, Returning(rip'[MainThread], past'[MainThread]),
         int3' = code, pending_breakpoint' = None,
         finish_bp' = None, step_over_bp' = None,
         step_target' # None /\ step_target'.over => "next" \in Commands,
         UNCHANGED <<breakpoints, leak_hooks, pending_leak, pending_leak_rearm>>
  PROVE  Code' /\ Flags' /\ Finishing' /\ SteppingOver' /\ Hooks' /\ Allocating'
<1>1. Code'
  BY DEF Settled, Code, Owner, HookedAt, Awaited
<1>2. Flags' /\ Hooks'
  BY DEF Settled, Flags, Hooks, Out
<1>3. Finishing' /\ SteppingOver'
  BY DEF Finishing, SteppingOver
<1>4. Allocating'
  BY DEF Settled, Allocating, Returning, Inside, HasSlot
<1> QED
  BY <1>1, <1>2, <1>3, <1>4

\* A unit of step or next is armed: a call is stepped over to where it returns,
\* which is not where an allocation is waited for.
LEMMA Arming ==
  ASSUME Sequential, TypeOK, NEW code \in SUBSET Loc, Settled(code), Allocating,
         NEW over, over => "next" \in Commands, arm_step(MainThread, over, code, None),
         Returning(rip[MainThread], past'[MainThread]),
         tf[MainThread] \/ past'[MainThread] => At(rip[MainThread]) \in code,
         rip' = rip, event'[MainThread] = "none", mode' = "loop",
         pending_leak_rearm = None, pending_breakpoint' = None, finish_bp' = None,
         step_target' # None /\ step_target'.over => "next" \in Commands,
         UNCHANGED <<breakpoints, leak_hooks, pending_leak, pending_leak_rearm>>
  PROVE  OwnersInv'
<1> DEFINE here == rip[MainThread]
           back == Fall[here]
<1>1. Raised' /\ Rearming' /\ NoStrayInt3'
  BY DEF Raised, Rearming, NoStrayInt3
<1>2. Here(MainThread) = At(here) /\ here \in Addr /\ ProcOf[MainThread] = Root
  BY Alone
<1>3. CASE int3' = code /\ step_over_bp' = None
  BY <1>1, <1>3, SettledNext DEF OwnersInv
<1>4. CASE /\ over /\ here \in Call /\ At(here) \notin code /\ tf' = tf
           /\ breakpoints[At(back)] = None
           /\ step_over_bp' = [addr |-> back, byte |-> Read(code, At(back))]
           /\ int3' = code \cup {At(back)}
  <2>1. /\ back \in Addr /\ back # here /\ back \notin HookAddr
        /\ \A n \in Flow[here] : RunsTo(n, back, Stops)
    BY <1>4, Setting DEF Setting, Sequential, CallsReturn
  <2>2. pending_leak # None => pending_leak.ret # back
    BY <1>4, <2>1, RunsOn DEF Returning, AllocStops
  <2>3. Read(code, At(back)) = Original(back)
    <3>1. back \in OwnInt3 => At(back) \in code
      BY <1>2, Setting DEF Setting, Settled, At
    <3>2. At(back) \in code => back \in OwnInt3
      BY <1>4, <2>1, <2>2 DEF Settled, HookedAt, Awaited, At
    <3> QED
      BY <3>1, <3>2 DEF Read, Original
  <2>4. step_over_bp' # None /\ step_over_bp'.addr = back /\ step_over_bp'.byte = Original(back)
    BY <1>4, <2>1, <2>3, NoneApart DEF NoneApart, Slot, Original, Byte
  <2> HIDE DEF back, here
  <2>5. Code'
    <3>1. ASSUME NEW l, l = At(back) PROVE Owner(l)'
      BY <2>4, <3>1 DEF Owner, HasSlot, At, here
    <3>2. ASSUME NEW l \in code PROVE Owner(l)'
      BY DEF Settled, Owner, HookedAt, Awaited
    <3> QED
      BY <1>4, <3>1, <3>2 DEF Code, Settled
  <2>6. Flags'
    BY <1>4 DEF Settled, Flags
  <2>7. Finishing'
    BY DEF Finishing
  <2>8. SteppingOver'
    <3>1. Kept(step_over_bp)'
      BY <1>4, <2>1, <2>4 DEF Kept
    <3>2. Undisturbed' /\ Calling(step_over_bp.addr)'
      BY <1>4, <2>1, <2>4 DEF Undisturbed, Calling, back, here, At
    <3> QED
      BY <1>4, <2>4, <3>1, <3>2 DEF SteppingOver
  <2>9. Hooks'
    BY <1>4, <2>1 DEF Settled, Hooks, Out, At
  <2>10. Allocating'
    BY <1>4, <2>2, <2>4 DEF Settled, Allocating, Returning, Inside, HasSlot
  <2> QED
    BY <1>1, <2>5, <2>6, <2>7, <2>8, <2>9, <2>10 DEF OwnersInv
<1> QED
  BY <1>2, <1>3, <1>4 DEF arm_step, Plant, At

\* `up' arrived: its INT3 goes.
LEMMA FinishHitOwned ==
  ASSUME Sequential, Before, OwnersInv, NEW t \in Thread, FinishHit(t)
  PROVE  OwnersInv'
<1> USE DEF OwnersInv
<1> DEFINE here == rip[MainThread]
           code == Write(int3, At(here), finish_bp.byte)
<1>0. TypeOK
  BY DEF Before, StepOffInv
<1>1. /\ t = MainThread /\ mode = "loop" /\ event[MainThread] = "bp"
      /\ finish_bp # None /\ here = finish_bp.addr /\ Here(t) = At(here)
  BY <1>0, Alone DEF FinishHit, Wait, IsFinish
<1>2. /\ past' = [past EXCEPT ![MainThread] = FALSE] /\ mode' = "prompt"
      /\ pending_continue' = [tid |-> MainThread, status |-> "continue"]
      /\ finish_bp' = None /\ int3' = code
      /\ UNCHANGED <<event, rip, tf, breakpoints, pending_breakpoint, step_target, step_over_bp,
                     leak_hooks, pending_leak, pending_leak_rearm>>
  <2> HIDE DEF code
  <2>1. code = Write(int3, Here(t), finish_bp.byte)
    BY <1>1 DEF code
  <2> QED
    BY <1>0, <1>1, <2>1, Alone DEF FinishHit, SetRip, Stop, leaks
<1>3. ~past'[MainThread]
  BY <1>0, <1>2, Alone DEF TypeOK
<1>4. /\ step_over_bp = None /\ pending_leak_rearm = None /\ pending_breakpoint = None
      /\ ~tf[MainThread]
  BY <1>1, OnlyOwners DEF Finishing, Undisturbed, Before, StepOffInv, Pending
<1>5. pending_leak = None
  BY <1>0, <1>1, NoFinish DEF Allocating, Sequential, AllocatorsReturn, TypeOK
<1>6. IF here \in OwnInt3 THEN code = int3 ELSE code = int3 \ {At(here)}
  BY <1>1, WriteBack DEF Finishing, Kept, Original
<1>7. here \notin HookAddr /\ breakpoints[At(here)] = None
  BY <1>1 DEF Finishing, Kept
<1> HIDE DEF here, code
<1>8. Settled(code)
  <2>1. ASSUME NEW l \in code
        PROVE  \/ l[2] \in OwnInt3 \/ breakpoints[l] # None
               \/ l[1] = Root /\ (HookedAt(l[2]) \/ Awaited(l[2]))
    BY <1>0, <1>1, <1>4, <1>6 DEF Code, Owner, HasSlot, At, TypeOK, Loc
  <2>2. Process \X OwnInt3 \subseteq code
    BY <1>6 DEF Code, At
  <2>3. \A a \in HookAddr : At(a) \in code <=> At(a) \in int3
    BY <1>6, <1>7 DEF At
  <2> QED
    BY <1>5, <1>6, <1>7, <2>1, <2>2, <2>3 DEF Settled, Flags, Hooks
<1>9. Code' /\ Flags' /\ Finishing' /\ SteppingOver' /\ Hooks' /\ Allocating'
  BY <1>2, <1>4, <1>5, <1>8, SettledNext DEF Returning, SteppingOver
<1>10. Raised' /\ Rearming' /\ NoStrayInt3'
  BY <1>1, <1>2, <1>3, <1>4 DEF Raised, Rearming, NoStrayInt3
<1> QED
  BY <1>9, <1>10

\* The call came back: its INT3 goes, and the line goes on or is done.
LEMMA StepOverHitOwned ==
  ASSUME Sequential, Before, OwnersInv, NEW t \in Thread, StepOverHit(t)
  PROVE  OwnersInv'
<1> USE DEF OwnersInv
<1> DEFINE here == rip[MainThread]
           code == Write(int3, At(here), step_over_bp.byte)
<1>0. TypeOK
  BY DEF Before, StepOffInv
<1>1. /\ t = MainThread /\ mode = "loop" /\ event[MainThread] = "bp"
      /\ step_over_bp # None /\ here = step_over_bp.addr /\ Here(t) = At(here)
      /\ pending_leak # None => here # pending_leak.ret
  BY <1>0, Alone DEF StepOverHit, Wait, IsStepOver, IsLeakReturn
<1>2. /\ past' = [past EXCEPT ![MainThread] = FALSE]
      /\ UNCHANGED <<rip, breakpoints, pending_breakpoint, finish_bp,
                     leak_hooks, pending_leak, pending_leak_rearm>>
      /\ \/ /\ arm_step(MainThread, step_target.over, code, None)
            /\ should_keep_stepping(MainThread)
            /\ event' = [event EXCEPT ![MainThread] = "none"] /\ UNCHANGED <<mode, step_target>>
         \/ /\ int3' = code /\ step_target' = None /\ step_over_bp' = None
            /\ mode' = "prompt" /\ UNCHANGED <<event, tf>>
            /\ pending_continue' = [tid |-> MainThread, status |-> "continue"]
  <2> HIDE DEF code
  <2>1. code = Write(int3, Here(t), step_over_bp.byte)
    BY <1>1 DEF code
  <2> QED
    BY <1>0, <1>1, <2>1, Alone DEF StepOverHit, SetRip, Stop, Resume, leaks
<1>3. ~past'[MainThread]
  BY <1>0, <1>2, Alone DEF TypeOK
<1>4. /\ finish_bp = None /\ pending_leak_rearm = None /\ pending_breakpoint = None
      /\ ~tf[MainThread]
  BY <1>1, OnlyOwners DEF Finishing, SteppingOver, Undisturbed, Before, StepOffInv, Pending
<1>6. IF here \in OwnInt3 THEN code = int3 ELSE code = int3 \ {At(here)}
  <2>1. At(here) \in int3 /\ step_over_bp.byte = Original(here)
    BY <1>1 DEF SteppingOver, Kept
  <2> QED
    BY <2>1, WriteBack DEF Original
<1>7. here \notin HookAddr /\ breakpoints[At(here)] = None
  BY <1>1 DEF SteppingOver, Kept
<1> HIDE DEF here, code
<1>8. Settled(code) /\ code \in SUBSET Loc
  <2>1. ASSUME NEW l \in code
        PROVE  \/ l[2] \in OwnInt3 \/ breakpoints[l] # None
               \/ l[1] = Root /\ (HookedAt(l[2]) \/ Awaited(l[2]))
    BY <1>0, <1>1, <1>4, <1>6 DEF Code, Owner, HasSlot, At, TypeOK, Loc
  <2>2. Process \X OwnInt3 \subseteq code
    BY <1>6 DEF Code, At
  <2>3. \A a \in HookAddr : At(a) \in code <=> At(a) \in int3
    BY <1>6, <1>7 DEF At
  <2>4. pending_leak # None =>
          At(pending_leak.ret) \in code /\ pending_leak.byte = Original(pending_leak.ret)
    BY <1>1, <1>6 DEF Allocating, HasSlot, At
  <2>5. code \in SUBSET Loc
    BY <1>0, <1>6 DEF TypeOK
  <2> QED
    BY <1>6, <1>7, <2>1, <2>2, <2>3, <2>4, <2>5 DEF Settled, Flags, Hooks
<1>9. Returning(here, FALSE)
  BY <1>1 DEF Returning, Allocating, Inside, here
<1>10. CASE arm_step(MainThread, step_target.over, code, None) /\ mode' = "loop"
            /\ should_keep_stepping(MainThread)
            /\ event' = [event EXCEPT ![MainThread] = "none"] /\ UNCHANGED step_target
  <2>1. event'[MainThread] = "none"
    BY <1>0, <1>10, Alone DEF TypeOK
  <2>2. step_target # None /\ step_target.over => "next" \in Commands
    BY DEF SteppingOver
  <2>3. Returning(rip[MainThread], past'[MainThread])
    BY <1>3, <1>9 DEF Returning, here
  <2>4. step_target.over => "next" \in Commands
    BY <1>10, <2>2 DEF should_keep_stepping
  <2> QED
    BY <1>0, <1>2, <1>3, <1>4, <1>8, <1>10, <2>1, <2>2, <2>3, <2>4, Arming
<1>11. CASE /\ int3' = code /\ step_target' = None /\ step_over_bp' = None
            /\ mode' = "prompt" /\ UNCHANGED <<event, tf>>
            /\ pending_continue' = [tid |-> MainThread, status |-> "continue"]
  <2>1. Returning(rip'[MainThread], past'[MainThread])
    BY <1>2, <1>3, <1>9 DEF Returning, here
  <2>2. Code' /\ Flags' /\ Finishing' /\ SteppingOver' /\ Hooks' /\ Allocating'
    BY <1>2, <1>4, <1>8, <1>11, <2>1, SettledNext
  <2>3. Raised' /\ Rearming' /\ NoStrayInt3'
    BY <1>1, <1>2, <1>3, <1>4, <1>11 DEF Raised, Rearming, NoStrayInt3
  <2> QED
    BY <2>2, <2>3
<1> QED
  BY <1>1, <1>2, <1>10, <1>11

\* A breakpoint is hit: on the way of nothing else, so nothing is forgotten.
LEMMA BreakpointHitOwned ==
  ASSUME Sequential, Before, OwnersInv, NEW t \in Thread, BreakpointHit(t)
  PROVE  OwnersInv'
<1> USE DEF OwnersInv
<1>0. TypeOK
  BY DEF Before, StepOffInv
<1>1. PICK l \in Loc : l = At(rip[MainThread])
  BY <1>0, Alone DEF At, Loc
<1>2. /\ t = MainThread /\ mode = "loop" /\ event[MainThread] = "bp"
      /\ breakpoints[l] # None /\ Here(t) = l /\ rip[MainThread] \in Addr
      /\ ~IsLeakReturn(t) /\ ~IsFinish(t) /\ ~IsStepOver(t)
  BY <1>0, <1>1, Alone DEF BreakpointHit, Wait, IsUser
<1>3. /\ rip[MainThread] \in Breakable /\ l[2] = rip[MainThread] /\ l[1] = Root
      /\ l[2] \notin OwnInt3 /\ l[2] \notin HookAddr
  BY <1>1, <1>2, EntryBreakable DEF At, Sequential, OneThread
<1>4. finish_bp = None /\ step_over_bp = None /\ pending_leak = None /\ pending_leak_rearm = None
  BY <1>2, <1>3, OnlyOwners DEF IsLeakReturn, IsFinish, IsStepOver, Stops, AllocStops
<1>5. breakpoints[l].byte = "insn" /\ Settled(int3)
  BY <1>2, <1>4, SettledHere DEF Flags
<1>6. /\ breakpoints' = [breakpoints EXCEPT ![l].enabled = FALSE]
      /\ int3' = int3 \ {l}
      /\ past' = [past EXCEPT ![MainThread] = FALSE] /\ tf' = [tf EXCEPT ![MainThread] = TRUE]
      /\ event' = [event EXCEPT ![MainThread] = "none"]
      /\ pending_breakpoint' = rip[MainThread] /\ ForgetTemporaries
      /\ UNCHANGED <<rip, mode, leak_hooks>>
  BY <1>0, <1>2, <1>5, Alone, WriteBack
     DEF BreakpointHit, StepOff, SetRip, SingleStep, Resume
<1>7. ~past'[MainThread] /\ event'[MainThread] = "none"
  BY <1>0, <1>6, Alone DEF TypeOK
<1>8. /\ breakpoints'[l] # None
      /\ breakpoints'[l].byte = "insn" /\ breakpoints'[l].enabled = FALSE
      /\ \A m \in Loc : m # l => breakpoints'[m] = breakpoints[m]
  <2>1. breakpoints[l] \in [byte : Byte, enabled : BOOLEAN]
    BY <1>0, <1>2 DEF TypeOK
  <2>2. /\ breakpoints'[l] = [breakpoints[l] EXCEPT !.enabled = FALSE]
        /\ \A m \in Loc : m # l => breakpoints'[m] = breakpoints[m]
    BY <1>0, <1>6 DEF TypeOK
  <2>3. breakpoints'[l] \in [byte : Byte, enabled : BOOLEAN]
    BY <2>1, <2>2
  <2> QED
    BY <1>5, <2>1, <2>2, <2>3, NoneApart DEF NoneApart
<1>9. Code'
  <2>1. ASSUME NEW m \in int3, m # l PROVE Owner(m)'
    <3>1. m \in Loc /\ leak_hooks' = leak_hooks
      BY <1>0, <1>6 DEF TypeOK
    <3>2. \/ m[2] \in OwnInt3 \/ breakpoints[m] # None
          \/ m[1] = Root /\ HookedAt(m[2])
      BY <1>4, <1>5 DEF Settled, Awaited
    <3> QED
      BY <1>8, <2>1, <3>1, <3>2 DEF Owner, HookedAt
  <2>2. Process \X OwnInt3 \subseteq int3'
    BY <1>3, <1>6 DEF Code
  <2> QED
    BY <1>6, <2>1, <2>2 DEF Code
<1>10. Flags'
  <2>1. SteppedOff' = l
    BY <1>0, <1>1, <1>6, Alone DEF SteppedOff, At
  <2>2. \A m \in Loc : breakpoints'[m] # None =>
          breakpoints'[m].byte = "insn" /\ (breakpoints'[m].enabled <=> m \in int3')
    BY <1>5, <1>6, <1>8 DEF Settled
  <2> QED
    BY <1>8, <2>1, <2>2 DEF Flags
<1>11. Hooks'
  <2>1. \A a \in HookAddr : At(a) \in int3' <=> At(a) \in int3
    BY <1>3, <1>6 DEF At
  <2> QED
    BY <1>4, <1>5, <1>6, <2>1 DEF Settled, Hooks, Out, ForgetTemporaries
<1>12. Finishing' /\ SteppingOver' /\ Rearming' /\ Allocating' /\ Raised' /\ NoStrayInt3'
  BY <1>2, <1>6, <1>7
     DEF Finishing, SteppingOver, Rearming, Allocating, Raised, NoStrayInt3, ForgetTemporaries
<1> QED
  BY <1>9, <1>10, <1>11, <1>12

-----------------------------------------------------------------------------
(* The handlers of STATUS_SINGLE_STEP.                                     *)

\* The thread's step event has spent the trap flag.
LEMMA TrapRaised ==
  ASSUME Sequential, Before, OwnersInv, NEW t \in Thread, WaitStep(t)
  PROVE  /\ t = MainThread /\ mode = "loop" /\ event[MainThread] = "step"
         /\ ~TakeWatchpointHits(t) /\ ~tf[MainThread] /\ ~past[MainThread]
<1>1. t = MainThread
  BY Alone DEF Before, StepOffInv
<1> QED
  BY <1>1 DEF WaitStep, Wait, TakeWatchpointHits, OwnersInv, Raised

\* The hook goes back in.
LEMMA LeakRearmOwned ==
  ASSUME Sequential, Before, OwnersInv, NEW t \in Thread, LeakRearm(t)
  PROVE  OwnersInv'
<1> USE DEF OwnersInv
<1>0. TypeOK
  BY DEF Before, StepOffInv
<1>1. PICK h \in HookAddr : h = pending_leak_rearm
  BY <1>0 DEF LeakRearm, TypeOK
<1>2. /\ t = MainThread /\ mode = "loop" /\ event[MainThread] = "step"
      /\ ~tf[MainThread] /\ ~past[MainThread] /\ <<ProcOf[t], pending_leak_rearm>> = At(h)
      /\ h # None /\ leak_hooks[h] # None /\ pending_leak = None
  BY <1>0, <1>1, TrapRaised, HookThere, Alone DEF LeakRearm, Rearming, At
<1>3. /\ At(h) \notin int3 /\ h \notin Breakable /\ h \notin OwnInt3 /\ At(h)[2] = h
      /\ breakpoints[At(h)] = None
  BY <1>1, <1>2, EntryBreakable, HookThere DEF Hooks, Out, Sequential, OneThread, At
<1>4. /\ int3' = int3 \cup {At(h)}
      /\ leak_hooks' = [leak_hooks EXCEPT ![h] = "insn"]
      /\ pending_leak_rearm' = None
      /\ event' = [event EXCEPT ![MainThread] = "none"]
      /\ UNCHANGED <<mode, rip, past, tf, breakpoints, pending_breakpoint, step_target,
                     step_over_bp, finish_bp, pending_leak>>
  <2>1. At(h)[2] = h /\ Read(int3, At(h)) = "insn" /\ Plant(int3, At(h)) = int3 \cup {At(h)}
    BY <1>3 DEF At, Read, Plant
  <2> QED
    BY <1>2, <2>1, Zenon DEF LeakRearm, Resume, threadVars, temps
<1>5. /\ event'[MainThread] = "none"
      /\ leak_hooks'[h] = "insn" /\ leak_hooks'[h] # None
      /\ \A a \in HookAddr : a # h => leak_hooks'[a] = leak_hooks[a]
  BY <1>0, <1>2, <1>4, Alone DEF TypeOK, Hooks
<1>6. Code'
  <2>1. ASSUME NEW l \in int3 PROVE Owner(l)'
    <3>1. Owner(l)
      BY DEF Code
    <3> QED
      BY <1>4, <1>5, <3>1 DEF Owner, HookedAt, Awaited, HasSlot
  <2>2. Owner(At(h))'
    BY <1>5 DEF Owner, HookedAt, At
  <2> QED
    BY <1>4, <2>1, <2>2 DEF Code
<1>7. Flags'
  BY <1>0, <1>3, <1>4 DEF Flags, SteppedOff
<1>8. Hooks'
  <2> SUFFICES ASSUME NEW a \in HookAddr, leak_hooks'[a] # None
               PROVE  leak_hooks'[a] = "insn" /\ At(a) \in int3'
    BY <1>2, <1>4, HookThere DEF Hooks, Out
  <2>1. CASE a = h
    BY <1>4, <1>5, <2>1
  <2>2. CASE a # h
    BY <1>1, <1>2, <1>4, <1>5, <2>2 DEF Hooks, Out
  <2> QED
    BY <2>1, <2>2
<1>9. Finishing' /\ Rearming' /\ Allocating'
  BY <1>1, <1>2, <1>3, <1>4, <1>5 DEF Finishing, Kept, Undisturbed, Rearming, Allocating
<1>10. SteppingOver'
  BY <1>1, <1>2, <1>3, <1>4, <1>5 DEF SteppingOver, Kept, Undisturbed, Calling
<1>11. Raised' /\ NoStrayInt3'
  BY <1>2, <1>4, <1>5 DEF Raised, NoStrayInt3
<1> QED
  BY <1>6, <1>7, <1>8, <1>9, <1>10, <1>11

\* The breakpoint goes back in, and its hit is the stop.
LEMMA BreakpointRearmOwned ==
  ASSUME Sequential, Before, OwnersInv, NEW t \in Thread, BreakpointRearm(t)
  PROVE  OwnersInv'
<1> USE DEF OwnersInv
<1>0. TypeOK
  BY DEF Before, StepOffInv
<1>1. /\ t = MainThread /\ mode = "loop" /\ event[MainThread] = "step"
      /\ ~TakeWatchpointHits(t) /\ ~tf[MainThread] /\ ~past[MainThread]
      /\ pending_breakpoint # None /\ pending_leak_rearm = None
      /\ finish_bp = None /\ step_over_bp = None /\ pending_leak = None
  BY <1>0, TrapRaised DEF BreakpointRearm, Before, StepOffInv, Pending
<1>2. PICK l \in Loc : l = SteppedOff
  BY <1>0, <1>1, Alone, Setting DEF SteppedOff, TypeOK, Loc
<1>3. /\ breakpoints[l] # None /\ ~breakpoints[l].enabled /\ l \notin int3
      /\ l[2] \in Breakable /\ l[2] \notin HookAddr /\ Settled(int3)
  BY <1>1, <1>2, EntryBreakable, SettledHere
     DEF Before, StepOffInv, Pending, Flags, Sequential, OneThread
<1>4. /\ breakpoints' = [breakpoints EXCEPT ![l] = [byte |-> "insn", enabled |-> TRUE]]
      /\ int3' = int3 \cup {l}
      /\ pending_breakpoint' = None /\ step_target' = step_target
      /\ mode' = "prompt" /\ UNCHANGED event
      /\ pending_continue' = [tid |-> MainThread, status |-> "continue"]
      /\ UNCHANGED <<rip, past, tf, step_over_bp, finish_bp, leak_hooks, pending_leak,
                     pending_leak_rearm>>
  BY <1>1, <1>2, <1>3 DEF BreakpointRearm, SteppedOff, Rearmed, Read, Plant, Stop, threadVars, leaks
<1>5. /\ breakpoints'[l] # None
      /\ breakpoints'[l].byte = "insn" /\ breakpoints'[l].enabled = TRUE
      /\ \A m \in Loc : m # l => breakpoints'[m] = breakpoints[m]
  BY <1>0, <1>4, EntryChanged
<1>6. Code'
  <2>1. ASSUME NEW m \in int3 PROVE Owner(m)'
    <3>1. Owner(m) /\ m \in Loc
      BY <1>0 DEF Code, TypeOK
    <3> QED
      BY <1>4, <1>5, <3>1 DEF Owner, HookedAt, Awaited, HasSlot
  <2>2. Owner(l)'
    BY <1>5 DEF Owner
  <2> QED
    BY <1>4, <2>1, <2>2 DEF Code
<1>7. Flags'
  BY <1>3, <1>4, <1>5 DEF Settled, Flags
<1>8. Hooks'
  <2>1. \A a \in HookAddr : At(a) \in int3' <=> At(a) \in int3
    BY <1>3, <1>4 DEF At
  <2> QED
    BY <1>3, <1>4, <2>1 DEF Settled, Hooks, Out
<1>9. Finishing' /\ SteppingOver' /\ Rearming' /\ Allocating' /\ Raised' /\ NoStrayInt3'
  BY <1>1, <1>4 DEF Finishing, SteppingOver, Rearming, Allocating, Raised, NoStrayInt3
<1> QED
  BY <1>6, <1>7, <1>8, <1>9

\* The end of a step, or one more unit of the line.
LEMMA StepEventOwned ==
  ASSUME Sequential, Before, OwnersInv, NEW t \in Thread, StepEvent(t)
  PROVE  OwnersInv'
<1> USE DEF OwnersInv
<1>0. TypeOK
  BY DEF Before, StepOffInv
<1>1. /\ t = MainThread /\ mode = "loop" /\ event[MainThread] = "step"
      /\ ~TakeWatchpointHits(t) /\ ~tf[MainThread] /\ ~past[MainThread]
      /\ pending_breakpoint = None /\ pending_leak_rearm = None
      /\ finish_bp = None /\ step_over_bp = None
  BY TrapRaised DEF StepEvent, Finishing, SteppingOver, Undisturbed
<1>2. Settled(int3) /\ int3 \in SUBSET Loc
  BY <1>0, <1>1, SettledHere DEF TypeOK
<1>3. Returning(rip[MainThread], past[MainThread])
  BY <1>1 DEF Returning, Allocating, Inside
<1>4. UNCHANGED <<rip, past, breakpoints, pending_breakpoint, finish_bp,
                  leak_hooks, pending_leak, pending_leak_rearm>>
  BY DEF StepEvent, leaks
<1>5. CASE ~should_keep_stepping(t)
  <2>1. /\ step_target' = None /\ mode' = "prompt" /\ UNCHANGED <<int3, tf, step_over_bp, event>>
        /\ pending_continue' = [tid |-> MainThread, status |-> "continue"]
    BY <1>1, <1>5 DEF StepEvent, Stop
  <2>2. Code' /\ Flags' /\ Finishing' /\ SteppingOver' /\ Hooks' /\ Allocating'
    BY <1>1, <1>2, <1>3, <1>4, <2>1, SettledNext
  <2>3. Raised' /\ Rearming' /\ NoStrayInt3'
    BY <1>1, <1>4, <2>1 DEF Raised, Rearming, NoStrayInt3
  <2> QED
    BY <2>2, <2>3
<1>6. CASE should_keep_stepping(t)
  <2>1. /\ arm_step(MainThread, step_target.over, int3, None)
        /\ event' = [event EXCEPT ![MainThread] = "none"] /\ UNCHANGED <<mode, step_target>>
    BY <1>1, <1>6 DEF StepEvent, Resume
  <2>2. event'[MainThread] = "none"
    BY <1>0, <2>1, Alone DEF TypeOK
  <2>3. step_target.over => "next" \in Commands
    BY <1>6 DEF SteppingOver, should_keep_stepping
  <2> QED
    BY <1>0, <1>1, <1>2, <1>3, <1>4, <2>1, <2>2, <2>3, Arming
<1> QED
  BY <1>5, <1>6

-----------------------------------------------------------------------------
(* The other events.                                                       *)

\* An INT3 nobody claims is the program's, and in no one's way.
LEMMA OtherExceptionOwned ==
  ASSUME Sequential, Before, OwnersInv, NEW t \in Thread, OtherException(t)
  PROVE  OwnersInv'
<1> USE DEF OwnersInv
<1>0. TypeOK
  BY DEF Before, StepOffInv
<1>1. /\ t = MainThread /\ mode = "loop" /\ event[MainThread] = "bp"
      /\ ~IsLeakReturn(t) /\ ~IsHook(t) /\ ~IsFinish(t) /\ ~IsStepOver(t)
      /\ breakpoints[At(rip[MainThread])] = None
  BY <1>0, Alone DEF OtherException, Wait, Raised, IsUser
<1>2. rip[MainThread] \in OwnInt3
  <2>1. Owner(At(rip[MainThread]))
    BY <1>1 DEF Code, Raised
  <2> QED
    BY <1>1, <2>1
       DEF Owner, HookedAt, Awaited, HasSlot, IsLeakReturn, IsHook, IsFinish, IsStepOver, At
<1>3. finish_bp = None /\ step_over_bp = None /\ pending_leak = None /\ pending_leak_rearm = None
  BY <1>1, <1>2, OnlyOwners DEF IsLeakReturn, IsFinish, IsStepOver, Stops, AllocStops
<1>4. pending_breakpoint = None
  BY <1>0, <1>1, Alone DEF Before, StepOffInv, Pending, OnTheWay, SteppedOff, At
<1>5. /\ mode' = "prompt" /\ UNCHANGED <<event, int3, rip, past, tf, breakpoints,
                                        pending_breakpoint, leak_hooks>>
      /\ ForgetTemporaries
  BY DEF OtherException, Stop, threadVars
<1>6. Code' /\ Flags' /\ Finishing' /\ SteppingOver' /\ Hooks' /\ Allocating'
  BY <1>1, <1>3, <1>4, <1>5, SettledHere, SettledNext DEF ForgetTemporaries, Returning
<1>7. Raised' /\ Rearming' /\ NoStrayInt3'
  <2>1. pending_continue' = [tid |-> MainThread, status |-> "not_handled"]
    BY <1>1 DEF OtherException, Stop
  <2> QED
    BY <1>1, <1>2, <1>5, <2>1 DEF Raised, Rearming, NoStrayInt3, ForgetTemporaries
<1> QED
  BY <1>6, <1>7

\* A notice is answered.
LEMMA OtherEventOwned ==
  ASSUME Sequential, Before, OwnersInv, NEW t \in Thread, OtherEvent(t)
  PROVE  OwnersInv'
<1> USE DEF OwnersInv
<1>1. t = MainThread /\ mode = "loop" /\ event[MainThread] = "notice"
  BY Alone DEF OtherEvent, Wait, Before, StepOffInv
<1>2. /\ event' = [event EXCEPT ![MainThread] = "none"]
      /\ UNCHANGED <<int3, rip, past, tf, mode, breakpoints, pending_breakpoint,
                     step_target, step_over_bp, finish_bp, leak_hooks, pending_leak,
                     pending_leak_rearm>>
  BY <1>1 DEF OtherEvent, Resume, temps, leaks, threadVars
<1>3. event'[MainThread] = "none"
  BY <1>2, Alone DEF Before, StepOffInv, TypeOK
<1>4. Code' /\ Flags' /\ Hooks'
  BY <1>2 DEF Code, Flags, Hooks, Owner, HookedAt, Awaited, HasSlot, Out, SteppedOff
<1>5. Raised' /\ NoStrayInt3' /\ Rearming'
  BY <1>1, <1>2, <1>3 DEF Raised, NoStrayInt3, Rearming
<1>6. Finishing' /\ SteppingOver'
  BY <1>1, <1>2, <1>3 DEF Finishing, SteppingOver, Kept, Undisturbed, Calling
<1>7. Allocating'
  BY <1>1, <1>2, <1>3 DEF Allocating, Inside, HasSlot
<1> QED
  BY <1>4, <1>5, <1>6, <1>7

\* Every handler keeps the owners.
LEMMA HandleOwned ==
  ASSUME Sequential, Before, OwnersInv, NEW t \in Thread, Handle(t)
  PROVE  OwnersInv'
<1>1. ~Interrupted(t)
  BY Alone DEF Interrupted, Before, StepOffInv, OwnersInv, Raised
<1> QED
  BY <1>1, LeakReturnOwned, LeakHookOwned, FinishHitOwned, StepOverHitOwned,
     BreakpointHitOwned, LeakRearmOwned, BreakpointRearmOwned, StepEventOwned,
     OtherExceptionOwned, OtherEventOwned
     DEF Handle

-----------------------------------------------------------------------------
(* The commands.                                                           *)

\* What the prompt finds.
LEMMA AtPrompt ==
  ASSUME Sequential, Before, OwnersInv, mode = "prompt"
  PROVE  /\ finish_bp = None /\ step_over_bp = None
         /\ pending_breakpoint = None /\ pending_leak_rearm = None
         /\ Settled(int3) /\ Returning(rip[MainThread], past[MainThread])
         /\ tf[MainThread] \/ past[MainThread] => rip[MainThread] \in OwnInt3
BY PromptIdle, SettledHere DEF OwnersInv, Returning, Allocating, Inside, Raised

\* The reply the prompt has recorded is the main thread's.
LEMMA ContinuesMain ==
  ASSUME Sequential, Before, mode = "prompt", continue_execution
  PROVE  mode' = "loop" /\ event'[MainThread] = "none"
BY Alone DEF Before, StepOffInv, OneReplyOwed, continue_execution, TypeOK

\* No one has covered an instruction where a breakpoint may be set.
LEMMA UncoveredBreakable ==
  ASSUME Sequential, Before, OwnersInv, mode = "prompt",
         NEW l \in Loc, l[2] \in Breakable, breakpoints[l] = None
  PROVE  l \notin int3
<1>1. l[2] \notin OwnInt3 /\ ~HookedAt(l[2])
  BY DEF Sequential, OneThread, HookedAt
<1>2. ~Awaited(l[2])
  BY DEF Awaited, OwnersInv, Allocating, Before, StepOffInv, TypeOK, Sequential, AllocatorsReturn
<1> QED
  BY <1>1, <1>2, AtPrompt DEF Settled

\* break, at a location that has no entry.
LEMMA BreakOwned ==
  ASSUME Sequential, Before, OwnersInv, NEW l \in Loc, set_breakpoint(l)
  PROVE  OwnersInv'
<1> USE DEF OwnersInv
<1>0. TypeOK
  BY DEF Before, StepOffInv
<1>1. /\ mode = "prompt" /\ breakpoints[l] = None /\ l[2] \in Breakable
      /\ l[2] \notin HookAddr
  BY DEF set_breakpoint, Targets, Sequential, OneThread
<1>2. /\ breakpoints' = [breakpoints EXCEPT ![l] = [byte |-> "insn", enabled |-> TRUE]]
      /\ int3' = int3 \cup {l}
      /\ UNCHANGED <<mode, event, rip, past, tf, pending_breakpoint, pending_continue, step_target,
                     step_over_bp, finish_bp, leak_hooks, pending_leak, pending_leak_rearm>>
  BY <1>1, UncoveredBreakable DEF set_breakpoint, Read, Plant, threadVars, temps, leaks
<1>3. /\ breakpoints'[l] # None
      /\ breakpoints'[l].byte = "insn" /\ breakpoints'[l].enabled = TRUE
      /\ \A m \in Loc : m # l => breakpoints'[m] = breakpoints[m]
  BY <1>0, <1>2, EntryChanged
<1>4. Code'
  <2>1. ASSUME NEW m \in int3 PROVE Owner(m)'
    <3>1. Owner(m) /\ m \in Loc
      BY <1>0 DEF Code, TypeOK
    <3> QED
      BY <1>2, <1>3, <3>1 DEF Owner, HookedAt, Awaited, HasSlot
  <2>2. Owner(l)'
    BY <1>3 DEF Owner
  <2> QED
    BY <1>2, <2>1, <2>2 DEF Code
<1>5. Flags'
  BY <1>1, <1>2, <1>3, AtPrompt DEF Settled, Flags
<1>6. Hooks'
  <2>1. \A a \in HookAddr : At(a) \in int3' <=> At(a) \in int3
    BY <1>1, <1>2 DEF At
  <2> QED
    BY <1>2, <2>1 DEF Hooks, Out
<1>7. Finishing' /\ SteppingOver' /\ Rearming' /\ Raised' /\ NoStrayInt3'
  BY <1>1, <1>2, AtPrompt DEF Finishing, SteppingOver, Rearming, Raised, NoStrayInt3
<1>8. Allocating'
  BY <1>2 DEF Allocating, Inside, HasSlot
<1> QED
  BY <1>4, <1>5, <1>6, <1>7, <1>8

\* delete.
LEMMA DeleteOwned ==
  ASSUME Sequential, Before, OwnersInv, NEW l \in Loc, Delete(l)
  PROVE  OwnersInv'
<1> USE DEF OwnersInv
<1>0. TypeOK
  BY DEF Before, StepOffInv
<1>1. /\ mode = "prompt" /\ breakpoints[l] # None /\ l[2] \in Breakable
      /\ l[2] \notin HookAddr /\ l[2] \notin OwnInt3 /\ breakpoints[l].byte = "insn"
  BY EntryBreakable DEF Delete, Command, Sequential, OneThread, Flags
<1>2. /\ breakpoints' = [breakpoints EXCEPT ![l] = None]
      /\ int3' = int3 \ {l}
      /\ UNCHANGED <<mode, event, rip, past, tf, pending_breakpoint, pending_continue, step_target,
                     step_over_bp, finish_bp, leak_hooks, pending_leak, pending_leak_rearm>>
  BY <1>1, WriteBack DEF Delete, threadVars, temps, leaks
<1>3. \A m \in Loc : m # l => breakpoints'[m] = breakpoints[m]
  BY <1>0, <1>2 DEF TypeOK
<1>4. breakpoints'[l] = None
  BY <1>0, <1>2 DEF TypeOK
<1>5. Code'
  <2>1. ASSUME NEW m \in int3, m # l PROVE Owner(m)'
    <3>1. Owner(m) /\ m \in Loc
      BY <1>0 DEF Code, TypeOK
    <3> QED
      BY <1>2, <1>3, <2>1, <3>1 DEF Owner, HookedAt, Awaited, HasSlot
  <2>2. Process \X OwnInt3 \subseteq int3'
    BY <1>1, <1>2 DEF Code
  <2> QED
    BY <1>2, <2>1, <2>2 DEF Code
<1>6. Flags'
  BY <1>1, <1>2, <1>3, <1>4, AtPrompt DEF Settled, Flags
<1>7. Hooks'
  <2>1. \A a \in HookAddr : At(a) \in int3' <=> At(a) \in int3
    BY <1>1, <1>2 DEF At
  <2> QED
    BY <1>2, <2>1 DEF Hooks, Out
<1>8. Finishing' /\ SteppingOver' /\ Rearming' /\ Raised' /\ NoStrayInt3'
  BY <1>1, <1>2, AtPrompt DEF Finishing, SteppingOver, Rearming, Raised, NoStrayInt3
<1>9. Allocating'
  <2>1. pending_leak # None => pending_leak.ret \notin Breakable
    BY <1>0 DEF Allocating, TypeOK, Sequential, AllocatorsReturn
  <2> QED
    BY <1>1, <1>2, <2>1 DEF Allocating, Inside, HasSlot, At
<1> QED
  BY <1>5, <1>6, <1>7, <1>8, <1>9

\* continue.
LEMMA ContinueOwned ==
  ASSUME Sequential, Before, OwnersInv, Continue
  PROVE  OwnersInv'
<1> USE DEF OwnersInv
<1>1. mode = "prompt" /\ continue_execution
  BY DEF Continue, Command
<1>2. UNCHANGED <<int3, rip, past, tf, breakpoints, pending_breakpoint, step_target, step_over_bp,
                  finish_bp, leak_hooks, pending_leak, pending_leak_rearm>>
  BY DEF Continue, threadVars, temps, leaks
<1>3. mode' = "loop" /\ event'[MainThread] = "none"
  BY <1>1, ContinuesMain
<1>4. Code' /\ Flags' /\ Finishing' /\ SteppingOver' /\ Hooks' /\ Allocating'
  BY <1>1, <1>2, AtPrompt, SettledNext DEF SteppingOver
<1>5. Raised' /\ Rearming' /\ NoStrayInt3'
  BY <1>1, <1>2, <1>3, AtPrompt DEF Raised, Rearming, NoStrayInt3
<1> QED
  BY <1>4, <1>5

\* step and next.
LEMMA StartStepOwned ==
  ASSUME Sequential, Before, OwnersInv, NEW over \in BOOLEAN, start_step(over)
  PROVE  OwnersInv'
<1>0. TypeOK
  BY DEF Before, StepOffInv
<1>1. /\ mode = "prompt" /\ continue_execution
      /\ over => "next" \in Commands
      /\ step_target' = [over |-> over, start |-> Line[rip[last_thread_id]]]
  BY DEF start_step, Command
<1>2. /\ UNCHANGED <<rip, past, breakpoints, pending_breakpoint, finish_bp, leak_hooks,
                     pending_leak, pending_leak_rearm>>
      /\ arm_step(last_thread_id, over, int3, step_over_bp)
  BY DEF start_step, leaks
<1>3. arm_step(MainThread, over, int3, None)
  BY <1>0, <1>1, <1>2, AtPrompt, Alone
<1>4. mode' = "loop" /\ event'[MainThread] = "none"
  BY <1>1, ContinuesMain
<1>5. rip[MainThread] \in OwnInt3 => At(rip[MainThread]) \in int3
  BY <1>0, Alone DEF OwnersInv, Code, At
<1>6. int3 \in SUBSET Loc /\ Allocating
  BY <1>0 DEF TypeOK, OwnersInv
<1>7. step_target'.over => "next" \in Commands
  <2>1. step_target' = [over |-> over, start |-> Line[rip[last_thread_id]]]
    BY DEF start_step
  <2>2. step_target'.over = over
    BY <2>1
  <2> QED
    BY <1>1, <2>2
<1> QED
  BY <1>0, <1>1, <1>2, <1>3, <1>4, <1>5, <1>6, <1>7, AtPrompt, Arming

\* up.
LEMMA UpOwned ==
  ASSUME Sequential, Before, OwnersInv, NEW a \in Addr, finish(a)
  PROVE  OwnersInv'
<1> USE DEF OwnersInv
<1>0. TypeOK
  BY DEF Before, StepOffInv
<1>1. /\ mode = "prompt" /\ continue_execution /\ "up" \in Commands
      /\ a \in ReturnSites[rip[MainThread]] /\ <<ProcOf[last_thread_id], a>> = At(a)
      /\ last_thread_id = MainThread
  BY <1>0, Alone DEF finish, Command, At
<1>2. /\ UNCHANGED <<rip, past, tf, breakpoints, pending_breakpoint, step_target, step_over_bp,
                     leak_hooks, pending_leak, pending_leak_rearm>>
      /\ \/ UNCHANGED <<int3, finish_bp>>
         \/ /\ breakpoints[At(a)] = None
            /\ finish_bp' = [addr |-> a, byte |-> Read(int3, At(a))]
            /\ int3' = int3 \cup {At(a)}
  BY <1>1 DEF finish, Plant, threadVars, leaks
<1>3. mode' = "loop" /\ event'[MainThread] = "none"
  BY <1>1, ContinuesMain
<1>4. Raised' /\ Rearming' /\ NoStrayInt3'
  BY <1>1, <1>2, <1>3, AtPrompt DEF Raised, Rearming, NoStrayInt3
<1>5. CASE UNCHANGED <<int3, finish_bp>>
  <2>1. Code' /\ Flags' /\ Finishing' /\ SteppingOver' /\ Hooks' /\ Allocating'
    BY <1>1, <1>2, <1>5, AtPrompt, SettledNext DEF SteppingOver
  <2> QED
    BY <1>4, <2>1
<1>6. CASE /\ breakpoints[At(a)] = None
           /\ finish_bp' = [addr |-> a, byte |-> Read(int3, At(a))]
           /\ int3' = int3 \cup {At(a)}
  <2>1. /\ a \notin HookAddr /\ rip[MainThread] \notin OwnInt3
        /\ RunsTo(rip[MainThread], a, Stops) /\ At(a) \in Loc /\ Root \in Process
    BY <1>0, <1>1, Alone DEF Sequential, FramesReturn, Loc, At
  <2>2. pending_leak = None
    BY <1>0, <1>1, NoFinish DEF Allocating, Sequential, AllocatorsReturn, TypeOK
  <2>3. Read(int3, At(a)) = Original(a)
    <3>1. a \in OwnInt3 => At(a) \in int3
      BY <2>1 DEF Code, At
    <3>2. At(a) \in int3 => a \in OwnInt3
      BY <1>1, <1>6, <2>1, <2>2, AtPrompt DEF Settled, HookedAt, Awaited, At
    <3> QED
      BY <3>1, <3>2 DEF Read, Original
  <2>4. finish_bp' # None /\ finish_bp'.addr = a /\ finish_bp'.byte = Original(a)
    BY <1>6, <2>3, NoneApart DEF NoneApart, Slot, Original, Byte
  <2>5. Code'
    <3>1. ASSUME NEW l \in int3 PROVE Owner(l)'
      BY <1>1, <1>2, AtPrompt DEF Settled, Owner, HookedAt, Awaited
    <3>2. Owner(At(a))'
      BY <2>4 DEF Owner, HasSlot, At
    <3> QED
      BY <1>6, <3>1, <3>2 DEF Code
  <2>6. Flags' /\ SteppingOver' /\ Allocating'
    BY <1>1, <1>2, <1>6, <2>2, AtPrompt DEF Settled, Flags, SteppingOver, Allocating
  <2>7. Finishing'
    BY <1>1, <1>2, <1>3, <1>6, <2>1, <2>4, AtPrompt DEF Finishing, Kept, Undisturbed
  <2>8. Hooks'
    BY <1>1, <1>2, <1>6, <2>1, AtPrompt DEF Settled, Hooks, Out, At
  <2> QED
    BY <1>4, <2>5, <2>6, <2>7, <2>8
<1> QED
  BY <1>2, <1>5, <1>6

\* thread.
LEMMA ThreadOwned ==
  ASSUME Sequential, Before, OwnersInv, NEW t \in Thread, switch_thread(t)
  PROVE  OwnersInv'
<1>1. /\ mode = "prompt"
      /\ UNCHANGED <<int3, rip, past, tf, event, mode, breakpoints, pending_breakpoint,
                     pending_continue, temps, leak_hooks, leaks>>
  BY DEF switch_thread, Command, threadVars
<1>2. Code' /\ Flags' /\ Finishing' /\ SteppingOver' /\ Hooks' /\ Allocating'
  BY <1>1, AtPrompt, SettledNext DEF OwnersInv, SteppingOver, temps, leaks
<1>3. Raised' /\ Rearming' /\ NoStrayInt3'
  BY <1>1, AtPrompt DEF OwnersInv, Raised, Rearming, NoStrayInt3, temps, leaks
<1> QED
  BY <1>2, <1>3 DEF OwnersInv

\* leak start: the hooks cover the program's own bytes.
LEMMA LeakStartOwned ==
  ASSUME Sequential, Before, OwnersInv, start_leak_tracking
  PROVE  OwnersInv'
<1> USE DEF OwnersInv
<1>0. TypeOK
  BY DEF Before, StepOffInv
<1>1. mode = "prompt" /\ \A a \in HookAddr : leak_hooks[a] = None
  BY Zenon DEF start_leak_tracking, Command
<1>2. /\ leak_hooks' = [a \in HookAddr |-> Read(int3, <<Root, a>>)]
      /\ int3' = int3 \cup ({Root} \X HookAddr)
      /\ UNCHANGED <<rip, past, tf, event, mode, breakpoints, pending_breakpoint,
                     pending_continue, step_target, step_over_bp, finish_bp,
                     pending_leak, pending_leak_rearm>>
  BY Zenon DEF start_leak_tracking, threadVars, temps, leaks
<1>3. pending_leak = None /\ pending_leak_rearm = None
  BY <1>0, <1>1 DEF Allocating, Rearming, TypeOK
<1>4. \A a \in HookAddr : At(a) \notin int3 /\ breakpoints[At(a)] = None
  <2> SUFFICES ASSUME NEW a \in HookAddr PROVE At(a) \notin int3 /\ breakpoints[At(a)] = None
    OBVIOUS
  <2>1. At(a) \in Loc /\ At(a)[2] = a /\ a \notin Breakable /\ a \notin OwnInt3
    BY HookThere DEF At, Sequential, OneThread
  <2>2. breakpoints[At(a)] = None
    BY <2>1, EntryBreakable
  <2> QED
    BY <1>1, <1>3, <2>1, <2>2, AtPrompt DEF Settled, HookedAt, Awaited
<1>5. \A a \in HookAddr : leak_hooks'[a] = "insn" /\ At(a) \in int3' /\ leak_hooks'[a] # None
  BY <1>2, <1>4, NoneApart DEF NoneApart, Byte, At, Read
<1>6. Code'
  <2>1. ASSUME NEW l \in int3 PROVE Owner(l)'
    BY <1>1, <1>2, <1>3, AtPrompt DEF Settled, Owner, HookedAt, Awaited
  <2>2. ASSUME NEW l \in {Root} \X HookAddr PROVE Owner(l)'
    BY <1>5 DEF Owner, HookedAt
  <2> QED
    BY <1>2, <2>1, <2>2 DEF Code
<1>7. Flags'
  <2>1. \A l \in Loc : breakpoints[l] # None => (l \in int3' <=> l \in int3)
    BY <1>2, <1>4 DEF At
  <2> QED
    BY <1>1, <1>2, <2>1, AtPrompt DEF Settled, Flags
<1>8. Hooks'
  BY <1>2, <1>3, <1>5, HookThere DEF Hooks, Out
<1>9. Finishing' /\ SteppingOver' /\ Rearming' /\ Allocating' /\ Raised' /\ NoStrayInt3'
  BY <1>1, <1>2, <1>3, AtPrompt
     DEF Finishing, SteppingOver, Rearming, Allocating, Raised, NoStrayInt3
<1> QED
  BY <1>6, <1>7, <1>8, <1>9

\* leak stop: every hook's byte goes back.
LEMMA LeakStopOwned ==
  ASSUME Sequential, Before, OwnersInv, stop_leak_tracking
  PROVE  OwnersInv'
<1> USE DEF OwnersInv
<1>0. TypeOK
  BY DEF Before, StepOffInv
<1>1. mode = "prompt" /\ "leak stop" \in Commands
  BY Zenon DEF stop_leak_tracking, Command
<1>u. ~UpFree
  BY <1>1, Zenon DEF UpFree
<1>2. /\ leak_hooks' = [a \in HookAddr |-> None]
      /\ int3' = (int3 \ Saved("insn")) \cup Saved("int3")
      /\ UNCHANGED <<rip, past, tf, event, mode, breakpoints, pending_breakpoint,
                     pending_continue, step_target, step_over_bp, finish_bp>>
      /\ pending_leak' = None /\ pending_leak_rearm' = None
  BY Zenon DEF stop_leak_tracking, threadVars, temps, leaks
<1> HIDE DEF UpFree
<1>m. mode = "prompt"
  BY <1>1, Zenon
<1>3. pending_leak = None
  BY <1>0, <1>u DEF Allocating, Sequential, AllocatorsReturn, TypeOK
<1>4. /\ Saved("int3") = {}
      /\ \A l \in Saved("insn") : l[2] \in HookAddr
      /\ \A l \in Loc : l[1] = Root /\ HookedAt(l[2]) => l \in Saved("insn")
  <2>1. Saved("int3") = {}
    BY NoneApart DEF NoneApart, Byte, Saved, Hooks
  <2>2. \A l \in Saved("insn") : l[2] \in HookAddr
    BY DEF Saved
  <2>3. ASSUME NEW l \in Loc, l[1] = Root, HookedAt(l[2]) PROVE l \in Saved("insn")
    <3>1. l = <<Root, l[2]>> /\ l[2] \in HookAddr /\ leak_hooks[l[2]] = "insn"
      BY <2>3 DEF Loc, Hooks, HookedAt
    <3> QED
      BY <3>1 DEF Saved
  <2> QED
    BY <2>1, <2>2, <2>3
<1>5. int3' = int3 \ Saved("insn") /\ \A a \in HookAddr : leak_hooks'[a] = None
  BY <1>2, <1>4
<1>6. Code'
  <2>1. ASSUME NEW l \in int3' PROVE Owner(l)'
    <3>1. l \in int3 /\ l \in Loc /\ l \notin Saved("insn")
      BY <1>0, <1>5 DEF TypeOK
    <3>2. l[1] = Root => ~HookedAt(l[2])
      BY <1>4, <3>1
    <3> QED
      BY <1>m, <1>2, <1>3, <3>1, <3>2, AtPrompt DEF Settled, Owner, Awaited
  <2>2. Process \X OwnInt3 \subseteq int3'
    BY <1>4, <1>5 DEF Code, Sequential
  <2> QED
    BY <2>1, <2>2 DEF Code
<1>7. Flags'
  <2>1. \A l \in Loc : breakpoints[l] # None => (l \in int3' <=> l \in int3)
    BY <1>4, <1>5, EntryBreakable DEF Sequential, OneThread
  <2> QED
    BY <1>m, <1>2, <2>1, AtPrompt DEF Settled, Flags
<1>8. Hooks'
  BY <1>5 DEF Hooks
<1>9. Finishing' /\ SteppingOver' /\ Rearming' /\ Allocating' /\ Raised' /\ NoStrayInt3'
  BY <1>m, <1>2, AtPrompt
     DEF Finishing, SteppingOver, Rearming, Allocating, Raised, NoStrayInt3
<1> QED
  BY <1>6, <1>7, <1>8, <1>9

-----------------------------------------------------------------------------
(* The theorems.                                                           *)

\* At the start there is nothing but the program's own INT3s.
LEMMA InitOwned == ASSUME Sequential, Init PROVE OwnersInv
<1>1. Code /\ Flags /\ Hooks
  BY DEF Init, Code, Owner, Flags, Hooks, Loc
<1>2. Raised
  BY Alone, InitTyped DEF Init, Raised
<1>3. Finishing /\ SteppingOver /\ Rearming /\ Allocating /\ NoStrayInt3
  BY DEF Init, Finishing, SteppingOver, Rearming, Allocating, NoStrayInt3
<1> QED
  BY <1>1, <1>2, <1>3 DEF OwnersInv

\* Every step keeps the owners.
LEMMA StepOwned == ASSUME Sequential, Before, OwnersInv, [Next]_vars PROVE OwnersInv'
<1>1. CASE User
  BY <1>1, BreakOwned, DeleteOwned, ContinueOwned, StartStepOwned, UpOwned, ThreadOwned,
     LeakStartOwned, LeakStopOwned DEF User
<1>2. ~CtrlC
  BY DEF CtrlC, Sequential, OneThread
<1>3. ASSUME NEW t \in Thread, Debuggee(t) PROVE OwnersInv'
  <2>1. ~Fault(t)
    BY DEF Fault, Sequential, OneThread
  <2> QED
    BY <1>3, <2>1, HitOwned, ExecuteOwned, NotifyOwned DEF Debuggee
<1>4. ASSUME NEW t \in Thread, Handle(t) PROVE OwnersInv'
  BY <1>4, HandleOwned
<1>5. CASE UNCHANGED vars
  <2>1. UNCHANGED <<int3, rip, past, tf, event, mode, breakpoints, pending_breakpoint,
                    pending_continue, step_target, step_over_bp, finish_bp, leak_hooks,
                    pending_leak, pending_leak_rearm>>
    BY <1>5 DEF vars, threadVars, temps, leaks
  <2>2. Code' /\ Raised' /\ Flags' /\ Hooks' /\ Rearming' /\ NoStrayInt3'
    BY <2>1 DEF OwnersInv, Code, Owner, HookedAt, Awaited, HasSlot, Raised, Flags, SteppedOff,
       Hooks, Out, Rearming, NoStrayInt3
  <2>3. Finishing' /\ SteppingOver' /\ Allocating'
    BY <2>1 DEF OwnersInv, Finishing, SteppingOver, Allocating, Kept, Undisturbed, Calling,
       Inside, HasSlot
  <2> QED
    BY <2>2, <2>3 DEF OwnersInv
<1> QED
  BY <1>1, <1>2, <1>3, <1>4, <1>5 DEF Next

\* In a sequential session every INT3 and every saved byte has its owner.
LEMMA OwnersInvariant == ASSUME Sequential PROVE Spec => [](Before /\ OwnersInv)
<1>0. OneThread /\ Denied = {}
  BY DEF Sequential, OneThread
<1>1. Spec => []Before
  BY <1>0, StepOffInvariant, RepliesBalance, PTL DEF Before
<1>2. Init => OwnersInv
  BY InitOwned
<1>3. Before /\ OwnersInv /\ [Next]_vars => OwnersInv'
  BY StepOwned
<1> QED
  BY <1>1, <1>2, <1>3, PTL DEF Spec

\* Every temporary INT3 that finish_bp, step_over_bp or pending_leak remembers is
\* in the code, and every allocator hook is, but for the one whose thread is
\* still to come back.
THEOREM TemporariesStay == ASSUME Sequential PROVE Spec => []TemporariesPlanted
<1>1. Before /\ OwnersInv => TemporariesPlanted
  <2> SUFFICES ASSUME Before, OwnersInv PROVE TemporariesPlanted
    OBVIOUS
  <2>1. Root \in Process
    BY Setting DEF Setting
  <2>2. /\ finish_bp # None => At(finish_bp.addr) \in int3
        /\ step_over_bp # None => At(step_over_bp.addr) \in int3
        /\ pending_leak # None => At(pending_leak.ret) \in int3
    BY DEF OwnersInv, Finishing, SteppingOver, Kept, Allocating
  <2>3. \A a \in HookAddr : leak_hooks[a] # None =>
          (At(a) \in int3 <=>
             /\ pending_leak_rearm # a
             /\ pending_leak = None \/ pending_leak.hook # a)
    BY DEF OwnersInv, Hooks, Out
  <2> QED
    BY <2>1, <2>2, <2>3 DEF TemporariesPlanted, At
<1> QED
  BY <1>1, OwnersInvariant, PTL

\* The byte under every INT3 the debugger planted is on record, whatever mix of
\* break, delete, step, next, up and leak tracking planted it.
THEOREM BytesOnRecord == ASSUME Sequential PROVE Spec => []OriginalKept
<1>1. Before /\ OwnersInv => OriginalKept
  <2> SUFFICES ASSUME Before, OwnersInv, NEW l \in int3, l[2] \notin OwnInt3
               PROVE  \/ breakpoints[l] # None /\ breakpoints[l].byte = "insn"
                      \/ finish_bp = [addr |-> l[2], byte |-> "insn"]
                      \/ step_over_bp = [addr |-> l[2], byte |-> "insn"]
                      \/ l[2] \in HookAddr /\ leak_hooks[l[2]] = "insn"
                      \/ /\ pending_leak # None
                         /\ pending_leak.ret = l[2] /\ pending_leak.byte = "insn"
    BY DEF OriginalKept
  <2>1. TypeOK /\ l \in Loc /\ Owner(l)
    BY DEF Before, StepOffInv, TypeOK, OwnersInv, Code
  <2>2. CASE breakpoints[l] # None
    BY <2>1, <2>2 DEF OwnersInv, Flags
  <2>3. CASE HookedAt(l[2])
    BY <2>3 DEF HookedAt, OwnersInv, Hooks
  <2>4. CASE HasSlot(finish_bp, l[2])
    BY <2>1, <2>4 DEF HasSlot, OwnersInv, Finishing, Kept, Original, TypeOK, Slot
  <2>5. CASE HasSlot(step_over_bp, l[2])
    BY <2>1, <2>5 DEF HasSlot, OwnersInv, SteppingOver, Kept, Original, TypeOK, Slot
  <2>6. CASE Awaited(l[2]) /\ ~HasSlot(step_over_bp, l[2])
    BY <2>6 DEF Awaited, OwnersInv, Allocating, Original
  <2> QED
    BY <2>1, <2>2, <2>3, <2>4, <2>5, <2>6 DEF Owner
<1> QED
  BY <1>1, OwnersInvariant, PTL

\* The enabled flag of every breakpoint tells whether its INT3 is in the code,
\* also while hooks and temporaries come and go.
THEOREM FlagsTrueToCode == ASSUME Sequential PROVE Spec => []EnabledIffPlanted
<1>1. OwnersInv => EnabledIffPlanted
  BY DEF OwnersInv, Flags, EnabledIffPlanted
<1> QED
  BY <1>1, OwnersInvariant, PTL

\* Nothing the debugger planted ever reaches the program as an exception of its
\* own: not a temporary, not a hook, not a breakpoint.
THEOREM NothingStray == ASSUME Sequential PROVE Spec => []NoStrayInt3
<1>1. OwnersInv => NoStrayInt3
  BY DEF OwnersInv
<1> QED
  BY <1>1, OwnersInvariant, PTL

\* While breakpoints, the INT3s of next and up, and allocator hooks come and go, a
\* sequential session's program runs as it does alone.
THEOREM SequentialRunsAsAlone == ASSUME Sequential PROVE Spec => RunsAsAlone
<1>1. Spec => [](Before /\ OwnersInv)
  BY OwnersInvariant
<1>2. Before /\ OwnersInv => Tame
  BY DEF Before, StepOffInv, OwnersInv, Code, Tame, OwnPlanted
<1>3. Init => AloneInv /\ Bare!Init
  BY InitAlone
<1>4. Tame /\ AloneInv /\ [Next]_vars => AloneInv' /\ [Bare!Next]_<<rip, Trapped>>
  BY StepAlone DEF programVars
<1> QED
  BY <1>1, <1>2, <1>3, <1>4, PTL DEF Spec, RunsAsAlone, Bare!Spec
=============================================================================

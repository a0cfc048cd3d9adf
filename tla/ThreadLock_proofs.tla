-------------------------- MODULE ThreadLock_proofs --------------------------
(***************************************************************************)
(* Proofs about ThreadLock, for every number of threads and processes.     *)
(*                                                                         *)
(* TypeOK needs no assumption.  The rest holds where the violations found  *)
(* by TLC are excluded: no thread fails a context access after OpenThread  *)
(* let the debugger in, and the user locks to threads of the root only.    *)
(***************************************************************************)
EXTENDS ThreadLock, TLAPS

Clean ==
  /\ Refusing \subseteq Denied
  /\ \A t \in Lockable : ProcOf[t] = Root

Exits == {"exit_thread", "exit_process"}

\* SuspendedOnce, extended to the threads whose exit is still unreported.
SuspendCounts ==
  \A t \in Thread : life[t] = "alive" \/ t \in threads =>
    suspends[t] = IF t \in frozen_threads THEN 1 ELSE 0

UnbornUncounted == \A t \in Thread : life[t] = "unborn" => suspends[t] = 0

LockInRoot ==
  locked_thread # None =>
    /\ locked_thread \in threads \ frozen_threads
    /\ ProcOf[locked_thread] = Root

FrozenKnown == frozen_threads \subseteq threads \ Denied

UnbornUnknown ==
  \A t \in Thread : life[t] = "unborn" =>
    t \notin threads /\ event[t] = "none"

EventsOfLife ==
  \A t \in Thread :
    /\ event[t] \in Exits => life[t] = "dead"
    /\ event[t] \in {"create_process", "create_thread", "stop"} => life[t] = "alive"

HeldStopped == held # None => event[held] = "stop"

LastOut == \A t \in Thread : event[t] = "exit_process" => Alive(ProcOf[t]) = {}

MainFirst ==
  \A p \in Process : life[Main[p]] = "unborn" =>
    \A t \in Thread : ProcOf[t] = p => life[t] = "unborn"

DeadReported == \A t \in threads : life[t] = "dead" => event[t] \in Exits

RootLives ==
  process =>
    \/ Alive(Root) # {}
    \/ \E t \in Thread : ProcOf[t] = Root /\ event[t] = "exit_process"

LifeInv == UnbornUnknown /\ EventsOfLife /\ HeldStopped /\ LastOut /\ MainFirst
           /\ DeadReported /\ RootLives

LockInv == SuspendCounts /\ UnbornUncounted /\ FreezeHasOwner /\ LockInRoot /\ FrozenKnown

IInv == TypeOK /\ LifeInv /\ LockInv

-----------------------------------------------------------------------------
(* Type correctness.                                                       *)

\* Suspend counts stay between zero and MAXIMUM_SUSPEND_COUNT, whichever
\* threads SuspendThread or ResumeThread is called on.
LEMMA CountsTyped ==
  ASSUME TypeOK, NEW ts
  PROVE  /\ Suspend(ts) \in [Thread -> 0 .. MaxSuspend]
         /\ Thaw(ts) \in [Thread -> 0 .. MaxSuspend]
BY Setting DEF Setting, TypeOK, Suspend, Thaw

\* The initial state of a freshly started tdb is well typed.
LEMMA InitTyped == Init => TypeOK
<1> SUFFICES ASSUME Init PROVE TypeOK
  OBVIOUS
<1> USE Setting DEF Setting, Init
<1>1. suspends \in [Thread -> 0 .. MaxSuspend]
  OBVIOUS
<1>2. life \in [Thread -> {"unborn", "alive", "dead"}]
  OBVIOUS
<1>3. event \in [Thread -> {"none", "create_process", "create_thread", "stop",
                           "exit_thread", "exit_process"}]
  OBVIOUS
<1> QED
  BY <1>1, <1>2, <1>3 DEF TypeOK

\* Every step of the debuggee, the event loop or the user keeps the types.
LEMMA StepTyped == TypeOK /\ [Next]_vars => TypeOK'
<1> SUFFICES ASSUME TypeOK, [Next]_vars PROVE TypeOK'
  OBVIOUS
<1> USE Setting DEF Setting, TypeOK, os, session, lock, debuggerVars
<1>1. ASSUME NEW t \in Thread, Start(t) PROVE TypeOK'
  BY <1>1 DEF Start
<1>2. ASSUME NEW t \in Thread, ReachStop(t) PROVE TypeOK'
  BY <1>2 DEF ReachStop
<1>3. ASSUME NEW t \in Thread, Exit(t) PROVE TypeOK'
  BY <1>3 DEF Exit
<1>4. ASSUME NEW t \in Thread, ExitProcess(t) PROVE TypeOK'
  BY <1>4 DEF ExitProcess, Alive
<1>5. ASSUME NEW t \in Thread, CREATE_PROCESS(t) PROVE TypeOK'
  BY <1>5 DEF CREATE_PROCESS, Wait, Answer
<1>6. ASSUME NEW t \in Thread, CREATE_THREAD(t) PROVE TypeOK'
  BY <1>6, CountsTyped DEF CREATE_THREAD, Wait, Answer, ContextAccess
<1>7. ASSUME NEW t \in Thread, EXIT_THREAD(t) PROVE TypeOK'
  BY <1>7, CountsTyped DEF EXIT_THREAD, Wait, Answer
<1>8. ASSUME NEW t \in Thread, EXIT_PROCESS(t) PROVE TypeOK'
  <2>1. life' \in [Thread -> {"unborn", "alive", "dead"}]
    BY <1>8 DEF EXIT_PROCESS, shutdown
  <2>2. event' \in [Thread -> {"none", "create_process", "create_thread", "stop",
                               "exit_thread", "exit_process"}]
    BY <1>8 DEF EXIT_PROCESS, shutdown, Answer
  <2>3. process' \in BOOLEAN /\ mode' \in {"prompt", "loop"} /\ held' \in Thread \cup {None}
    BY <1>8 DEF EXIT_PROCESS, shutdown
  <2>4. /\ threads' \subseteq Thread /\ frozen_threads' \subseteq Thread
        /\ locked_thread' \in Thread \cup {None}
    BY <1>8 DEF EXIT_PROCESS, shutdown
  <2> QED
    BY <1>8, <2>1, <2>2, <2>3, <2>4 DEF EXIT_PROCESS, Wait
<1>9. ASSUME NEW t \in Thread, Stop(t) PROVE TypeOK'
  BY <1>9 DEF Stop, Wait
<1>10. CASE continue_execution
  BY <1>10 DEF continue_execution
<1>11. CASE unlock_thread
  BY <1>11, CountsTyped DEF unlock_thread
<1>12. CASE Run
  BY <1>12 DEF Run
<1>13. ASSUME NEW t \in Thread, lock_thread(t) PROVE TypeOK'
  <2>1. /\ threads \in SUBSET Thread /\ Others(t) \subseteq Thread
        /\ locked_thread # None => locked_thread \in Thread
    BY DEF Others
  <2>2. suspends' \in [Thread -> 0 .. MaxSuspend]
    BY <1>13, CountsTyped DEF lock_thread, Suspend, Thaw
  <2> QED
    BY <1>13, <2>1, <2>2 DEF lock_thread
<1>14. ASSUME NEW t \in Thread, switch_thread(t) PROVE TypeOK'
  BY <1>14, CountsTyped DEF switch_thread, ContextAccess
<1>15. CASE UNCHANGED vars
  BY <1>15 DEF vars
<1> QED
  BY <1>1, <1>2, <1>3, <1>4, <1>5, <1>6, <1>7, <1>8, <1>9, <1>10, <1>11, <1>12,
     <1>13, <1>14, <1>15 DEF Next, User, Debuggee, Handle

\* The thread table, the frozen set and the suspend counts are well typed in
\* every reachable state.
THEOREM TypeCorrect == Spec => []TypeOK
<1>1. Init => TypeOK
  BY InitTyped
<1>2. TypeOK /\ [Next]_vars => TypeOK'
  BY StepTyped
<1> QED
  BY <1>1, <1>2, PTL DEF Spec

-----------------------------------------------------------------------------
(* The lives of threads and processes.                                     *)

\* When tdb starts no thread exists.
LEMMA InitLives == Init => LifeInv
BY Setting DEF Setting, Init, LifeInv, UnbornUnknown, EventsOfLife, HeldStopped,
   LastOut, MainFirst, DeadReported, RootLives, Exits, Alive

\* Events come from the living, the last thread of a process reports the
\* process's exit, and the thread table forgets no thread before its exit.
LEMMA StepLives == TypeOK /\ LifeInv /\ [Next]_vars => LifeInv'
<1> SUFFICES ASSUME TypeOK, LifeInv, [Next]_vars PROVE LifeInv'
  OBVIOUS
<1> USE Setting DEF Setting, TypeOK, os, session, lock, debuggerVars,
        LifeInv, UnbornUnknown, EventsOfLife, HeldStopped, LastOut, MainFirst,
        DeadReported, RootLives, Exits, Alive
<1>1. ASSUME NEW t \in Thread, Start(t) PROVE LifeInv'
  <2>1. Alive(ProcOf[t]) # {} \/ t = Main[ProcOf[t]]
    BY <1>1 DEF Start, Runnable
  <2>2. LastOut' /\ MainFirst'
    BY <1>1, <2>1 DEF Start
  <2>3. RootLives'
    BY <1>1 DEF Start
  <2> QED
    BY <1>1, <2>2, <2>3 DEF Start
<1>2. ASSUME NEW t \in Thread, ReachStop(t) PROVE LifeInv'
  BY <1>2 DEF ReachStop, Runnable
<1>3. ASSUME NEW t \in Thread, Exit(t) PROVE LifeInv'
  <2>1. life[t] = "alive" /\ event[t] = "none"
    BY <1>3 DEF Exit, Runnable
  <2>2. LastOut'
    BY <1>3, <2>1 DEF Exit
  <2>3. RootLives'
    BY <1>3, <2>1 DEF Exit
  <2>4. MainFirst'
    BY <1>3, <2>1 DEF Exit
  <2> QED
    BY <1>3, <2>1, <2>2, <2>3, <2>4 DEF Exit
<1>4. ASSUME NEW t \in Thread, ExitProcess(t) PROVE LifeInv'
  BY <1>4 DEF ExitProcess
<1>5. ASSUME NEW t \in Thread, CREATE_PROCESS(t) PROVE LifeInv'
  BY <1>5 DEF CREATE_PROCESS, Wait, Answer
<1>6. ASSUME NEW t \in Thread, CREATE_THREAD(t) PROVE LifeInv'
  BY <1>6 DEF CREATE_THREAD, Wait, Answer
<1>7. ASSUME NEW t \in Thread, EXIT_THREAD(t) PROVE LifeInv'
  BY <1>7 DEF EXIT_THREAD, Wait, Answer
<1>8. ASSUME NEW t \in Thread, EXIT_PROCESS(t) PROVE LifeInv'
  <2>1. CASE ProcOf[t] = Root
    BY <1>8, <2>1 DEF EXIT_PROCESS, shutdown, Wait
  <2>2. CASE ProcOf[t] # Root
    <3>1. /\ event' = [event EXCEPT ![t] = "none"]
          /\ event[t] = "exit_process"
          /\ threads' = threads \ {u \in threads : ProcOf[u] = ProcOf[t]}
          /\ UNCHANGED <<life, process, held>>
      BY <1>8, <2>2 DEF EXIT_PROCESS, Wait, Answer
    <3>2. UnbornUnknown' /\ EventsOfLife' /\ HeldStopped' /\ LastOut' /\ MainFirst'
      BY <3>1
    <3>3. DeadReported'
      BY <3>1
    <3>4. RootLives'
      BY <2>2, <3>1
    <3> QED
      BY <3>2, <3>3, <3>4
  <2> QED
    BY <2>1, <2>2
<1>9. ASSUME NEW t \in Thread, Stop(t) PROVE LifeInv'
  BY <1>9 DEF Stop, Wait
<1>10. CASE continue_execution
  BY <1>10 DEF continue_execution
<1>11. CASE unlock_thread
  BY <1>11 DEF unlock_thread
<1>12. CASE Run
  BY <1>12 DEF Run
<1>13. ASSUME NEW t \in Thread, lock_thread(t) PROVE LifeInv'
  BY <1>13 DEF lock_thread
<1>14. ASSUME NEW t \in Thread, switch_thread(t) PROVE LifeInv'
  BY <1>14 DEF switch_thread
<1>15. CASE UNCHANGED vars
  BY <1>15 DEF vars
<1> QED
  BY <1>1, <1>2, <1>3, <1>4, <1>5, <1>6, <1>7, <1>8, <1>9, <1>10, <1>11, <1>12,
     <1>13, <1>14, <1>15 DEF Next, User, Debuggee, Handle

-----------------------------------------------------------------------------
(* The lock.                                                               *)

\* What the suspend and resume calls do to a single thread's count.
LEMMA OneCount ==
  ASSUME TypeOK, NEW ts, NEW u \in Thread
  PROVE  /\ u \notin ts => Suspend(ts)[u] = suspends[u] /\ Thaw(ts)[u] = suspends[u]
         /\ u \in ts /\ suspends[u] = 0 => Suspend(ts)[u] = 1
         /\ u \in ts /\ suspends[u] = 1 => Thaw(ts)[u] = 0
         /\ suspends[u] = 0 => Thaw(ts)[u] = 0
BY Setting DEF Setting, TypeOK, Suspend, Thaw

\* A context access leaves no suspension behind unless it can fail.
LEMMA AccessIsNeutral ==
  ASSUME Clean, TypeOK, NEW t
  PROVE  ContextAccess(t) = suspends
BY DEF Clean, TypeOK, ContextAccess, Suspend

\* When tdb starts nothing is locked or frozen.
LEMMA InitLock == Init => LockInv
BY DEF Init, LockInv, SuspendCounts, UnbornUncounted, FreezeHasOwner, LockInRoot,
       FrozenKnown

\* Taking the lock, handing it over, releasing it and losing its thread keep
\* the frozen set, the lock's owner and the suspend counts in agreement.
LEMMA StepLock == Clean /\ IInv /\ [Next]_vars => LockInv'
<1> SUFFICES ASSUME Clean, IInv, [Next]_vars PROVE LockInv'
  OBVIOUS
<1> TypeOK /\ LifeInv /\ LockInv
  BY DEF IInv
<1> USE Setting DEF Setting, os, session, lock, debuggerVars
<1> USE DEF LockInv, SuspendCounts, UnbornUncounted, FreezeHasOwner, LockInRoot,
        FrozenKnown
<1>0. /\ \A t \in Thread : life[t] = "unborn" => t \notin threads /\ event[t] = "none"
      /\ threads \subseteq Thread
      /\ locked_thread # None => locked_thread \in Thread
      /\ life \in [Thread -> {"unborn", "alive", "dead"}]
  BY DEF LifeInv, UnbornUnknown, TypeOK
<1>e. \A t \in Thread :
        /\ event[t] \in Exits => life[t] = "dead"
        /\ event[t] \in {"create_process", "create_thread", "stop"} => life[t] = "alive"
  BY DEF LifeInv, EventsOfLife
<1>1. ASSUME NEW t \in Thread, Start(t) PROVE LockInv'
  BY <1>1, <1>0 DEF Start
<1>2. ASSUME NEW t \in Thread, ReachStop(t) PROVE LockInv'
  BY <1>2 DEF ReachStop
<1>3. ASSUME NEW t \in Thread, Exit(t) PROVE LockInv'
  BY <1>3, <1>0 DEF Exit, Runnable
<1>4. ASSUME NEW t \in Thread, ExitProcess(t) PROVE LockInv'
  BY <1>4 DEF ExitProcess
<1>5. ASSUME NEW t \in Thread, CREATE_PROCESS(t) PROVE LockInv'
  BY <1>5, <1>e DEF CREATE_PROCESS, Wait
<1>6. ASSUME NEW t \in Thread, CREATE_THREAD(t) PROVE LockInv'
  BY <1>6, <1>e, AccessIsNeutral DEF CREATE_THREAD, Wait
<1>7. ASSUME NEW t \in Thread, EXIT_THREAD(t) PROVE LockInv'
  <2>1. life[t] = "dead" /\ threads' = threads \ {t} /\ life' = life
    BY <1>7, <1>e DEF EXIT_THREAD, Wait, Exits
  <2>2. CASE locked_thread = t
    <3>1. /\ suspends' = Thaw(frozen_threads \ {t})
          /\ frozen_threads' = {} /\ locked_thread' = None
      BY <1>7, <2>2 DEF EXIT_THREAD
    <3>2. ASSUME NEW u \in Thread, life[u] = "alive" \/ u \in threads \ {t}
          PROVE  suspends'[u] = 0
      <4>1. u # t
        BY <3>2, <2>1
      <4> QED
        BY <3>1, <3>2, <4>1, OneCount
    <3>3. ASSUME NEW u \in Thread, life[u] = "unborn" PROVE suspends'[u] = 0
      BY <3>1, <3>3, OneCount
    <3> QED
      BY <2>1, <3>1, <3>2, <3>3
  <2>3. CASE locked_thread # t
    BY <1>7, <2>1, <2>3 DEF EXIT_THREAD
  <2> QED
    BY <2>2, <2>3
<1>8. ASSUME NEW t \in Thread, EXIT_PROCESS(t) PROVE LockInv'
  <2>1. CASE ProcOf[t] = Root
    BY <1>8, <2>1 DEF EXIT_PROCESS, shutdown
  <2>2. CASE ProcOf[t] # Root
    <3> DEFINE gone == {u \in threads : ProcOf[u] = ProcOf[t]}
    <3>1. /\ threads' = threads \ gone
          /\ frozen_threads' = frozen_threads \ gone
          /\ locked_thread' = locked_thread
          /\ UNCHANGED <<life, suspends>>
      BY <1>8, <2>2 DEF EXIT_PROCESS
    <3>2. \A u \in gone : life[u] # "alive"
      <4>1. event[t] = "exit_process"
        BY <1>8 DEF EXIT_PROCESS, Wait
      <4>2. Alive(ProcOf[t]) = {}
        BY <4>1 DEF LifeInv, LastOut
      <4> QED
        BY <4>2, <1>0 DEF Alive
    <3> QED
      BY <2>2, <3>1, <3>2
  <2> QED
    BY <2>1, <2>2
<1>9. ASSUME NEW t \in Thread, Stop(t) PROVE LockInv'
  BY <1>9 DEF Stop
<1>10. CASE continue_execution
  BY <1>10 DEF continue_execution
<1>11. CASE unlock_thread
  <2>1. /\ suspends' = Thaw(frozen_threads \ Denied)
        /\ frozen_threads' = {} /\ locked_thread' = None
        /\ UNCHANGED <<life, threads>>
    BY <1>11 DEF unlock_thread
  <2>2. ASSUME NEW u \in Thread, life[u] \in {"alive", "unborn"} \/ u \in threads
        PROVE  suspends'[u] = 0
    BY <2>1, <2>2, OneCount
  <2> QED
    BY <2>1, <2>2
<1>12. CASE Run
  BY <1>12 DEF Run
<1>13. ASSUME NEW t \in Thread, lock_thread(t) PROVE LockInv'
  <2>1. /\ t \in threads /\ t # locked_thread /\ ProcOf[t] = Root
        /\ locked_thread' = t
        /\ UNCHANGED <<life, threads>>
    BY <1>13 DEF lock_thread, Clean
  <2>2. CASE locked_thread = None
    <3>1. /\ suspends' = Suspend(Others(t))
          /\ frozen_threads' = Others(t)
          /\ frozen_threads = {}
      BY <1>13, <2>2 DEF lock_thread
    <3>2. ASSUME NEW u \in Thread, life[u] = "alive" \/ u \in threads
          PROVE  suspends'[u] = IF u \in Others(t) THEN 1 ELSE 0
      BY <3>1, <3>2, OneCount
    <3>3. ASSUME NEW u \in Thread, life[u] = "unborn" PROVE suspends'[u] = 0
      BY <3>1, <3>3, <1>0, OneCount DEF Others
    <3> QED
      BY <2>1, <3>1, <3>2, <3>3, Setting DEF Others
  <2>3. CASE locked_thread # None
    <3>1. /\ suspends' = [u \in Thread |->
                             IF u = t /\ u \in frozen_threads \ Denied
                             THEN Thaw({t})[u]
                             ELSE Suspend({locked_thread} \ Denied)[u]]
          /\ frozen_threads' = (frozen_threads \ {t}) \cup ({locked_thread} \ Denied)
      BY <1>13, <2>3 DEF lock_thread
    <3>2. /\ locked_thread \in threads /\ locked_thread \notin frozen_threads
          /\ suspends[locked_thread] = 0 /\ ProcOf[locked_thread] = Root
      BY <2>3, <1>0
    <3>3. ASSUME NEW u \in Thread, life[u] = "alive" \/ u \in threads
          PROVE  suspends'[u] = IF u \in frozen_threads' THEN 1 ELSE 0
      <4>1. CASE u = t
        BY <2>1, <3>1, <4>1, OneCount
      <4>2. CASE u = locked_thread
        BY <2>1, <3>1, <3>2, <4>2, OneCount
      <4>3. CASE u # t /\ u # locked_thread
        BY <3>1, <3>3, <4>3, OneCount
      <4> QED
        BY <4>1, <4>2, <4>3
    <3>4. ASSUME NEW u \in Thread, life[u] = "unborn" PROVE suspends'[u] = 0
      BY <2>1, <3>1, <3>2, <3>4, <1>0, OneCount
    <3> QED
      BY <2>1, <3>1, <3>2, <3>3, <3>4
  <2> QED
    BY <2>2, <2>3
<1>14. ASSUME NEW t \in Thread, switch_thread(t) PROVE LockInv'
  BY <1>14, AccessIsNeutral DEF switch_thread
<1>15. CASE UNCHANGED vars
  BY <1>15 DEF vars
<1> QED
  BY <1>1, <1>2, <1>3, <1>4, <1>5, <1>6, <1>7, <1>8, <1>9, <1>10, <1>11, <1>12,
     <1>13, <1>14, <1>15 DEF Next, User, Debuggee, Handle

\* The inductive invariant: types, lives, and the lock.
LEMMA Inductive == ASSUME Clean PROVE Spec => []IInv
<1>1. Init => IInv
  BY InitTyped, InitLives, InitLock DEF IInv
<1>2. IInv /\ [Next]_vars => IInv'
  BY StepTyped, StepLives, StepLock DEF IInv
<1> QED
  BY <1>1, <1>2, PTL DEF Spec

-----------------------------------------------------------------------------
(* The safety properties.                                                  *)

\* The threads the debugger believes frozen are the ones Windows keeps
\* suspended, each once, so that `unlock' lets every one of them run.
THEOREM FrozenAreSuspended == ASSUME Clean PROVE Spec => []SuspendedOnce
<1>1. IInv => SuspendedOnce
  BY DEF IInv, LockInv, SuspendCounts, SuspendedOnce
<1> QED
  BY Inductive, <1>1, PTL

\* No thread stays frozen without a lock that `unlock' can release.
THEOREM NoOrphanFreeze == ASSUME Clean PROVE Spec => []FreezeHasOwner
<1>1. IInv => FreezeHasOwner
  BY DEF IInv, LockInv
<1> QED
  BY Inductive, <1>1, PTL

\* While the event loop waits, some thread can run or has an event waiting.
THEOREM NeverAllFrozen == ASSUME Clean PROVE Spec => []SomeoneRuns
<1>1. IInv => SomeoneRuns
  <2> SUFFICES ASSUME IInv, process, mode = "loop"
               PROVE  \E t \in Thread :
                        event[t] # "none"
                          \/ (life[t] = "alive" /\ (suspends[t] = 0 \/ t \in dying))
    BY DEF SomeoneRuns
  <2> TypeOK /\ LifeInv /\ LockInv
    BY DEF IInv
  <2>1. CASE \E t \in Thread : ProcOf[t] = Root /\ event[t] = "exit_process"
    BY <2>1
  <2>2. CASE Alive(Root) # {} /\ locked_thread = None
    BY <2>2 DEF Alive, LockInv, SuspendCounts, FreezeHasOwner
  <2>3. CASE locked_thread # None
    <3>1. locked_thread \in Thread /\ suspends[locked_thread] = 0
      BY <2>3 DEF TypeOK, LockInv, LockInRoot, SuspendCounts
    <3>2. life[locked_thread] = "alive" \/ event[locked_thread] \in Exits
      BY <2>3, <3>1 DEF TypeOK, LockInv, LockInRoot, LifeInv, UnbornUnknown,
                        DeadReported
    <3> QED
      BY <3>1, <3>2 DEF Exits
  <2> QED
    BY <2>1, <2>2, <2>3 DEF LifeInv, RootLives
<1> QED
  BY Inductive, <1>1, PTL

-----------------------------------------------------------------------------
(* The refinement of Freeze.                                               *)

Stopped == {t \in threads : suspends[t] > 0}

\* Under the inductive invariant the stopped threads are the frozen ones.
LEMMA StoppedIsFrozen ==
  /\ IInv => Stopped = frozen_threads
  /\ IInv' => Stopped' = frozen_threads'
BY DEF IInv, TypeOK, LockInv, SuspendCounts, FrozenKnown, Stopped

\* Each step of ThreadLock is a step of Freeze or leaves it alone.
LEMMA StepKeepsFreeze ==
  Clean /\ IInv /\ IInv' /\ [Next]_vars =>
    [F!Next]_<<threads, locked_thread, Stopped>>
<1> SUFFICES ASSUME Clean, IInv, IInv', [Next]_vars
             PROVE  [F!Next]_<<threads, locked_thread, Stopped>>
  OBVIOUS
<1> Stopped = frozen_threads /\ Stopped' = frozen_threads'
  BY StoppedIsFrozen
<1> TypeOK /\ LockInRoot /\ FrozenKnown
  BY DEF IInv, LockInv
<1> USE DEF os, session, lock, debuggerVars
<1> HIDE DEF Stopped
<1>1. ASSUME NEW t \in Thread, Debuggee(t)
      PROVE  UNCHANGED <<threads, locked_thread, Stopped>>
  BY <1>1 DEF Debuggee, Start, ReachStop, Exit, ExitProcess
<1>2. ASSUME NEW t \in Thread, CREATE_PROCESS(t) \/ CREATE_THREAD(t) PROVE F!Arrive(t)
  BY <1>2 DEF CREATE_PROCESS, CREATE_THREAD, F!Arrive, Stopped
<1>3. ASSUME NEW t \in Thread, EXIT_THREAD(t) PROVE F!Depart({t})
  BY <1>3 DEF EXIT_THREAD, F!Depart, Stopped
<1>4. ASSUME NEW t \in Thread, EXIT_PROCESS(t)
      PROVE  F!Reset \/ \E ts \in SUBSET Thread : F!Depart(ts)
  <2> DEFINE gone == {u \in threads : ProcOf[u] = ProcOf[t]}
  <2>1. CASE ProcOf[t] = Root
    BY <1>4, <2>1 DEF EXIT_PROCESS, shutdown, F!Reset
  <2>2. CASE ProcOf[t] # Root
    <3>1. /\ threads' = threads \ gone
          /\ frozen_threads' = frozen_threads \ gone
          /\ locked_thread' = locked_thread
      BY <1>4, <2>2 DEF EXIT_PROCESS, LockInRoot
    <3>2. locked_thread \notin gone
      BY <2>2, Setting DEF Setting, LockInRoot, TypeOK
    <3>3. gone \in SUBSET Thread
      BY DEF TypeOK
    <3> HIDE DEF gone
    <3> QED
      BY <3>1, <3>2, <3>3 DEF F!Depart, Stopped
  <2> QED
    BY <2>1, <2>2
<1>5. ASSUME NEW t \in Thread, Stop(t) PROVE UNCHANGED <<threads, locked_thread, Stopped>>
  BY <1>5 DEF Stop
<1>6. CASE continue_execution
  BY <1>6 DEF continue_execution
<1>7. CASE unlock_thread
  BY <1>7 DEF unlock_thread, F!Next, F!Release, Stopped
<1>8. CASE Run
  BY <1>8 DEF Run, F!Next, F!Reset, Stopped
<1>9. ASSUME NEW t \in Thread, lock_thread(t) PROVE F!Take(t) \/ F!Move(t)
  <2>1. t \in threads /\ t # locked_thread /\ locked_thread' = t /\ UNCHANGED threads
    BY <1>9 DEF lock_thread
  <2>2. CASE locked_thread = None
    <3>1. frozen_threads' \in SUBSET (threads \ {t})
      BY <1>9, <2>1, <2>2 DEF lock_thread, Others, IInv, LockInv, FreezeHasOwner
    <3> QED
      BY <2>1, <2>2, <3>1 DEF F!Take, Stopped
  <2>3. CASE locked_thread # None
    <3>1. frozen_threads' \in {frozen_threads \ {t},
                               (frozen_threads \cup {locked_thread}) \ {t}}
      BY <1>9, <2>1, <2>3 DEF lock_thread
    <3> QED
      BY <2>1, <2>3, <3>1 DEF F!Move, Stopped
  <2> QED
    BY <2>2, <2>3
<1>10. ASSUME NEW t \in Thread, switch_thread(t)
       PROVE  UNCHANGED <<threads, locked_thread, Stopped>>
  BY <1>10 DEF switch_thread
<1>11. CASE UNCHANGED vars
  BY <1>11 DEF vars
<1> QED
  BY <1>1, <1>2, <1>3, <1>4, <1>5, <1>6, <1>7, <1>8, <1>9, <1>10, <1>11
     DEF Next, User, Handle, F!Next

\* lock and unlock, the thread events and the restarts implement Freeze.
THEOREM ImplementsFreeze == ASSUME Clean PROVE Spec => KeepsFreeze
<1>1. Init => F!Init
  BY DEF Init, F!Init
<1>2. Clean /\ IInv /\ IInv' /\ [Next]_vars =>
        [F!Next]_<<threads, locked_thread, {t \in threads : suspends[t] > 0}>>
  BY StepKeepsFreeze DEF Stopped
<1> QED
  BY Inductive, <1>1, <1>2, PTL DEF Spec, KeepsFreeze, F!Spec

=============================================================================

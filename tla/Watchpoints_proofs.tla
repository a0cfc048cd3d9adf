------------------------- MODULE Watchpoints_proofs -------------------------
(***************************************************************************)
(* Proofs about Watchpoints, for every number of threads, processes,       *)
(* targets and accesses, threads that refuse their registers included:     *)
(* TypeOK, and ArmedEverywhere for targets aligned to their size.          *)
(***************************************************************************)
EXTENDS Watchpoints, TLAPS

\* The address of what is watched is a multiple of the size armed for it.  Of
\* a misaligned target TLC finds ArmedEverywhere violated.
AlignedTargets ==
  \A target \in Target : target.size <= 8 => target.address % hw_size(target.size) = 0

CreateKinds == {"create_process", "create_thread"}

SlotRange(i) == {2 * i, 16 + 4 * i, 17 + 4 * i, 18 + 4 * i, 19 + 4 * i}

\* The part of a thread's debug registers that slot i is.
InSlot(r, i) == <<r.dr[i], r.dr7 \cap SlotRange(i)>>

Mine(ws, pid, i) == ws[i] # None /\ ws[i].pid = pid

-----------------------------------------------------------------------------
(* The encoding of DR7.                                                    *)

\* dr7_and_addrs_for_pid keeps the slots apart: what it puts in slot i is the
\* watchpoint of slot i, if that is one of the process, and nothing else.
LEMMA SlotOfWanted ==
  ASSUME NEW ws \in [Slot -> Watch \cup {None}], NEW pid, NEW i \in Slot
  PROVE  /\ dr7_and_addrs_for_pid(ws, pid).dr[i] = IF Mine(ws, pid, i) THEN ws[i].address ELSE 0
         /\ dr7_and_addrs_for_pid(ws, pid).dr7 \cap SlotRange(i) =
              IF Mine(ws, pid, i) THEN SlotBits(i, ws[i]) ELSE {}
<1> DEFINE mine == {j \in Slot : ws[j] # None /\ ws[j].pid = pid}
           bits == UNION {SlotBits(j, ws[j]) : j \in mine}
<1>1. \A j \in Slot : SlotBits(j, ws[j]) \subseteq SlotRange(j)
  BY Setting DEF Setting, SlotBits, SlotRange, condition_bits, len_bits
<1>2. \A j \in Slot : j # i => SlotRange(j) \cap SlotRange(i) = {}
  <2> SUFFICES ASSUME NEW j \in Slot, j # i
               PROVE  SlotRange(j) \cap SlotRange(i) = {}
    OBVIOUS
  <2>1. i \in 0 .. 3 /\ j \in 0 .. 3
    BY Setting DEF Setting
  <2>2. QED
    BY <2>1 DEF SlotRange
<1>3. bits \cap SlotRange(i) = IF i \in mine THEN SlotBits(i, ws[i]) ELSE {}
  BY <1>1, <1>2
<1>4. i \in mine <=> Mine(ws, pid, i)
  BY DEF Mine
<1>5. QED
  BY <1>3, <1>4 DEF dr7_and_addrs_for_pid

\* So slot i of it depends on slot i of the table only.
LEMMA SameSlotSameBits ==
  ASSUME NEW ws \in [Slot -> Watch \cup {None}], NEW vs \in [Slot -> Watch \cup {None}],
         NEW pid, NEW i \in Slot, ws[i] = vs[i]
  PROVE  InSlot(dr7_and_addrs_for_pid(ws, pid), i) = InSlot(dr7_and_addrs_for_pid(vs, pid), i)
<1>1. Mine(ws, pid, i) <=> Mine(vs, pid, i)
  BY DEF Mine
<1>2. /\ dr7_and_addrs_for_pid(ws, pid).dr[i] = dr7_and_addrs_for_pid(vs, pid).dr[i]
      /\ dr7_and_addrs_for_pid(ws, pid).dr7 \cap SlotRange(i)
           = dr7_and_addrs_for_pid(vs, pid).dr7 \cap SlotRange(i)
  <2>1. /\ dr7_and_addrs_for_pid(ws, pid).dr[i] = IF Mine(ws, pid, i) THEN ws[i].address ELSE 0
        /\ dr7_and_addrs_for_pid(vs, pid).dr[i] = IF Mine(vs, pid, i) THEN vs[i].address ELSE 0
    BY SlotOfWanted
  <2>2. /\ dr7_and_addrs_for_pid(ws, pid).dr7 \cap SlotRange(i) =
             IF Mine(ws, pid, i) THEN SlotBits(i, ws[i]) ELSE {}
        /\ dr7_and_addrs_for_pid(vs, pid).dr7 \cap SlotRange(i) =
             IF Mine(vs, pid, i) THEN SlotBits(i, vs[i]) ELSE {}
    BY SlotOfWanted
  <2>3. QED
    BY <1>1, <2>1, <2>2
<1>3. QED
  BY <1>2 DEF InSlot

\* Registers that are zero have in slot i what a process without a watchpoint
\* there should have.
LEMMA ZeroedSlot ==
  ASSUME NEW ws \in [Slot -> Watch \cup {None}], NEW pid, NEW i \in Slot, ~Mine(ws, pid, i)
  PROVE  InSlot(Zeroed, i) = InSlot(dr7_and_addrs_for_pid(ws, pid), i)
<1>1. /\ dr7_and_addrs_for_pid(ws, pid).dr[i] = 0
      /\ dr7_and_addrs_for_pid(ws, pid).dr7 \cap SlotRange(i) = {}
  BY SlotOfWanted
<1>2. Zeroed.dr[i] = 0 /\ Zeroed.dr7 \cap SlotRange(i) = {}
  BY DEF Zeroed
<1>3. QED
  BY <1>1, <1>2 DEF InSlot

\* The registers are within the bits the slots have.
LEMMA WantedTyped ==
  ASSUME NEW ws \in [Slot -> Watch \cup {None}], NEW pid
  PROVE  dr7_and_addrs_for_pid(ws, pid) \in Registers
<1> DEFINE mine == {i \in Slot : ws[i] # None /\ ws[i].pid = pid}
<1>1. \A i \in Slot : SlotBits(i, ws[i]) \subseteq SlotRange(i)
  BY Setting DEF Setting, SlotBits, SlotRange, condition_bits, len_bits
<1>2. UNION {SlotBits(i, ws[i]) : i \in mine} \subseteq Dr7Bit
  BY <1>1 DEF Dr7Bit, SlotRange
<1>3. [i \in Slot |-> IF i \in mine THEN ws[i].address ELSE 0] \in [Slot -> Nat]
  BY DEF Watch
<1>4. QED
  BY <1>2, <1>3 DEF dr7_and_addrs_for_pid, Registers

\* A slot without bits matches nothing.
LEMMA EmptySlotSilent ==
  ASSUME NEW r, NEW i \in Slot, NEW a, r.dr7 \cap SlotRange(i) = {}
  PROVE  ~Matches(r, i, a)
BY DEF Matches, SlotRange

\* Slot i of a watchpoint's registers matches exactly the accesses it is for,
\* if its address is aligned: the length the CPU reads back is its size, and
\* no byte is lost to the low bits of the address.
LEMMA ArmedSlotMatches ==
  ASSUME NEW r, NEW i \in Slot, NEW w \in Watch, NEW a \in Access,
         InSlot(r, i) = <<w.address, SlotBits(i, w)>>, w.address % w.size = 0
  PROVE  Matches(r, i, a) <=>
           /\ a.write \/ w.kind = "access"
           /\ Bytes(a.address, a.size) \cap Bytes(w.address, w.size) # {}
<1>1. r.dr[i] = w.address /\ r.dr7 \cap SlotRange(i) = SlotBits(i, w)
  BY DEF InSlot
<1>2. i \in 0 .. 3 /\ w.size \in {1, 2, 4, 8} /\ w.kind \in Kind /\ w.address \in Nat
  BY Setting DEF Setting, Watch, HwSize
<1>3. /\ 2 * i \in r.dr7 /\ 16 + 4 * i \in r.dr7
      /\ 17 + 4 * i \in r.dr7 <=> w.kind = "access"
      /\ 18 + 4 * i \in r.dr7 <=> w.size \in {2, 4}
      /\ 19 + 4 * i \in r.dr7 <=> w.size \in {4, 8}
  <2>1. \A b \in SlotRange(i) : b \in r.dr7 <=> b \in SlotBits(i, w)
    BY <1>1
  <2>2. condition_bits(w.kind) = IF w.kind = "access" THEN {0, 1} ELSE {0}
    BY <1>2 DEF condition_bits, Kind
  <2>3. /\ 0 \in len_bits(w.size) <=> w.size \in {2, 4}
        /\ 1 \in len_bits(w.size) <=> w.size \in {4, 8}
        /\ len_bits(w.size) \subseteq {0, 1}
    BY <1>2 DEF len_bits
  <2>4. /\ 2 * i \in SlotBits(i, w) /\ 16 + 4 * i \in SlotBits(i, w)
        /\ 17 + 4 * i \in SlotBits(i, w) <=> w.kind = "access"
    <3>1. \A b \in len_bits(w.size) : 18 + 4 * i + b # 17 + 4 * i
      <4> SUFFICES ASSUME NEW b \in len_bits(w.size) PROVE 18 + 4 * i + b # 17 + 4 * i
        OBVIOUS
      <4>1. b \in {0, 1}
        BY <2>3
      <4>2. QED
        BY <1>2, <4>1
    <3>2. 17 + 4 * i = 16 + 4 * i + 1 /\ 17 + 4 * i # 2 * i /\ 16 + 4 * i + 0 = 16 + 4 * i
      BY <1>2
    <3>3. 0 \in condition_bits(w.kind)
      BY <2>2
    <3>4. (17 + 4 * i \in {16 + 4 * i + b : b \in condition_bits(w.kind)})
            <=> w.kind = "access"
      <4>1. 1 \in condition_bits(w.kind) <=> w.kind = "access"
        BY <2>2
      <4>2. \A b \in condition_bits(w.kind) : 17 + 4 * i = 16 + 4 * i + b <=> b = 1
        BY <1>2, <2>2
      <4>3. QED
        BY <4>1, <4>2
    <3>5. QED
      BY <3>1, <3>2, <3>3, <3>4 DEF SlotBits
  <2>5. /\ 18 + 4 * i \in SlotBits(i, w) <=> w.size \in {2, 4}
        /\ 19 + 4 * i \in SlotBits(i, w) <=> w.size \in {4, 8}
    BY <1>2, <2>2, <2>3 DEF SlotBits
  <2>6. QED
    BY <2>1, <2>4, <2>5 DEF SlotRange
<1>4. Length(r, i) = w.size
  <2> DEFINE found == {18 + 4 * i, 19 + 4 * i} \cap r.dr7
  <2>1. 18 + 4 * i # 19 + 4 * i
    BY <1>2
  <2>2. CASE w.size = 1
    <3>1. found = {}
      BY <1>3, <2>2
    <3>2. QED
      BY <2>2, <3>1 DEF Length
  <2>3. CASE w.size = 2
    <3>1. found = {18 + 4 * i} /\ found # {} /\ found # {19 + 4 * i}
      BY <1>3, <2>1, <2>3
    <3>2. QED
      BY <2>3, <3>1 DEF Length
  <2>4. CASE w.size = 8
    <3>1. found = {19 + 4 * i} /\ found # {} /\ found # {18 + 4 * i}
      BY <1>3, <2>1, <2>4
    <3>2. QED
      BY <2>4, <3>1 DEF Length
  <2>5. CASE w.size = 4
    <3>1. found # {} /\ found # {18 + 4 * i} /\ found # {19 + 4 * i}
      BY <1>3, <2>1, <2>5
    <3>2. QED
      BY <2>5, <3>1 DEF Length
  <2>6. QED
    BY <1>2, <2>2, <2>3, <2>4, <2>5
<1>5. (r.dr[i] \div w.size) * w.size = w.address
  BY <1>1, <1>2
<1>6. QED
  BY <1>3, <1>4, <1>5 DEF Matches

-----------------------------------------------------------------------------
(* Type correctness.                                                       *)

\* The registers and hit bits any set of threads is given are well typed.
LEMMA WriteTyped ==
  ASSUME TypeOK, NEW ws \in [Slot -> Watch \cup {None}], NEW ts, WriteRegisters(ws, ts)
  PROVE  registers' \in [Thread -> Registers] /\ dr6' \in [Thread -> SUBSET Slot]
<1>1. \A t \in Thread : dr7_and_addrs_for_pid(ws, ProcOf[t]) \in Registers
  BY WantedTyped
<1>2. QED
  BY <1>1 DEF TypeOK, WriteRegisters

\* hw_size rounds up to a size the hardware has.
LEMMA HwSizes == \A n \in Nat : hw_size(n) \in HwSize
BY DEF hw_size, HwSize

\* Before the first run nothing is armed.
LEMMA InitTyped == Init => TypeOK
<1> SUFFICES ASSUME Init PROVE TypeOK
  OBVIOUS
<1> USE Setting DEF Setting, Init
<1>1. /\ life \in [Thread -> {"unborn", "alive", "dead"}]
      /\ event \in [Thread -> {"none", "create_process", "create_thread", "trap", "step",
                               "stop", "exit_thread", "exit_process"}]
      /\ touched \in [Thread -> Access \cup {None}]
  OBVIOUS
<1>2. registers \in [Thread -> Registers] /\ dr6 \in [Thread -> SUBSET Slot]
  BY DEF Zeroed, Registers
<1>3. slots \in [Slot -> Watch \cup {None}] /\ next_id \in 0 .. MaxId
  OBVIOUS
<1>4. QED
  BY <1>1, <1>2, <1>3 DEF TypeOK

\* The program's steps.
LEMMA DebuggeeTyped ==
  ASSUME TypeOK, NEW t \in Thread, Debuggee(t)
  PROVE  TypeOK'
<1> USE DEF TypeOK, debuggerVars, session, manager, told, cpu
<1>1. CASE Start(t)
  BY <1>1 DEF Start
<1>2. CASE Touch(t)
  BY <1>2 DEF Touch
<1>3. CASE ReachStop(t)
  BY <1>3 DEF ReachStop
<1>4. CASE Exit(t)
  BY <1>4 DEF Exit
<1>5. QED
  BY <1>1, <1>2, <1>3, <1>4 DEF Debuggee

\* The handlers.
LEMMA HandleTyped ==
  ASSUME TypeOK, NEW t \in Thread, Handle(t)
  PROVE  TypeOK'
<1> USE DEF TypeOK, session, manager, told, cpu, os, Wait, Answer
<1>1. CASE CREATE_PROCESS(t)
  BY <1>1 DEF CREATE_PROCESS
<1>2. CASE CREATE_THREAD(t)
  <2>1. registers' \in [Thread -> Registers] /\ dr6' \in [Thread -> SUBSET Slot]
    BY <1>2, WriteTyped DEF CREATE_THREAD
  <2>2. QED
    BY <1>2, <2>1 DEF CREATE_THREAD
<1>3. CASE EXIT_THREAD(t)
  BY <1>3 DEF EXIT_THREAD
<1>4. CASE EXIT_PROCESS(t)
  <2>1. CASE ProcOf[t] = Root
    <3>1. /\ life' = [u \in Thread |-> "dead"] /\ event' = [u \in Thread |-> "none"]
          /\ slots' = [i \in Slot |-> None] /\ next_id' = 0
          /\ threads' = {} /\ reported' = {} /\ settled' = Slot
          /\ process' = FALSE /\ mode' = "prompt" /\ held' = None
          /\ last_thread_id' = t /\ UNCHANGED <<touched, registers, dr6>>
      BY <1>4, <2>1 DEF EXIT_PROCESS
    <3>2. next_id' \in 0 .. MaxId
      BY <3>1, Setting DEF Setting
    <3>3. slots' \in [Slot -> Watch \cup {None}]
      BY <3>1
    <3>4. QED
      BY <3>1, <3>2, <3>3
  <2>2. CASE ProcOf[t] # Root
    BY <1>4, <2>2 DEF EXIT_PROCESS
  <2>3. QED
    BY <2>1, <2>2
<1>5. CASE SINGLE_STEP(t)
  <2>1. registers' \in [Thread -> Registers] /\ dr6' \in [Thread -> SUBSET Slot]
    BY <1>5, WriteTyped DEF SINGLE_STEP
  <2>2. \A i \in take_watchpoint_hits(t) : i \in Slot /\ slots[i] \in Watch
    BY DEF take_watchpoint_hits
  <2>3. reported' \subseteq [slot : Slot, watch : Watch, thread : Thread]
    BY <1>5, <2>2 DEF SINGLE_STEP
  <2>4. /\ event' \in [Thread -> {"none", "create_process", "create_thread", "trap", "step",
                                  "stop", "exit_thread", "exit_process"}]
        /\ touched' \in [Thread -> Access \cup {None}]
        /\ mode' \in {"prompt", "loop"} /\ held' \in Thread \cup {None}
    BY <1>5 DEF SINGLE_STEP
  <2>5. QED
    BY <1>5, <2>1, <2>3, <2>4 DEF SINGLE_STEP
<1>6. CASE Stop(t)
  BY <1>6 DEF Stop
<1>7. QED
  BY <1>1, <1>2, <1>3, <1>4, <1>5, <1>6 DEF Handle

\* What a sync of the known threads leaves, whether it finishes or not.
LEMMA SyncTyped ==
  ASSUME TypeOK, NEW i \in Slot, slots' \in [Slot -> Watch \cup {None}],
         sync_watchpoints_to_threads(i)
  PROVE  /\ registers' \in [Thread -> Registers] /\ dr6' \in [Thread -> SUBSET Slot]
         /\ settled' \subseteq Slot
<1>1. settled' \subseteq Slot
  BY DEF sync_watchpoints_to_threads, TypeOK
<1>2. \E ts : WriteRegisters(slots', ts)
  BY DEF sync_watchpoints_to_threads
<1>3. QED
  BY <1>1, <1>2, WriteTyped

\* The commands.
LEMMA UserTyped ==
  ASSUME TypeOK, User
  PROVE  TypeOK'
<1> USE DEF session, manager, told, cpu, os
<1>1. CASE continue_execution
  BY <1>1 DEF TypeOK, continue_execution
<1>2. CASE Run
  <2>1. registers' \in [Thread -> Registers] /\ dr6' \in [Thread -> SUBSET Slot]
    BY <1>2 DEF Run, Zeroed, Registers
  <2>2. QED
    BY <1>2, <2>1, Setting DEF TypeOK, Run, Setting
<1>3. ASSUME NEW target \in Target, NEW kind \in Kind, set_watchpoint(target, kind)
      PROVE  TypeOK'
  <2>1. PICK i \in Slot :
          /\ slots' = [slots EXCEPT ![i] =
                         [id |-> next_id', pid |-> ProcOf[last_thread_id],
                          address |-> target.address,
                          size |-> hw_size(target.size), kind |-> kind]]
          /\ sync_watchpoints_to_threads(i)
    BY <1>3 DEF set_watchpoint
  <2>2. next_id' \in 0 .. MaxId /\ next_id' \in Nat
    BY <1>3, Setting DEF TypeOK, set_watchpoint, Setting
  <2>3. ProcOf[last_thread_id] \in Process
    BY <1>3, Setting DEF TypeOK, set_watchpoint, Setting
  <2>4. target.address \in Nat /\ hw_size(target.size) \in HwSize
    BY Setting, HwSizes DEF Setting
  <2>5. slots' \in [Slot -> Watch \cup {None}]
    BY <2>1, <2>2, <2>3, <2>4 DEF TypeOK, Watch
  <2>6. registers' \in [Thread -> Registers] /\ dr6' \in [Thread -> SUBSET Slot]
        /\ settled' \subseteq Slot
    BY <2>1, <2>5, SyncTyped
  <2>7. QED
    BY <1>3, <2>2, <2>5, <2>6 DEF TypeOK, set_watchpoint
<1>4. ASSUME NEW i \in Slot, delete_watchpoint(i)
      PROVE  TypeOK'
  <2>1. slots' \in [Slot -> Watch \cup {None}]
    BY <1>4 DEF TypeOK, delete_watchpoint
  <2>2. registers' \in [Thread -> Registers] /\ dr6' \in [Thread -> SUBSET Slot]
        /\ settled' \subseteq Slot
    BY <1>4, <2>1, SyncTyped DEF delete_watchpoint
  <2>3. QED
    BY <1>4, <2>1, <2>2 DEF TypeOK, delete_watchpoint
<1>5. ASSUME NEW t \in Thread, switch_thread(t)
      PROVE  TypeOK'
  BY <1>5 DEF TypeOK, switch_thread
<1>6. QED
  BY <1>1, <1>2, <1>3, <1>4, <1>5 DEF User

\* Every step keeps the types.
LEMMA NextTyped == TypeOK /\ [Next]_vars => TypeOK'
<1> SUFFICES ASSUME TypeOK, [Next]_vars PROVE TypeOK'
  OBVIOUS
<1>1. CASE User
  BY <1>1, UserTyped
<1>2. CASE \E t \in Thread : Debuggee(t) \/ Handle(t)
  BY <1>2, DebuggeeTyped, HandleTyped
<1>3. CASE UNCHANGED vars
  BY <1>3 DEF vars, os, cpu, session, manager, told, TypeOK
<1>4. QED
  BY <1>1, <1>2, <1>3 DEF Next

\* TypeOK is an invariant: debug registers stay within their fields and the
\* slot table within what they can hold, however threads and processes come and
\* go and whichever of them refuse.
THEOREM TypeCorrect == Spec => []TypeOK
BY InitTyped, NextTyped, PTL DEF Spec

-----------------------------------------------------------------------------
(* The life of the threads.                                                *)

Unborn == \A t \in Thread : life[t] = "unborn" =>
  event[t] = "none" /\ registers[t] = Zeroed /\ t \notin threads

MainFirst == \A t \in Thread : life[t] # "unborn" => life[Main[ProcOf[t]]] # "unborn"

\* A thread is unknown while its creation is unreported, and known from then on.
Unreported == \A t \in Thread : event[t] \in CreateKinds => t \notin threads

Reported == \A t \in Thread : life[t] = "alive" /\ event[t] \notin CreateKinds => t \in threads

\* A process whose creation is unreported has one thread, with nothing armed.
Newborn == \A t \in Thread : event[t] = "create_process" =>
  /\ t = Main[ProcOf[t]] /\ registers[t] = Zeroed
  /\ \A u \in Thread : ProcOf[u] = ProcOf[t] /\ u # t => life[u] = "unborn"

Ending == \A t \in Thread :
  /\ event[t] \in {"exit_thread", "exit_process"} => life[t] = "dead"
  /\ life[t] = "dead" => event[t] \in {"none", "exit_thread", "exit_process"}

LastOut == \A t \in Thread : event[t] = "exit_process" =>
  \A u \in Thread : ProcOf[u] = ProcOf[t] => life[u] # "alive"

HeldStopped == held # None => event[held] \notin CreateKinds /\ life[held] # "unborn"

LifeInv == Unborn /\ MainFirst /\ Unreported /\ Reported /\ Newborn /\ Ending /\ LastOut
           /\ HeldStopped

\* The program's steps.
LEMMA DebuggeeLife ==
  ASSUME TypeOK, LifeInv, NEW t \in Thread, Debuggee(t)
  PROVE  LifeInv'
<1> USE Setting DEF Setting, TypeOK, LifeInv, debuggerVars, session, manager, told, cpu, CreateKinds
<1>1. CASE Start(t)
  <2>1. PICK s \in Thread :
          Runnable(s) /\ (ProcOf[s] = ProcOf[t] \/ t = Main[ProcOf[t]])
    BY <1>1 DEF Start
  <2>2. /\ life[t] = "unborn" /\ life[s] = "alive" /\ event[s] = "none"
        /\ life' = [life EXCEPT ![t] = "alive"]
        /\ event' = [event EXCEPT ![t] = IF t = Main[ProcOf[t]] THEN "create_process"
                                                                ELSE "create_thread"]
        /\ UNCHANGED <<registers, threads, held>>
    BY <1>1, <2>1 DEF Start, Runnable
  <2>3. Unborn' /\ MainFirst' /\ Unreported' /\ Reported' /\ Ending'
    BY <2>1, <2>2 DEF Unborn, MainFirst, Unreported, Reported, Ending
  <2>4. Newborn'
    BY <2>1, <2>2 DEF Unborn, MainFirst, Newborn
  <2>5. LastOut'
    BY <2>1, <2>2 DEF Unborn, MainFirst, LastOut, Ending
  <2>6. HeldStopped'
    BY <2>2 DEF HeldStopped
  <2>7. QED
    BY <2>3, <2>4, <2>5, <2>6
<1>2. CASE Touch(t)
  BY <1>2 DEF Touch, Runnable, Unborn, MainFirst, Unreported, Reported, Newborn, Ending, LastOut,
     HeldStopped
<1>3. CASE ReachStop(t)
  BY <1>3 DEF ReachStop, Runnable, Unborn, MainFirst, Unreported, Reported, Newborn, Ending,
     LastOut, HeldStopped
<1>4. CASE Exit(t)
  <2>1. /\ life[t] = "alive" /\ event[t] = "none"
        /\ life' = [life EXCEPT ![t] = "dead"]
        /\ event' = [event EXCEPT ![t] = IF Alive(ProcOf[t]) = {t} THEN "exit_process"
                                                                   ELSE "exit_thread"]
        /\ UNCHANGED <<registers, threads, held>>
    BY <1>4 DEF Exit, Runnable
  <2>2. Unborn' /\ MainFirst' /\ Unreported' /\ Reported' /\ Newborn' /\ Ending' /\ HeldStopped'
    BY <2>1 DEF Unborn, MainFirst, Unreported, Reported, Newborn, Ending, HeldStopped
  <2>3. LastOut'
    BY <2>1 DEF LastOut, Alive
  <2>4. QED
    BY <2>2, <2>3
<1>5. QED
  BY <1>1, <1>2, <1>3, <1>4 DEF Debuggee

\* The handlers.
LEMMA HandleLife ==
  ASSUME TypeOK, LifeInv, NEW t \in Thread, Handle(t)
  PROVE  LifeInv'
<1> USE Setting DEF Setting, TypeOK, LifeInv, session, manager, told, cpu, os, Wait, Answer,
       CreateKinds, Unborn, MainFirst, Unreported, Reported, Newborn, Ending, LastOut, HeldStopped
<1>1. CASE CREATE_PROCESS(t)
  BY <1>1 DEF CREATE_PROCESS
<1>2. CASE CREATE_THREAD(t)
  BY <1>2 DEF CREATE_THREAD, WriteRegisters
<1>3. CASE EXIT_THREAD(t)
  BY <1>3 DEF EXIT_THREAD
<1>4. CASE EXIT_PROCESS(t)
  <2>1. CASE ProcOf[t] = Root
    <3>1. /\ life' = [u \in Thread |-> "dead"] /\ event' = [u \in Thread |-> "none"]
          /\ held' = None
      BY <1>4, <2>1 DEF EXIT_PROCESS
    <3>2. QED
      BY <3>1
  <2>2. CASE ProcOf[t] # Root
    <3>1. /\ event[t] = "exit_process" /\ event' = [event EXCEPT ![t] = "none"]
          /\ threads' = {u \in threads : ProcOf[u] # ProcOf[t]}
          /\ UNCHANGED <<life, registers, held>>
      BY <1>4, <2>2 DEF EXIT_PROCESS
    <3>2. Reported'
      BY <3>1
    <3>3. Unborn' /\ MainFirst' /\ Unreported' /\ Newborn' /\ Ending'
      BY <3>1
    <3>4. LastOut' /\ HeldStopped'
      BY <3>1
    <3>5. QED
      BY <3>2, <3>3, <3>4
  <2>3. QED
    BY <2>1, <2>2
<1>5. CASE SINGLE_STEP(t)
  <2>1. /\ event[t] \in {"trap", "step"} /\ UNCHANGED <<life, threads>>
        /\ event' = event \/ event' = [event EXCEPT ![t] = "none"]
        /\ held' = t \/ held' = held
        /\ \A u \in Thread : u # t => registers'[u] = registers[u]
    BY <1>5 DEF SINGLE_STEP, WriteRegisters
  <2>2. QED
    BY <2>1
<1>6. CASE Stop(t)
  BY <1>6 DEF Stop
<1>7. QED
  BY <1>1, <1>2, <1>3, <1>4, <1>5, <1>6 DEF Handle

\* The commands write registers of known threads only.
LEMMA UserLife ==
  ASSUME TypeOK, LifeInv, User
  PROVE  LifeInv'
<1> USE Setting DEF Setting, TypeOK, LifeInv, session, manager, told, cpu, os, CreateKinds,
       Unborn, MainFirst, Unreported, Reported, Newborn, Ending, LastOut, HeldStopped
<1>1. CASE continue_execution
  <2>1. /\ event' = [event EXCEPT ![held] = "none"] /\ held' = None
        /\ UNCHANGED <<life, registers, threads>>
    BY <1>1 DEF continue_execution
  <2>2. Unborn' /\ MainFirst' /\ Unreported' /\ Reported'
    BY <2>1
  <2>3. Newborn' /\ Ending' /\ LastOut' /\ HeldStopped'
    BY <2>1
  <2>4. QED
    BY <2>2, <2>3
<1>2. CASE Run
  <2>1. /\ life' = [t \in Thread |-> IF t = Main[Root] THEN "alive" ELSE "unborn"]
        /\ event' = [t \in Thread |-> IF t = Main[Root] THEN "create_process" ELSE "none"]
        /\ registers' = [t \in Thread |-> Zeroed] /\ threads' = {} /\ held' = None
    BY <1>2 DEF Run
  <2>2. Unborn' /\ MainFirst' /\ Unreported' /\ Reported'
    BY <2>1
  <2>3. Newborn'
    BY <2>1
  <2>4. Ending' /\ LastOut' /\ HeldStopped'
    BY <2>1
  <2>5. QED
    BY <2>2, <2>3, <2>4
<1>3. ASSUME UNCHANGED <<life, event, held, threads>>,
             \A t \in Thread \ threads : registers'[t] = registers[t]
      PROVE  LifeInv'
  <2>1. life' = life /\ event' = event /\ held' = held /\ threads' = threads
    BY <1>3
  <2>2. Unborn' /\ Newborn'
    BY <1>3, <2>1
  <2>3. MainFirst' /\ Unreported' /\ Reported' /\ Ending' /\ LastOut' /\ HeldStopped'
    BY <2>1
  <2>4. QED
    BY <2>2, <2>3
<1>4. ASSUME NEW i \in Slot, sync_watchpoints_to_threads(i)
      PROVE  \A t \in Thread \ threads : registers'[t] = registers[t]
  BY <1>4 DEF sync_watchpoints_to_threads, WriteRegisters
<1>5. ASSUME NEW target \in Target, NEW kind \in Kind, set_watchpoint(target, kind)
      PROVE  LifeInv'
  BY <1>3, <1>4, <1>5 DEF set_watchpoint
<1>6. ASSUME NEW i \in Slot, delete_watchpoint(i)
      PROVE  LifeInv'
  BY <1>3, <1>4, <1>6 DEF delete_watchpoint
<1>7. ASSUME NEW t \in Thread, switch_thread(t)
      PROVE  LifeInv'
  BY <1>3, <1>7 DEF switch_thread
<1>8. QED
  BY <1>1, <1>2, <1>5, <1>6, <1>7 DEF User

-----------------------------------------------------------------------------
(* What the registers hold.                                                *)

\* A watchpoint is in a process whose first thread is known, at an address its
\* debug register can hold.
Placed == \A i \in Slot : slots[i] # None =>
  /\ life[Main[slots[i].pid]] # "unborn"
  /\ event[Main[slots[i].pid]] # "create_process"
  /\ slots[i].address % slots[i].size = 0

Reached(t) == life[t] = "alive" /\ event[t] \notin CreateKinds

\* Every thread has in every settled slot what the table has for its process.
Agreement == \A i \in settled, t \in Thread \ Denied : Reached(t) =>
  InSlot(registers[t], i) = InSlot(dr7_and_addrs_for_pid(slots, ProcOf[t]), i)

IInv == TypeOK /\ LifeInv /\ Placed /\ Agreement

\* The registers agree with the table, slot by slot; so what traps is what the
\* watchpoints are for.
LEMMA IInvImpliesArmed == IInv => ArmedEverywhere
<1> SUFFICES ASSUME IInv, NEW i \in settled, NEW t \in Thread \ Denied, NEW a \in Access,
                    life[t] = "alive", event[t] \notin {"create_process", "create_thread"}
             PROVE  Matches(registers[t], i, a) <=> slots[i] # None /\ Concerns(slots[i], t, a)
  BY DEF ArmedEverywhere
<1>1. i \in Slot /\ slots \in [Slot -> Watch \cup {None}]
  BY DEF IInv, TypeOK
<1>2. InSlot(registers[t], i) = InSlot(dr7_and_addrs_for_pid(slots, ProcOf[t]), i)
  BY DEF IInv, Agreement, Reached, CreateKinds
<1>3. CASE Mine(slots, ProcOf[t], i)
  <2>1. slots[i] \in Watch /\ slots[i].address % slots[i].size = 0
    BY <1>1, <1>3 DEF Mine, IInv, Placed
  <2>2. InSlot(registers[t], i) = <<slots[i].address, SlotBits(i, slots[i])>>
    BY <1>1, <1>2, <1>3, SlotOfWanted DEF InSlot
  <2>3. QED
    BY <1>1, <1>3, <2>1, <2>2, ArmedSlotMatches DEF Mine, Concerns
<1>4. CASE ~Mine(slots, ProcOf[t], i)
  <2>1. registers[t].dr7 \cap SlotRange(i) = {}
    BY <1>1, <1>2, <1>4, SlotOfWanted DEF InSlot
  <2>2. ~Matches(registers[t], i, a)
    BY <1>1, <2>1, EmptySlotSilent
  <2>3. QED
    BY <1>4, <2>2 DEF Mine, Concerns
<1>5. QED
  BY <1>3, <1>4

\* A step that leaves the table alone keeps the agreement, if every thread it
\* touches is given what the table has, or is first heard of with nothing armed
\* in a process with nothing to arm.
LEMMA TableKept ==
  ASSUME IInv, slots' = slots, settled' = settled,
         \A t \in Thread \ Denied : Reached(t)' =>
            \/ Reached(t) /\ registers'[t] = registers[t]
            \/ registers'[t] = dr7_and_addrs_for_pid(slots, ProcOf[t])
            \/ registers'[t] = Zeroed /\ \A i \in Slot : ~Mine(slots, ProcOf[t], i)
  PROVE  Agreement'
<1> SUFFICES ASSUME NEW i \in settled, NEW t \in Thread \ Denied, Reached(t)'
             PROVE  InSlot(registers'[t], i) = InSlot(dr7_and_addrs_for_pid(slots, ProcOf[t]), i)
  BY DEF Agreement, InSlot, dr7_and_addrs_for_pid, SlotRange, SlotBits, condition_bits, len_bits
<1>1. i \in Slot /\ slots \in [Slot -> Watch \cup {None}]
  BY DEF IInv, TypeOK
<1>2. CASE Reached(t) /\ registers'[t] = registers[t]
  BY <1>2 DEF IInv, Agreement, InSlot
<1>3. CASE registers'[t] = dr7_and_addrs_for_pid(slots, ProcOf[t])
  BY <1>3
<1>4. CASE registers'[t] = Zeroed /\ \A j \in Slot : ~Mine(slots, ProcOf[t], j)
  BY <1>1, <1>4, ZeroedSlot
<1>5. QED
  BY <1>2, <1>3, <1>4

\* The program arms nothing and disarms nothing.
LEMMA DebuggeeArmed ==
  ASSUME IInv, NEW t \in Thread, Debuggee(t)
  PROVE  Placed' /\ Agreement'
<1>1. /\ UNCHANGED <<registers, slots, settled>>
      /\ \A u \in Thread : u # t => life'[u] = life[u] /\ event'[u] = event[u]
      /\ \/ life[t] = "unborn" /\ event'[t] \in CreateKinds
         \/ life[t] = "alive" /\ event[t] = "none"
      /\ life'[t] # "unborn"
      /\ life[t] = "alive" => event'[t] \notin CreateKinds
  BY DEF IInv, TypeOK, Debuggee, Start, Touch, ReachStop, Exit, Runnable, debuggerVars, cpu,
         manager, told, CreateKinds
<1>2. Placed'
  <2> SUFFICES ASSUME NEW i \in Slot, slots[i] # None
               PROVE  /\ life'[Main[slots[i].pid]] # "unborn"
                      /\ event'[Main[slots[i].pid]] # "create_process"
                      /\ slots[i].address % slots[i].size = 0
    BY <1>1 DEF Placed
  <2>1. Main[slots[i].pid] \in Thread
    BY Setting DEF IInv, TypeOK, Watch, Setting
  <2>2. QED
    BY <1>1, <2>1 DEF IInv, Placed, CreateKinds
<1>3. \A u \in Thread : Reached(u)' => Reached(u) /\ registers'[u] = registers[u]
  BY <1>1 DEF Reached, CreateKinds
<1>4. QED
  BY <1>1, <1>2, <1>3, TableKept

\* The handlers give a thread what the table has, or find it with nothing due.
LEMMA HandleArmed ==
  ASSUME IInv, NEW t \in Thread, Handle(t)
  PROVE  Placed' /\ Agreement'
<1> USE DEF Wait, Answer, session, manager, told, cpu, os
<1>1. ASSUME slots' = slots, settled' = settled, life' = life,
             event' = event \/ event' = [event EXCEPT ![t] = "none"],
             event[t] \in CreateKinds \/ Reached(t) \/ life[t] = "dead",
             \A u \in Thread : u # t => registers'[u] = registers[u],
             \/ registers'[t] = registers[t] /\ event[t] \notin CreateKinds
             \/ t \in Denied
             \/ registers'[t] = dr7_and_addrs_for_pid(slots, ProcOf[t])
             \/ registers'[t] = Zeroed /\ \A i \in Slot : ~Mine(slots, ProcOf[t], i)
      PROVE  Placed' /\ Agreement'
  <2>1. event \in [Thread -> {"none", "create_process", "create_thread", "trap", "step",
                              "stop", "exit_thread", "exit_process"}]
    BY DEF IInv, TypeOK
  <2>2. Placed'
    <3> SUFFICES ASSUME NEW i \in Slot, slots[i] # None
                 PROVE  /\ life'[Main[slots[i].pid]] # "unborn"
                        /\ event'[Main[slots[i].pid]] # "create_process"
                        /\ slots[i].address % slots[i].size = 0
      BY <1>1 DEF Placed
    <3>1. Main[slots[i].pid] \in Thread
      BY Setting DEF IInv, TypeOK, Watch, Setting
    <3>2. QED
      BY <1>1, <2>1, <3>1 DEF IInv, Placed
  <2>3. \A u \in Thread \ Denied : Reached(u)' =>
            \/ Reached(u) /\ registers'[u] = registers[u]
            \/ registers'[u] = dr7_and_addrs_for_pid(slots, ProcOf[u])
            \/ registers'[u] = Zeroed /\ \A i \in Slot : ~Mine(slots, ProcOf[u], i)
    BY <1>1, <2>1 DEF Reached, CreateKinds
  <2>4. QED
    BY <1>1, <2>2, <2>3, TableKept
<1>2. CASE CREATE_PROCESS(t)
  <2>1. event[t] = "create_process" /\ registers[t] = Zeroed /\ t = Main[ProcOf[t]]
    BY <1>2 DEF CREATE_PROCESS, IInv, LifeInv, Newborn
  <2>2. \A i \in Slot : ~Mine(slots, ProcOf[t], i)
    BY <2>1 DEF IInv, Placed, Mine
  <2>3. QED
    BY <1>1, <1>2, <2>1, <2>2 DEF CREATE_PROCESS, CreateKinds
<1>3. CASE CREATE_THREAD(t)
  BY <1>1, <1>3 DEF CREATE_THREAD, WriteRegisters, CreateKinds, IInv, TypeOK
<1>4. ASSUME event[t] \notin CreateKinds, event[t] # "none"
      PROVE  Reached(t) \/ life[t] = "dead"
  BY <1>4 DEF Reached, IInv, TypeOK, LifeInv, Unborn
<1>5. CASE EXIT_THREAD(t)
  BY <1>1, <1>4, <1>5 DEF EXIT_THREAD, CreateKinds
<1>6. CASE EXIT_PROCESS(t)
  <2>1. CASE ProcOf[t] = Root
    <3>1. life' = [u \in Thread |-> "dead"] /\ slots' = [i \in Slot |-> None]
      BY <1>6, <2>1 DEF EXIT_PROCESS
    <3>2. QED
      BY <3>1 DEF Placed, Agreement, Reached, IInv, TypeOK
  <2>2. CASE ProcOf[t] # Root
    BY <1>1, <1>4, <1>6, <2>2 DEF EXIT_PROCESS, CreateKinds
  <2>3. QED
    BY <2>1, <2>2
<1>7. CASE SINGLE_STEP(t)
  BY <1>1, <1>4, <1>7 DEF SINGLE_STEP, WriteRegisters, CreateKinds, IInv, TypeOK
<1>8. CASE Stop(t)
  BY <1>1, <1>4, <1>8 DEF Stop, CreateKinds
<1>9. QED
  BY <1>2, <1>3, <1>5, <1>6, <1>7, <1>8 DEF Handle

\* A sync that finishes makes every thread agree with the new table; one that a
\* thread's refusal ends leaves each with the old or the new one, which differ
\* in the slot of the command only, and that slot is no longer settled.
LEMMA SyncArmed ==
  ASSUME IInv, NEW i \in Slot, slots' \in [Slot -> Watch \cup {None}],
         \A j \in Slot : j # i => slots'[j] = slots[j],
         UNCHANGED <<life, event, threads>>,
         sync_watchpoints_to_threads(i)
  PROVE  Agreement'
<1> SUFFICES ASSUME NEW j \in settled', NEW t \in Thread \ Denied, Reached(t)'
             PROVE  InSlot(registers'[t], j) = InSlot(dr7_and_addrs_for_pid(slots', ProcOf[t]), j)
  BY DEF Agreement, InSlot, dr7_and_addrs_for_pid, SlotRange, SlotBits, condition_bits, len_bits
<1>1. t \in threads /\ Reached(t)
  BY DEF IInv, LifeInv, Reported, Reached
<1>2. CASE threads \cap Denied = {} /\ WriteRegisters(slots', threads)
  BY <1>1, <1>2 DEF WriteRegisters
<1>3. ASSUME NEW reached \in SUBSET (threads \ Denied), WriteRegisters(slots', reached),
             settled' = settled \ {i}
      PROVE  InSlot(registers'[t], j) = InSlot(dr7_and_addrs_for_pid(slots', ProcOf[t]), j)
  <2>1. CASE t \in reached
    BY <1>3, <2>1 DEF WriteRegisters
  <2>2. CASE t \notin reached
    <3>1. registers'[t] = registers[t] /\ j \in settled /\ j # i
      BY <1>3, <2>2 DEF WriteRegisters
    <3>2. j \in Slot /\ slots'[j] = slots[j] /\ slots \in [Slot -> Watch \cup {None}]
      BY <3>1 DEF IInv, TypeOK
    <3>3. InSlot(registers[t], j) = InSlot(dr7_and_addrs_for_pid(slots, ProcOf[t]), j)
      BY <1>1, <3>1 DEF IInv, Agreement
    <3>4. InSlot(dr7_and_addrs_for_pid(slots', ProcOf[t]), j)
            = InSlot(dr7_and_addrs_for_pid(slots, ProcOf[t]), j)
      BY <3>2, SameSlotSameBits
    <3>5. QED
      BY <3>1, <3>3, <3>4
  <2>3. QED
    BY <2>1, <2>2
<1>4. QED
  BY <1>2, <1>3 DEF sync_watchpoints_to_threads

\* The commands.
LEMMA UserArmed ==
  ASSUME IInv, AlignedTargets, User, TypeOK'
  PROVE  Placed' /\ Agreement'
<1> USE DEF session, manager, told, cpu, os
<1>1. CASE continue_execution
  <2>1. /\ event' = [event EXCEPT ![held] = "none"]
        /\ UNCHANGED <<life, registers, slots, settled>>
    BY <1>1 DEF continue_execution
  <2>2. Placed'
    BY <2>1, Setting DEF IInv, TypeOK, Placed, Watch, Setting
  <2>3. \A t \in Thread : Reached(t)' => Reached(t) /\ registers'[t] = registers[t]
    BY <2>1, Setting DEF Reached, IInv, TypeOK, LifeInv, HeldStopped, Setting
  <2>4. QED
    BY <2>1, <2>2, <2>3, TableKept
<1>2. CASE Run
  <2>1. /\ slots' = [i \in Slot |-> None]
        /\ event' = [t \in Thread |-> IF t = Main[Root] THEN "create_process" ELSE "none"]
        /\ life' = [t \in Thread |-> IF t = Main[Root] THEN "alive" ELSE "unborn"]
    BY <1>2 DEF Run
  <2>2. Placed'
    BY <2>1 DEF Placed
  <2>3. \A t \in Thread : ~Reached(t)'
    BY <2>1 DEF Reached, CreateKinds
  <2>4. QED
    BY <2>2, <2>3 DEF Agreement
<1>3. ASSUME NEW target \in Target, NEW kind \in Kind, set_watchpoint(target, kind)
      PROVE  Placed' /\ Agreement'
  <2>1. PICK i \in Slot :
          /\ slots' = [slots EXCEPT ![i] =
                         [id |-> next_id', pid |-> ProcOf[last_thread_id],
                          address |-> target.address,
                          size |-> hw_size(target.size), kind |-> kind]]
          /\ sync_watchpoints_to_threads(i)
    BY <1>3 DEF set_watchpoint
  <2>2. /\ UNCHANGED <<life, event, threads>>
        /\ last_thread_id \in threads /\ life[last_thread_id] = "alive"
        /\ target.address % hw_size(target.size) = 0
    BY <1>3 DEF set_watchpoint, AlignedTargets
  <2>3. slots' \in [Slot -> Watch \cup {None}] /\ \A j \in Slot : j # i => slots'[j] = slots[j]
    BY <2>1 DEF TypeOK, IInv
  <2>4. Agreement'
    BY <2>1, <2>2, <2>3, SyncArmed
  <2>5. /\ life[Main[ProcOf[last_thread_id]]] # "unborn"
        /\ event[Main[ProcOf[last_thread_id]]] # "create_process"
    <3>1. last_thread_id \in Thread /\ Main[ProcOf[last_thread_id]] \in Thread
          /\ ProcOf[Main[ProcOf[last_thread_id]]] = ProcOf[last_thread_id]
      BY <2>2, Setting DEF IInv, TypeOK, Setting
    <3>2. QED
      BY <2>2, <3>1 DEF IInv, LifeInv, MainFirst, Newborn, Unreported, CreateKinds
  <2>6. Placed'
    <3> SUFFICES ASSUME NEW j \in Slot, slots'[j] # None
                 PROVE  /\ life[Main[slots'[j].pid]] # "unborn"
                        /\ event[Main[slots'[j].pid]] # "create_process"
                        /\ slots'[j].address % slots'[j].size = 0
      BY <2>2 DEF Placed
    <3>1. CASE j = i
      BY <2>1, <2>2, <2>5, <3>1 DEF IInv, TypeOK
    <3>2. CASE j # i
      BY <2>3, <3>2 DEF IInv, Placed
    <3>3. QED
      BY <3>1, <3>2
  <2>7. QED
    BY <2>4, <2>6
<1>4. ASSUME NEW i \in Slot, delete_watchpoint(i)
      PROVE  Placed' /\ Agreement'
  <2>1. /\ slots' = [slots EXCEPT ![i] = None] /\ UNCHANGED <<life, event, threads>>
        /\ sync_watchpoints_to_threads(i)
    BY <1>4 DEF delete_watchpoint
  <2>2. slots' \in [Slot -> Watch \cup {None}] /\ \A j \in Slot : j # i => slots'[j] = slots[j]
    BY <2>1 DEF TypeOK, IInv
  <2>3. Agreement'
    BY <2>1, <2>2, SyncArmed
  <2>4. Placed'
    BY <2>1 DEF IInv, TypeOK, Placed
  <2>5. QED
    BY <2>3, <2>4
<1>5. ASSUME NEW t \in Thread, switch_thread(t)
      PROVE  Placed' /\ Agreement'
  <2>1. UNCHANGED <<life, event, registers, slots, settled>>
    BY <1>5 DEF switch_thread
  <2>2. Placed'
    BY <2>1 DEF IInv, Placed
  <2>3. QED
    BY <2>1, <2>2, TableKept DEF Reached
<1>6. QED
  BY <1>1, <1>2, <1>3, <1>4, <1>5 DEF User

\* Before the first run there is nothing to agree on.
LEMMA InitIInv == Init => IInv
<1> SUFFICES ASSUME Init PROVE IInv
  OBVIOUS
<1>1. LifeInv
  BY Setting DEF Init, Setting, LifeInv, Unborn, MainFirst, Unreported, Reported, Newborn, Ending,
     LastOut, HeldStopped, CreateKinds
<1>2. Placed /\ Agreement
  BY DEF Init, Placed, Agreement, Reached
<1>3. QED
  BY <1>1, <1>2, InitTyped DEF IInv

\* Every step keeps the inductive invariant, if what is watched is aligned.
LEMMA NextIInv == AlignedTargets /\ IInv /\ [Next]_vars => IInv'
<1> SUFFICES ASSUME AlignedTargets, IInv, [Next]_vars PROVE IInv'
  OBVIOUS
<1>1. TypeOK'
  BY NextTyped DEF IInv
<1>2. CASE User
  BY <1>1, <1>2, UserLife, UserArmed DEF IInv
<1>3. ASSUME NEW t \in Thread, Debuggee(t)
      PROVE  IInv'
  BY <1>1, <1>3, DebuggeeLife, DebuggeeArmed DEF IInv
<1>4. ASSUME NEW t \in Thread, Handle(t)
      PROVE  IInv'
  BY <1>1, <1>4, HandleLife, HandleArmed DEF IInv
<1>5. CASE UNCHANGED vars
  <2>1. UNCHANGED <<life, event, registers, threads, held, slots, settled>>
    BY <1>5 DEF vars, os, cpu, session, manager, told
  <2>2. LifeInv'
    BY <2>1 DEF IInv, LifeInv, Unborn, MainFirst, Unreported, Reported, Newborn, Ending, LastOut,
       HeldStopped
  <2>3. Placed'
    BY <2>1 DEF IInv, Placed
  <2>4. \A t \in Thread : Reached(t)' => Reached(t) /\ registers'[t] = registers[t]
    BY <2>1 DEF Reached
  <2>5. Agreement'
    BY <2>1, <2>4, TableKept
  <2>6. QED
    BY <1>1, <2>2, <2>3, <2>5 DEF IInv
<1>6. QED
  BY <1>2, <1>3, <1>4, <1>5 DEF Next

\* Once a watch or deletewatch has succeeded, exactly the accesses a watchpoint
\* is for trap, in every thread of its process, now or yet to be born, and in no
\* other: the bits of one slot never leak into another's, a thread is armed at
\* its creation event, and a sync that a thread's refusal cut short spoils no
\* slot but its own.
THEOREM WatchpointsAreArmed ==
  ASSUME AlignedTargets
  PROVE  Spec => []ArmedEverywhere
<1>1. IInv /\ [Next]_vars => IInv'
  BY NextIInv
<1>2. Spec => []IInv
  BY <1>1, InitIInv, PTL DEF Spec
<1>3. QED
  BY <1>2, IInvImpliesArmed, PTL

-----------------------------------------------------------------------------
(* What a stop reports.                                                    *)

\* A thread starts with no hit.
Fresh == \A t \in Thread : life[t] = "unborn" \/ event[t] \in CreateKinds => dr6[t] = {}

\* The hit bits of settled slots with a watchpoint in them: those are the ones a
\* stop would report.
Hits(t) == {i \in settled \cap dr6[t] : slots[i] # None}

\* They belong to a trap that is still to be handled, and to its access.
HitsHold == \A t \in Thread \ Denied : Reached(t) => \A i \in Hits(t) :
  event[t] = "trap" /\ touched[t] # None /\ Concerns(slots[i], t, touched[t])

\* The thread of the current stop has none left.
HeldQuiet == held # None /\ held \notin Denied /\ Reached(held) => Hits(held) = {}

HInv == IInv /\ Fresh /\ HitsHold /\ HeldQuiet

\* A hit is raised by an access to what the table says is watched.
LEMMA DebuggeeHits ==
  ASSUME HInv, None \notin Access, NEW t \in Thread, Debuggee(t)
  PROVE  (Fresh /\ HitsHold /\ HeldQuiet)'
<1> USE DEF HInv, Fresh, HitsHold, HeldQuiet, Hits
<1>1. dr6 \in [Thread -> SUBSET Slot] /\ event \in [Thread -> {"none", "create_process",
        "create_thread", "trap", "step", "stop", "exit_thread", "exit_process"}]
      /\ life \in [Thread -> {"unborn", "alive", "dead"}]
      /\ touched \in [Thread -> Access \cup {None}] /\ settled \subseteq Slot
      /\ held \in Thread \cup {None}
  BY DEF IInv, TypeOK
<1>2. CASE Start(t)
  BY <1>1, <1>2
  DEF Start, debuggerVars, cpu, manager, told, session, Reached, CreateKinds
<1>3. CASE Touch(t)
  <2>1. PICK a \in Access :
          /\ dr6' = [dr6 EXCEPT ![t] = @ \cup {i \in Slot : Matches(registers[t], i, a)}]
          /\ touched' = [touched EXCEPT ![t] = a]
          /\ event' = [event EXCEPT ![t] = "trap"]
    BY <1>3 DEF Touch
  <2>2. /\ event[t] = "none" /\ life[t] = "alive" /\ Reached(t)
        /\ UNCHANGED <<life, slots, settled, held>>
    BY <1>3 DEF Touch, Runnable, Reached, CreateKinds, debuggerVars, session, manager, told
  <2>3. held # t
    BY <1>3, Setting DEF Touch, Runnable, Halted, Setting
  <2>4. ASSUME t \notin Denied, NEW i \in Slot, i \in Hits(t)'
        PROVE  Concerns(slots[i], t, a)
    <3>1. t \notin Denied => Hits(t) = {}
      BY <2>2
    <3>2. i \in settled /\ slots[i] # None /\ Matches(registers[t], i, a)
      BY <1>1, <2>1, <2>2, <2>4, <3>1
    <3>3. QED
      BY <2>2, <2>4, <3>2, IInvImpliesArmed DEF ArmedEverywhere
  <2>5. HitsHold'
    <3> SUFFICES ASSUME NEW u \in Thread \ Denied, Reached(u)', NEW i \in Hits(u)'
                 PROVE  /\ event'[u] = "trap" /\ touched'[u] # None
                        /\ Concerns(slots'[i], u, touched'[u])
      BY DEF Concerns
    <3>1. CASE u = t
      BY <1>1, <2>1, <2>2, <2>4, <3>1
    <3>2. CASE u # t
      BY <1>1, <2>1, <2>2, <3>2 DEF Reached
    <3>3. QED
      BY <3>1, <3>2
  <2>6. Fresh' /\ HeldQuiet'
    BY <1>1, <2>1, <2>2, <2>3 DEF Reached, CreateKinds
  <2>7. QED
    BY <2>5, <2>6
<1>4. CASE ReachStop(t)
  BY <1>1, <1>4 DEF ReachStop, Runnable, debuggerVars, cpu, manager, told, session, Reached,
     CreateKinds, Concerns
<1>5. CASE Exit(t)
  BY <1>1, <1>5 DEF Exit, Runnable, debuggerVars, cpu, manager, told, session, Reached,
     CreateKinds, Concerns
<1>6. QED
  BY <1>2, <1>3, <1>4, <1>5 DEF Debuggee

\* The handlers: only a single step's reads the hit bits, and it clears them.
LEMMA HandleHits ==
  ASSUME HInv, NEW t \in Thread, Handle(t)
  PROVE  (Fresh /\ HitsHold /\ HeldQuiet)'
<1> USE DEF HInv, Fresh, HitsHold, HeldQuiet, Hits, Wait, Answer, session, manager, told, cpu, os,
       Reached, CreateKinds
<1>1. dr6 \in [Thread -> SUBSET Slot] /\ event \in [Thread -> {"none", "create_process",
        "create_thread", "trap", "step", "stop", "exit_thread", "exit_process"}]
      /\ life \in [Thread -> {"unborn", "alive", "dead"}]
      /\ touched \in [Thread -> Access \cup {None}] /\ settled \subseteq Slot
      /\ held \in Thread \cup {None}
  BY DEF IInv, TypeOK
<1>2. CASE CREATE_PROCESS(t)
  BY <1>1, <1>2 DEF CREATE_PROCESS, Concerns
<1>3. CASE CREATE_THREAD(t)
  BY <1>1, <1>3 DEF CREATE_THREAD, WriteRegisters, Concerns
<1>4. CASE EXIT_THREAD(t)
  <2>1. life[t] = "dead"
    BY <1>4 DEF EXIT_THREAD, IInv, LifeInv, Ending
  <2>2. QED
    BY <1>1, <1>4, <2>1 DEF EXIT_THREAD, Concerns
<1>5. CASE EXIT_PROCESS(t)
  <2>1. life[t] = "dead"
    BY <1>5 DEF EXIT_PROCESS, IInv, LifeInv, Ending
  <2>2. CASE ProcOf[t] = Root
    <3>1. life' = [u \in Thread |-> "dead"] /\ event' = [u \in Thread |-> "none"]
          /\ held' = None
      BY <1>5, <2>2 DEF EXIT_PROCESS
    <3>2. QED
      BY <3>1
  <2>3. CASE ProcOf[t] # Root
    <3>1. /\ event' = [event EXCEPT ![t] = "none"]
          /\ UNCHANGED <<life, dr6, touched, slots, settled, held>>
      BY <1>5, <2>3 DEF EXIT_PROCESS
    <3>2. Fresh' /\ HeldQuiet'
      BY <1>1, <2>1, <3>1
    <3>3. HitsHold'
      BY <1>1, <2>1, <3>1 DEF Concerns
    <3>4. QED
      BY <3>2, <3>3
  <2>4. QED
    BY <2>2, <2>3
<1>6. CASE SINGLE_STEP(t)
  <2>1. /\ event[t] \in {"trap", "step"} /\ UNCHANGED <<life, slots, settled>>
        /\ event' = event \/ event' = [event EXCEPT ![t] = "none"]
        /\ held' = t \/ held' = held
        /\ \A u \in Thread : u # t => dr6'[u] = dr6[u] /\ touched'[u] = touched[u]
    BY <1>1, <1>6 DEF SINGLE_STEP, WriteRegisters
  <2>2. t \notin Denied => Hits(t)' = {}
    <3>1. CASE t \in Denied \/ dr6[t] = {} \/ \A i \in Slot : slots[i] = None
      BY <1>1, <1>6, <2>1, <3>1 DEF SINGLE_STEP
    <3>2. CASE ~(t \in Denied \/ dr6[t] = {} \/ \A i \in Slot : slots[i] = None)
      <4>1. dr6'[t] = {}
        BY <1>6, <3>2 DEF SINGLE_STEP, WriteRegisters
      <4>2. QED
        BY <4>1
    <3>3. QED
      BY <3>1, <3>2
  <2>3. Fresh'
    <3>1. \A u \in Thread : dr6[u] = {} => dr6'[u] = {}
      BY <1>1, <1>6 DEF SINGLE_STEP, WriteRegisters
    <3>2. QED
      BY <1>1, <2>1, <3>1
  <2>4. HitsHold'
    <3> SUFFICES ASSUME NEW u \in Thread \ Denied, Reached(u)', NEW i \in Hits(u)'
                 PROVE  /\ event'[u] = "trap" /\ touched'[u] # None
                        /\ Concerns(slots'[i], u, touched'[u])
      BY DEF Concerns
    <3>1. u # t
      BY <2>2
    <3>2. QED
      BY <1>1, <2>1, <3>1
  <2>5. HeldQuiet'
    BY <1>1, <2>1, <2>2
  <2>6. QED
    BY <2>3, <2>4, <2>5
<1>7. CASE Stop(t)
  BY <1>1, <1>7 DEF Stop, Concerns
<1>8. QED
  BY <1>2, <1>3, <1>4, <1>5, <1>6, <1>7 DEF Handle

\* The commands: a sync clears the hits of every thread it reaches.
LEMMA UserHits ==
  ASSUME HInv, User
  PROVE  (Fresh /\ HitsHold /\ HeldQuiet)'
<1> USE DEF HInv, Fresh, HitsHold, HeldQuiet, Hits, session, manager, told, cpu, os,
       Reached, CreateKinds
<1>1. dr6 \in [Thread -> SUBSET Slot] /\ event \in [Thread -> {"none", "create_process",
        "create_thread", "trap", "step", "stop", "exit_thread", "exit_process"}]
      /\ life \in [Thread -> {"unborn", "alive", "dead"}]
      /\ touched \in [Thread -> Access \cup {None}] /\ settled \subseteq Slot
      /\ held \in Thread \cup {None} /\ None \notin Thread
  BY Setting DEF IInv, TypeOK, Setting
<1>2. CASE continue_execution
  BY <1>1, <1>2 DEF continue_execution, Concerns, IInv, LifeInv, HeldStopped
<1>3. CASE Run
  BY <1>3 DEF Run
<1>4. ASSUME NEW i \in Slot, sync_watchpoints_to_threads(i),
             UNCHANGED <<life, event, touched, held>>,
             \A j \in Slot : j # i => slots'[j] = slots[j]
      PROVE  (Fresh /\ HitsHold /\ HeldQuiet)'
  <2>1. /\ \A u \in Thread : dr6'[u] = {} \/ dr6'[u] = dr6[u]
        /\ settled' \subseteq Slot
    BY <1>1, <1>4 DEF sync_watchpoints_to_threads, WriteRegisters
  <2>2. \A u \in Thread : Reached(u) => u \in threads
    BY DEF IInv, LifeInv, Reported
  <2>3. \A u \in Thread : Reached(u) => Hits(u)' \subseteq Hits(u)
    <3>1. CASE threads \cap Denied = {} /\ WriteRegisters(slots', threads)
      BY <2>2, <3>1 DEF WriteRegisters
    <3>2. CASE settled' = settled \ {i}
      BY <1>1, <1>4, <2>1, <3>2
    <3>3. QED
      BY <1>4, <3>1, <3>2 DEF sync_watchpoints_to_threads
  <2>4. Fresh'
    BY <1>4, <2>1
  <2>5. HitsHold'
    <3> SUFFICES ASSUME NEW u \in Thread \ Denied, Reached(u)', NEW j \in Hits(u)'
                 PROVE  /\ event'[u] = "trap" /\ touched'[u] # None
                        /\ Concerns(slots'[j], u, touched'[u])
      BY DEF Concerns
    <3>1. Reached(u) /\ j \in Hits(u) /\ dr6'[u] # {}
      BY <1>4, <2>3
    <3>2. slots'[j] = slots[j]
      <4>1. CASE threads \cap Denied = {} /\ WriteRegisters(slots', threads)
        BY <2>2, <3>1, <4>1 DEF WriteRegisters
      <4>2. CASE settled' = settled \ {i}
        BY <1>1, <1>4, <4>2
      <4>3. QED
        BY <1>4, <4>1, <4>2 DEF sync_watchpoints_to_threads
    <3>3. QED
      BY <1>4, <3>1, <3>2
  <2>6. HeldQuiet'
    BY <1>1, <1>4, <2>3
  <2>7. QED
    BY <2>4, <2>5, <2>6
<1>5. ASSUME NEW target \in Target, NEW kind \in Kind, set_watchpoint(target, kind)
      PROVE  (Fresh /\ HitsHold /\ HeldQuiet)'
  <2>1. PICK i \in Slot :
          /\ slots' = [slots EXCEPT ![i] =
                         [id |-> next_id', pid |-> ProcOf[last_thread_id],
                          address |-> target.address,
                          size |-> hw_size(target.size), kind |-> kind]]
          /\ sync_watchpoints_to_threads(i)
    BY <1>5 DEF set_watchpoint
  <2>2. UNCHANGED <<life, event, touched, held>>
    BY <1>5 DEF set_watchpoint
  <2>3. \A j \in Slot : j # i => slots'[j] = slots[j]
    BY <2>1 DEF IInv, TypeOK
  <2>4. QED
    BY <1>4, <2>1, <2>2, <2>3
<1>6. ASSUME NEW i \in Slot, delete_watchpoint(i)
      PROVE  (Fresh /\ HitsHold /\ HeldQuiet)'
  <2>1. \A j \in Slot : j # i => slots'[j] = slots[j]
    BY <1>6 DEF delete_watchpoint, IInv, TypeOK
  <2>2. QED
    BY <1>4, <1>6, <2>1 DEF delete_watchpoint
<1>7. ASSUME NEW t \in Thread, switch_thread(t)
      PROVE  (Fresh /\ HitsHold /\ HeldQuiet)'
  BY <1>7 DEF switch_thread, Concerns
<1>8. QED
  BY <1>2, <1>3, <1>5, <1>6, <1>7 DEF User

\* A step adds to the reports only what the hit bits of the stopping thread say.
LEMMA ReportsComeFromHits ==
  ASSUME HInv, [Next]_vars, NEW r \in reported' \ reported, r.slot \in settled
  PROVE  touched[r.thread] # None /\ Concerns(r.watch, r.thread, touched[r.thread])
<1> USE DEF session, manager, told, cpu, os
<1>1. \A t \in Thread : Debuggee(t) => reported' = reported
  BY DEF Debuggee, Start, Touch, ReachStop, Exit, debuggerVars
<1>2. User => reported' \subseteq reported
  BY DEF User, continue_execution, Run, set_watchpoint, delete_watchpoint, switch_thread
<1>3. PICK t \in Thread : SINGLE_STEP(t)
  <2>1. \A t \in Thread : Handle(t) => SINGLE_STEP(t) \/ reported' \subseteq reported
    BY DEF Handle, CREATE_PROCESS, CREATE_THREAD, EXIT_THREAD, EXIT_PROCESS, Stop
  <2>2. ~UNCHANGED vars
    BY DEF vars
  <2>3. QED
    BY <1>1, <1>2, <2>1, <2>2 DEF Next
<1>4. PICK i \in take_watchpoint_hits(t) : r = [slot |-> i, watch |-> slots[i], thread |-> t]
  BY <1>3 DEF SINGLE_STEP
<1>5. t \notin Denied /\ i \in Hits(t)
  BY <1>4 DEF take_watchpoint_hits, Hits
<1>6. Reached(t)
  <2>1. event[t] \in {"trap", "step"}
    BY <1>3 DEF SINGLE_STEP, Wait
  <2>2. life[t] # "unborn"
    BY <2>1 DEF HInv, IInv, LifeInv, Unborn
  <2>3. life[t] \in {"unborn", "alive", "dead"}
    BY DEF HInv, IInv, TypeOK
  <2>4. life[t] # "dead"
    BY <2>1 DEF HInv, IInv, LifeInv, Ending
  <2>5. QED
    BY <2>1, <2>2, <2>3, <2>4 DEF Reached, CreateKinds
<1>7. QED
  BY <1>4, <1>5, <1>6 DEF HInv, HitsHold

\* At start no hit is pending.
LEMMA InitHInv == Init => HInv
<1> SUFFICES ASSUME Init PROVE HInv
  OBVIOUS
<1>1. Fresh /\ HitsHold /\ HeldQuiet
  BY DEF Init, Fresh, HitsHold, HeldQuiet, Reached
<1>2. QED
  BY <1>1, InitIInv DEF HInv

\* Every step keeps the invariant of the hits.
LEMMA NextHInv == AlignedTargets /\ None \notin Access /\ HInv /\ [Next]_vars => HInv'
<1> SUFFICES ASSUME AlignedTargets, None \notin Access, HInv, [Next]_vars PROVE HInv'
  OBVIOUS
<1>1. IInv'
  BY NextIInv DEF HInv
<1>2. CASE Next
  BY <1>1, <1>2, DebuggeeHits, HandleHits, UserHits DEF Next, HInv
<1>3. CASE UNCHANGED vars
  BY <1>1, <1>3 DEF vars, os, cpu, session, manager, told, HInv, Fresh, HitsHold, HeldQuiet, Hits,
     Reached, Concerns
<1>4. QED
  BY <1>2, <1>3

\* A stop names a watchpoint only for an access to it: hit bits that outlive
\* their watchpoint, or that a sync did not reach, are never blamed on the one
\* that has taken over the slot.
THEOREM ReportedHitsAreTrue ==
  ASSUME AlignedTargets, None \notin Access
  PROVE  Spec => ReportsAreTrue
<1>1. HInv /\ [Next]_vars => HInv'
  BY NextHInv
<1>2. HInv /\ [Next]_vars =>
        [\A r \in reported' \ reported : r.slot \in settled =>
           /\ touched[r.thread] # None
           /\ Concerns(r.watch, r.thread, touched[r.thread])]_vars
  BY ReportsComeFromHits
<1>3. QED
  BY <1>1, <1>2, InitHInv, PTL DEF Spec, ReportsAreTrue
=============================================================================

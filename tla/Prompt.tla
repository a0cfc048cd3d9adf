------------------------------- MODULE Prompt -------------------------------
(***************************************************************************)
(* The prompt over a stopped thread (src/debugger.rs, handle_command): the *)
(* commands that look at the debuggee and those that change what they see. *)
(* Each takes text, resolves it and answers; the model keeps the answer.   *)
(* What a text means is a parameter: Inspect gives it the parser and the   *)
(* evaluator of src/eval.rs.                                               *)
(***************************************************************************)
EXTENDS Objects, LineTable

CONSTANTS
  Parse(_),     \* parse_expr: what a text is as an expression
  Format(_, _, _, _), \* what print makes of <settings, parsed text, format letter, debuggee>
  Plan(_, _),   \* where a text after `set' writes and what, in a debuggee: [ok, value: [loc, v]]
  Texts,        \* expressions typed before `run', as sequences of lexemes
  Questions,    \* <<expression, format letter>> printed while a thread is stopped
  Assignments,  \* what is typed after `set'
  Limits,       \* numbers typed after `set print elements' and `repeats'
  Targets,      \* what is typed after `break' and `disassemble'
  Fresh,        \* [memory, regs] of the debuggee when it first stops
  Int3,         \* the byte 0xCC
  MaxInstruction, \* bytes read for each instruction to disassemble (16)
  MaxChanges    \* bound: commands that change something

\* Names of registers: no two files share one.
ASSUME FreshAssumption ==
  /\ DOMAIN Fresh.memory \subseteq Nat /\ Fresh.memory \in [DOMAIN Fresh.memory -> 0 .. Byte - 1]
  /\ Fresh.regs = [wide |-> Fresh.regs.wide, narrow |-> Fresh.regs.narrow, fp |-> Fresh.regs.fp]
  /\ Fresh.regs.wide \in [DOMAIN Fresh.regs.wide -> U64]
  /\ Fresh.regs.narrow \in [DOMAIN Fresh.regs.narrow -> 0 .. Values[4] - 1]
  /\ Fresh.regs.fp \in [0 .. 1 -> [low : U64, high : 0 .. 2 * ExtGap - 1]]
  /\ DOMAIN Fresh.regs.wide \cap DOMAIN Fresh.regs.narrow = {}
  /\ (DOMAIN Fresh.regs.wide \cup DOMAIN Fresh.regs.narrow) \cap (DOMAIN St \cup DOMAIN Mm) = {}
ASSUME Int3Assumption == Int3 \in 0 .. Byte - 1

VARIABLES
  process,      \* is there a debuggee
  memory, regs, \* of the debuggee
  settings,     \* Debugger.print_settings
  breakpoints,  \* Debugger.breakpoints: set of [id, address, original_byte]
  next_id,
  changes,      \* commands counted by MaxChanges
  answer        \* the last command and what it said

vars == <<process, memory, regs, settings, breakpoints, next_id, changes, answer>>
debuggee == <<process, memory, regs>>
c == [memory |-> memory, regs |-> regs]

DefaultSettings == [pretty |-> FALSE, address |-> TRUE, elements |-> 200, repeats |-> 10]

Init ==
  /\ process = FALSE /\ memory = Fresh.memory /\ regs = Fresh.regs
  /\ settings = DefaultSettings
  /\ breakpoints = {} /\ next_id = 0
  /\ changes = 0 /\ answer = [cmd |-> "none"]

Idle == [cmd |-> "none"]
\* run_repl: one answer, then the next line.
Ready == answer = Idle
read_line ==
  /\ ~Ready /\ answer' = Idle
  /\ UNCHANGED <<process, memory, regs, settings, breakpoints, next_id, changes>>

\* (Bound: settings are not changed before `run', when nothing is shown.)
Change == Ready /\ process /\ changes < MaxChanges /\ changes' = changes + 1

\* The first stop of a program that was launched.
run ==
  /\ Ready /\ ~process /\ process' = TRUE
  /\ answer' = [cmd |-> "run"]
  /\ UNCHANGED <<memory, regs, settings, breakpoints, next_id, changes>>

(***************************************************************************)
(* print and set.                                                          *)
(***************************************************************************)
\* The text is parsed first; evaluating it needs a process.
Shown(text, fmt) ==
  IF process THEN Format(settings, Parse(text), fmt, c) ELSE Refuse("no process")

print_expr(text, fmt) ==
  /\ Ready
  /\ answer' = [cmd |-> "print", text |-> text, fmt |-> fmt,
                parsed |-> Parse(text), shown |-> Shown(text, fmt)]
  /\ UNCHANGED <<debuggee, settings, breakpoints, next_id, changes>>

Writable(loc) ==
  IF loc.at = "memory" THEN Bytes(loc) \subseteq DOMAIN memory ELSE Known(regs, loc.name)

Write(loc, v) ==
  /\ memory' = IF loc.at = "memory" THEN write_typed(memory, loc, v) ELSE memory
  /\ regs' = IF loc.at = "register" THEN write_register(regs, loc.name, v) ELSE regs
  /\ answer' = [cmd |-> "set", ok |-> TRUE, loc |-> loc, v |-> v]

Perform(plan) ==
  IF plan.ok /\ Writable(plan.value.loc) THEN Write(plan.value.loc, plan.value.v)
  ELSE UNCHANGED <<memory, regs>> /\ answer' = [cmd |-> "set", ok |-> FALSE]

set(text) ==
  /\ Change
  /\ Perform(Plan(text, c))
  /\ UNCHANGED <<process, settings, breakpoints, next_id>>

set_print_option(s, option, v) == [s EXCEPT ![option] = v]

\* `unlimited' is a number as well.
ValuesOf(option) == IF option \in {"pretty", "address"} THEN BOOLEAN ELSE Limits \cup {Unlimited}
set_print(option, v) ==
  /\ Change
  /\ settings' = set_print_option(settings, option, v)
  /\ answer' = [cmd |-> "set_print"]
  /\ UNCHANGED <<debuggee, breakpoints, next_id>>

(***************************************************************************)
(* Breakpoints, as far as they are bytes in what the commands read.        *)
(***************************************************************************)
Settled(target) ==
  LET address == resolve_target_address(target)
  IN  IF process /\ address \in DOMAIN memory THEN Done(address) ELSE Refuse("cannot resolve")

BreakpointAt(address) == {b \in breakpoints : b.address = address}

\* (A second breakpoint at an address is a subject of DebugLoop.)
set_breakpoint(target) ==
  LET at == Settled(target)
      original == memory[at.value]
  IN  /\ at.ok /\ BreakpointAt(at.value) = {} /\ Change
      /\ breakpoints' = breakpoints \cup
           {[id |-> next_id + 1, address |-> at.value, original_byte |-> original]}
      /\ memory' = [memory EXCEPT ![at.value] = Int3]
      /\ next_id' = next_id + 1
      /\ answer' = [cmd |-> "break", target |-> target, address |-> at.value]
      /\ UNCHANGED <<process, regs, settings>>

delete(b) ==
  /\ b \in breakpoints /\ Change
  /\ breakpoints' = breakpoints \ {b}
  /\ memory' = [memory EXCEPT ![b.address] = b.original_byte]
  /\ answer' = [cmd |-> "delete"]
  /\ UNCHANGED <<process, regs, settings, next_id>>

\* saturating_sub: a breakpoint below the view has offset 0.
Offset(b, address) == IF b.address < address THEN 0 ELSE b.address - address

\* What may be decoded at `address'; breakpoints with one offset are applied in any order.
Views(address, n) ==
  LET Over(k) == {b \in breakpoints : Offset(b, address) = k}
      Seen(k) == IF Over(k) = {} THEN {memory[address + k]} ELSE {b.original_byte : b \in Over(k)}
  IN  {view \in [0 .. n - 1 -> 0 .. Byte - 1] : \A k \in 0 .. n - 1 : view[k] \in Seen(k)}

\* All count * 16 bytes must be readable.
disassemble(target, count) ==
  LET at == Settled(target)
      n == count * MaxInstruction
  IN  /\ Ready /\ at.ok /\ at.value .. at.value + n - 1 \subseteq DOMAIN memory
      /\ \E view \in Views(at.value, n) :
           answer' = [cmd |-> "disassemble", address |-> at.value, view |-> view]
      /\ UNCHANGED <<debuggee, settings, breakpoints, next_id, changes>>

Show == \/ ~process /\ \E text \in Texts : print_expr(text, "none")
        \/ process /\ \E q \in Questions : print_expr(q[1], q[2])

Next ==
  \/ read_line
  \/ run
  \/ Show
  \/ \E text \in Assignments : set(text)
  \/ \E option \in DOMAIN settings : \E v \in ValuesOf(option) : set_print(option, v)
  \/ \E target \in Targets : set_breakpoint(target)
  \/ \E b \in breakpoints : delete(b)
  \/ \E target \in Targets, count \in 1 .. 2 : disassemble(target, count)

Spec == Init /\ [][Next]_vars
-----------------------------------------------------------------------------
\* Memory is bytes, registers are in their widths, and saved bytes are bytes.
TypeOK ==
  /\ process \in BOOLEAN
  /\ memory \in [DOMAIN Fresh.memory -> 0 .. Byte - 1]
  /\ DOMAIN regs.wide = DOMAIN Fresh.regs.wide /\ Range(regs.wide) \subseteq U64
  /\ DOMAIN regs.narrow = DOMAIN Fresh.regs.narrow /\ Range(regs.narrow) \subseteq 0 .. Values[4] - 1
  /\ \A r \in Range(regs.fp) : r.low \in U64 /\ r.high \in 0 .. 2 * ExtGap - 1
  /\ \A b \in breakpoints : b.id \in 1 .. next_id /\ b.original_byte \in 0 .. Byte - 1

RegisterNames == DOMAIN regs.wide \cup DOMAIN regs.narrow \cup DOMAIN St \cup DOMAIN Mm
\* mm and st of one number are the same register.
SameRegister(a, b) ==
  \/ a = b
  \/ a \in DOMAIN St /\ b \in DOMAIN Mm /\ St[a] = Mm[b]
  \/ a \in DOMAIN Mm /\ b \in DOMAIN St /\ Mm[a] = St[b]

\* The x87 stack has one NaN, and subnormal doubles are approximate there.
HeldAs(f, now) == f \in Exact => now = FloatValue(IF IsNaN(f) THEN NaN ELSE f)

\* What an accepted `set' does to the object it names, and to the others.
Exactly ==
  LET loc == answer'.loc
      v == answer'.v
      read == read_typed([memory |-> memory', regs |-> regs'], loc)
      back == read.value
      now == register(regs', loc.name)
  IN  answer'.cmd = "set" /\ answer'.ok =>
        IF loc.at = "memory"
        THEN /\ regs' = regs
             /\ \A a \in DOMAIN memory : a \notin loc.address .. loc.address + loc.size - 1
                                           => memory'[a] = memory[a]
             /\ read.ok
             /\ IF loc.kind = "Float" THEN back.f = as_f64(v)
                ELSE /\ (as_i64(v) - back.n) % Values[Width(loc)] = 0
                     /\ loc.size \in {1, 2, 4, 8} =>
                          2 * back.n \in -Values[loc.size] .. Values[loc.size] - 1
        ELSE /\ memory' = memory
             /\ IF loc.name \in DOMAIN St THEN HeldAs(as_f64(v), now)
                ELSE now = IntValue(IF loc.name \in DOMAIN regs.narrow
                                    THEN as_i64(v) % Values[4] ELSE as_i64(v))
             /\ \A n \in RegisterNames :
                  SameRegister(n, loc.name) \/ register(regs', n) = register(regs, n)

\* An accepted `set' (debugger.rs:1247-1299) changes the object named and nothing else, and
\* reading the object gives the value: modulo its width and with its sign for C's integers,
\* as a double for doubles and for the x87 stack (process.rs:246-333), truncated elsewhere.
SetIsExact == [][Exactly]_vars

\* Every breakpoint the user sets, on a function (symbols.rs:345-408), a line (symbols.rs:410-455)
\* or an address, is at a place that LandsInside allows.
BreakpointsLandInside == answer.cmd = "break" => LandsInside(answer.target, answer.address)

\* The bytes of the program: what is in memory but for the breakpoints.
Program(a) ==
  IF BreakpointAt(a) = {} THEN memory[a] ELSE (CHOOSE b \in BreakpointAt(a) : TRUE).original_byte

\* debugger.rs:1079: "show the original bytes so disassembly doesn't start with 'int 3' and
\* misdecode". What is disassembled is the program's bytes.
DisassemblyShowsProgram ==
  answer.cmd = "disassemble" =>
    \A k \in DOMAIN answer.view : answer.view[k] = Program(answer.address + k)
=============================================================================

----------------------------- MODULE Expressions ----------------------------
(***************************************************************************)
(* What `print' and `set' make of a parsed expression (src/eval.rs, eval   *)
(* and eval_location; src/debugger.rs, DebugEvalContext), on the memory    *)
(* and the registers c.memory and c.regs of a stopped thread. The debug    *)
(* information is given: Types describes each type and Variables says      *)
(* where each variable lives.                                              *)
(***************************************************************************)
EXTENDS Syntax, Objects

CONSTANTS
  NoType,     \* type id 0: nothing known
  Types,      \* type -> [tag, size, kind, of, count, members]
  Variables   \* name -> [base, offset, type], base a register or "none"

TypeSize(t) == IF t = NoType THEN 0 ELSE Types[t].size
Tag(t) == IF t = NoType THEN "None" ELSE Types[t].tag

\* Pointers and aggregates are read and written as integers.
classify_kind(t) == IF Tag(t) = "Base" THEN Types[t].kind ELSE "Int"
type_meta(t) == [size |-> IF TypeSize(t) = 0 THEN 4 ELSE TypeSize(t), kind |-> classify_kind(t), ty |-> t]
Untyped == type_meta(NoType)

Memory(address, meta) ==
  [at |-> "memory", address |-> u64(address), size |-> meta.size, kind |-> meta.kind, ty |-> meta.ty]
InRegister(name) == [at |-> "register", name |-> name]

\* dbghelp gives an address, or an offset from a register for a local.
variable(c, name) ==
  IF name \notin DOMAIN Variables THEN Refuse("undefined variable")
  ELSE LET v == Variables[name]
       IN  Done(Memory(v.offset + IF v.base = "none" THEN 0 ELSE c.regs.wide[v.base], type_meta(v.type)))

shape(t) == IF Tag(t) \in {"Pointer", "Array"} THEN Tag(t) ELSE "Other"
element(t) == IF shape(t) = "Other" THEN Refuse("no element") ELSE Done(type_meta(Types[t].of))
member(t, field) ==
  LET named == IF Tag(t) = "UDT" THEN {m \in Types[t].members : m.name = field} ELSE {}
  IN  IF named = {} THEN Refuse("no member") ELSE Done(CHOOSE m \in named : TRUE)

read_location(c, loc) ==
  IF loc.at = "memory" THEN read_typed(c, loc)
  ELSE IF Known(c.regs, loc.name) THEN Done(register(c.regs, loc.name)) ELSE Refuse("unknown register")

(***************************************************************************)
(* Evaluation. Arithmetic on floats is not modelled: the CASE for a binary *)
(* operator has no value for it, and no expression of the models asks.     *)
(***************************************************************************)
RECURSIVE eval(_, _), eval_location(_, _)

\* The `?' of Rust: an error goes out as it is.
Bind(r, F(_)) == IF r.ok THEN F(r.value) ELSE r

IsLvalue(e) == e[1] \in {"Ident", "Member", "Index"} \/ (e[1] = "Unary" /\ e[2] = "*")

eval_unary(op, v) ==
  CASE op = "-" -> IF v.kind = "Float" THEN FloatValue(Negated(v.f)) ELSE IntValue(i64(-v.n))
    [] op = "+" -> v
    [] op = "!" -> IntValue(IF as_i64(v) = 0 THEN 1 ELSE 0)
    [] op = "~" -> IntValue(-as_i64(v) - 1)

AddressOf(v) == u64(as_i64(v))

address_of(loc) ==
  IF loc.at = "register" THEN Refuse("cannot take the address") ELSE Done(IntValue(i64(loc.address)))

apply_binary(op, l, r) ==
  CASE op \in Bitwise \/ {l.kind, r.kind} = {"Int"} ->
         Bind(eval_binary(op, as_i64(l), as_i64(r)), LAMBDA n : Done(IntValue(n)))

eval(e, c) ==
  CASE e[1] = "Int" -> Done(IntValue(e[2]))
    [] e[1] = "Float" -> Done(FloatValue(e[2]))
    [] IsLvalue(e) \/ e[1] = "Register" ->
         Bind(eval_location(e, c), LAMBDA loc : read_location(c, loc))
    [] e[1] = "Unary" /\ e[2] = "&" -> Bind(eval_location(e[3], c), address_of)
    [] e[1] = "Unary" /\ e[2] \in UnaryOps \ {"*", "&"} ->
         Bind(eval(e[3], c), LAMBDA v : Done(eval_unary(e[2], v)))
    [] e[1] = "Binary" ->
         Bind(eval(e[3], c), LAMBDA l : Bind(eval(e[4], c), LAMBDA r : apply_binary(e[2], l, r)))

\* The type that is known of a location, if it is one.
type_at(loc) == IF loc.ok /\ loc.value.at = "memory" THEN loc.value.ty ELSE NoType
pointee_meta(t) == IF element(t).ok THEN element(t).value ELSE Untyped

\* *e: the value of e is the address, the element of e's own type says how much to read.
deref_location(e, c) ==
  Bind(eval(e, c), LAMBDA v : Done(Memory(AddressOf(v), pointee_meta(type_at(eval_location(e, c))))))

FieldAt(address, ty, field) ==
  Bind(member(ty, field), LAMBDA m : Done(Memory(address + m.offset, type_meta(m.type))))

\* `->' does not check that the base is a pointer: it takes the value of anything with elements.
arrow_location(base, field, c) ==
  Bind(element(type_at(eval_location(base, c))), LAMBDA pointee :
    IF pointee.ty = NoType THEN Refuse("unknown pointee type")
    ELSE Bind(eval(base, c), LAMBDA v : FieldAt(AddressOf(v), pointee.ty, field)))

dot_location(base, field, c) ==
  Bind(eval_location(base, c), LAMBDA loc :
    IF loc.at = "register" \/ loc.ty = NoType THEN Refuse("unknown struct type")
    ELSE FieldAt(loc.address, loc.ty, field))

ElementAt(first, i, meta) == Done(Memory(i64(first + i64(as_i64(i) * meta.size)), meta))

\* Indexing a pointer as if the elements began where the pointer itself is.
index_own_address(base, index, c) ==
  Bind(eval_location(base, c), LAMBDA loc :
    IF loc.at = "register" THEN Refuse("not indexable")
    ELSE Bind(element(loc.ty), LAMBDA meta :
           Bind(eval(index, c), LAMBDA i : ElementAt(loc.address, i, meta))))

\* A pointer is indexed through its value, an array at its own address.
first_element(c, loc) ==
  IF shape(loc.ty) = "Array" THEN Done(loc.address)
  ELSE Bind(read_typed(c, loc), LAMBDA v : Done(AddressOf(v)))

index_location(base, index, c) ==
  Bind(eval_location(base, c), LAMBDA loc :
    IF loc.at = "register" THEN Refuse("not indexable")
    ELSE Bind(element(loc.ty), LAMBDA meta :
           Bind(first_element(c, loc), LAMBDA first :
             Bind(eval(index, c), LAMBDA i : ElementAt(first, i, meta)))))

eval_location(e, c) ==
  CASE e[1] = "Ident" -> variable(c, e[2])
    [] e[1] = "Register" -> Done(InRegister(e[2]))
    [] e[1] = "Unary" /\ e[2] = "*" -> deref_location(e[3], c)
    [] e[1] = "Member" /\ e[4] = "->" -> arrow_location(e[2], e[3], c)
    [] e[1] = "Member" /\ e[4] = "." -> dot_location(e[2], e[3], c)
    [] e[1] = "Index" -> index_location(e[2], e[3], c)
    [] OTHER -> Refuse("expression is not assignable")

\* `set lhs = rhs': where to write, and what.
set_expr(lhs, rhs, c) ==
  Bind(eval(rhs, c), LAMBDA v :
    Bind(eval_location(lhs, c), LAMBDA loc : Done([loc |-> loc, v |-> v])))
=============================================================================

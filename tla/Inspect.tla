------------------------------ MODULE Inspect ------------------------------
(***************************************************************************)
(* The prompt with the parser, the evaluator and the printer of the code,  *)
(* and what they promise.                                                  *)
(***************************************************************************)
EXTENDS Prompt, Printing

\* A text that does not parse is reported; print/s takes its own way.
FormatParsed(s, parsed, fmt, ctx) ==
  IF ~parsed.ok THEN Refuse("not evaluated")
  ELSE IF fmt = "s" THEN print_string(s, parsed.expr, ctx)
  ELSE format_print_expr(s, parsed.expr, ctx, fmt)

\* Both sides are parsed before either is evaluated.
Evaluated(lhs, rhs, ctx) ==
  IF ~lhs.ok \/ ~rhs.ok THEN Refuse("syntax") ELSE set_expr(lhs.expr, rhs.expr, ctx)

Planned(text, ctx) ==
  LET sides == split_assignment(text)
  IN  IF ~sides.ok THEN Refuse("invalid assignment")
      ELSE Evaluated(parse(sides.lhs), parse(sides.rhs), ctx)
-----------------------------------------------------------------------------

Asked == answer.cmd = "print"

\* What the parser (eval.rs:255-464) makes of a text is what the text says in the grammar of
\* docs/03 section 9.1: written out again it has the same operators and operands in the same
\* order, with no parenthesis the user did not type and none missing, and it reads back as itself.
ParsesAsWritten ==
  Asked /\ answer.parsed.ok =>
    LET e == answer.parsed.expr
        typed == [i \in DOMAIN answer.text |-> Token(answer.text[i])]
    IN  /\ NoParentheses(Text(e)) = NoParentheses(typed)
        /\ Len(Text(e)) <= Len(typed)
        /\ parse(Text(e)).ok /\ parse(Text(e)).expr = e

\* The value of a binary operator (eval.rs:629-698) against its definition over the integers:
\* sums and products modulo the word, a quotient toward zero with a remainder of the sign of
\* the dividend, bits by inclusion, a shift by the count modulo the width that keeps the sign.
ArithmeticIsC ==
  LET e == answer.parsed.expr
      Integer(v) == v.ok /\ v.value.kind = "Int"
      Of(op) == eval(<<"Binary", op, e[3], e[4]>>, c).value.n
      Integers(l, r) ==
        Integer(l) /\ Integer(r) => IsBinary(e[2], l.value.n, r.value.n, Of(e[2]), Of)
  IN  (Asked /\ answer.shown.ok /\ answer.fmt # "s" /\ e[1] = "Binary") =>
        Integers(eval(e[3], c), eval(e[4], c))

Var(name) == <<"Ident", name>>
Deref(e) == <<"Unary", "*", e>>
Elem(e, i) == <<"Index", e, IF i < 0 THEN <<"Unary", "-", <<"Int", -i>>>> ELSE <<"Int", i>>>>
Alike(l1, l2) == l1.ok = l2.ok /\ (l1.ok => l1.value = l2.value)
SamePlace(e1, e2) == Alike(eval_location(e1, c), eval_location(e2, c))
VariablesOf(tag) == {x \in DOMAIN Variables : Tag(Variables[x].type) = tag}

IsPointer(p, v, pointee) ==
  /\ SamePlace(Deref(p), Elem(p, 0))
  /\ v.ok => /\ eval(<<"Unary", "&", Deref(p)>>, c) = v
             /\ \A i \in -1 .. 2 : eval_location(Elem(p, i), c).value.address
                                     = u64(v.value.n + i * TypeSize(pointee))
  /\ Tag(pointee) = "UDT" =>
       \A m \in Types[pointee].members :
         SamePlace(<<"Member", p, m.name, "->">>, <<"Member", Deref(p), m.name, ".">>)

\* The identities of C that the typed operators keep (eval.rs:700-789), whatever the pointers
\* hold: *p is p[0], p->f is ( *p).f, &*p is p, elements are their size apart, and a pointer to
\* the first element of an array indexes the array's elements.
PointersAreArrays == Ready =>
  /\ \A x \in VariablesOf("Pointer") : IsPointer(Var(x), eval(Var(x), c), Types[Variables[x].type].of)
  /\ \A x \in VariablesOf("Pointer"), y \in VariablesOf("Array") :
       (/\ Types[Variables[x].type].of = Types[Variables[y].type].of
        /\ SamePlace(Deref(Var(x)), Elem(Var(y), 0))) =>
         \A i \in 0 .. Types[Variables[y].type].count - 1 : SamePlace(Elem(Var(x), i), Elem(Var(y), i))

RECURSIVE Expand(_)
Expand(parts) ==
  IF parts = <<>> THEN <<>>
  ELSE [k \in 1 .. Head(parts).times |-> Head(parts).text] \o Expand(Tail(parts))

\* A shown text without its type.
Unprefixed(value) == IF settings.pretty THEN value.text ELSE value

\* Each element as print would show it alone.
Alone(i) == format_print_expr(settings, Elem(answer.parsed.expr, i), c, answer.fmt).value

ArrayIsShown(ty, text, shown) ==
  /\ Len(shown) <= Types[ty].count /\ (text.truncated <=> Len(shown) < Types[ty].count)
  /\ \A i \in 1 .. Len(shown) :
       Alone(i - 1) = IF settings.pretty THEN [type |-> Types[ty].of, text |-> shown[i]] ELSE shown[i]
  /\ text.truncated => Len(text.parts) >= settings.elements
  /\ \A k \in settings.elements + 1 .. Len(text.parts) : k > 1 /\ text.parts[k] = text.parts[k - 1]

StringIsThere(address, bytes) ==
  LET end == address + Len(bytes)
  IN  /\ \A k \in DOMAIN bytes : bytes[k] # 0 /\ bytes[k] = memory[address + k - 1]
      /\ Len(bytes) = StringLimit(settings) \/ end \notin DOMAIN memory \/ memory[end] = 0

\* An array is shown as it is: taking each `<repeats n times>' for n elements gives the first
\* elements, each as print would show it alone, and all of them unless the text ends in `...'.
\* (debugger.rs:2141-2193.) It is not cut before the limit, and what goes past it, which
\* ElementsLimited does not allow, only finishes a run. A string ends before a NUL, where memory
\* ends, or at the limit.
ShownIsThere ==
  LET value == answer.shown.value
      text == Unprefixed(value)
      ArrayShown(ty) == Tag(ty) = "Array" => ArrayIsShown(ty, text, Expand(text.parts))
  IN  (Asked /\ answer.shown.ok) =>
        IF answer.fmt = "s" THEN value.string.some => StringIsThere(value.address, value.string.bytes)
        ELSE ArrayShown(type_at(eval_location(answer.parsed.expr, c)))

\* `elements' is the upper limit on the items of an array and on the characters of a string that
\* are shown (F-EXPR-09, docs/01:110; TC-EXPR-11, docs/04:119: after `set print elements 5'
\* an array is cut off at 5; commands.rs:378). format_array (debugger.rs:2158-2185) looks at the
\* limit before each run of equal elements only, and a string shows a character at limit 0
\* (debugger.rs:1216): the run PrintLimit finds this violated.
ElementsLimited ==
  LET value == answer.shown.value
      ArrayLimited(ty) == Tag(ty) = "Array" => Len(Unprefixed(value).parts) <= settings.elements
  IN  (Asked /\ answer.shown.ok) =>
        IF answer.fmt = "s" THEN Len(value.string.bytes) <= settings.elements
        ELSE ArrayLimited(type_at(eval_location(answer.parsed.expr, c)))
=============================================================================

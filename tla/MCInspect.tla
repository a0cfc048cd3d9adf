----------------------------- MODULE MCInspect -----------------------------
(* Inspect on bytes of 4 values and words of 16 bits (Byte = 4): a program  *)
(* of 8 bytes of code and 63 of data, and what a user types about it.       *)
EXTENDS Inspect, Prompt_proofs

Base(size, kind) == [tag |-> "Base", size |-> size, kind |-> kind]
PointerTo(t) == [tag |-> "Pointer", size |-> 8, of |-> t]
ArrayOf(t, count, size) == [tag |-> "Array", size |-> count * size, of |-> t, count |-> count]
Field(name, offset, type) == [name |-> name, offset |-> offset, type |-> type]

\* pair is a struct with a char and an int; odd is one of 3 bytes.
MCTypes == [
  int |-> Base(4, "Int"), char |-> Base(1, "Int"), double |-> Base(8, "Float"),
  ints |-> ArrayOf("int", 3, 4), chars |-> ArrayOf("char", 4, 1),
  pint |-> PointerTo("int"), pchar |-> PointerTo("char"), ppair |-> PointerTo("pair"),
  pair |-> [tag |-> "UDT", size |-> 8, members |-> {Field("c", 0, "char"), Field("n", 4, "int")}],
  odd |-> [tag |-> "UDT", size |-> 3, members |-> {Field("c", 0, "char")}]]

At0(offset, type) == [base |-> "none", offset |-> offset, type |-> type]
\* x is a local, 20 bytes below the frame pointer.
MCVariables == [
  a |-> At0(8, "ints"), x |-> [base |-> "rbp", offset |-> -20, type |-> "int"],
  p |-> At0(24, "pint"), q |-> At0(32, "ppair"), s |-> At0(40, "pair"), w |-> At0(48, "chars"),
  t |-> At0(52, "pchar"), d |-> At0(60, "double"), o |-> At0(68, "odd")]

\* Little-endian bytes of u at a.
Put(m, a, u, n) == [k \in DOMAIN m |-> IF k \in a .. a + n - 1 THEN ByteAt(u, k - a) ELSE m[k]]
Blank == [k \in 0 .. 70 |-> IF k < 8 THEN k % 3 ELSE 0]
Data == Put(Put(Put(Put(Put(Put(Put(Put(Blank, 8, 5, 4), 12, 5, 4), 16, 255, 4), 20, 7, 4),
                    24, 8, 8), 32, 40, 8), 48, 1 + 4 * 2 + 64 * 3, 4), 52, 48, 8)
MCFresh == [memory |-> Data,
            regs |-> [wide |-> [rax |-> 3, rbp |-> 40, xmm0h |-> 0], narrow |-> [eflags |-> 2],
                      fp |-> [i \in 0 .. 1 |-> [low |-> 0, high |-> 0]]]]

Name(x) == <<"Ident", x>>
Num(n) == IF n < 0 THEN <<"Unary", "-", <<"Int", -n>>>> ELSE <<"Int", n>>
Rax == <<"Register", "rax">>
Bin(op, l, r) == <<"Binary", op, l, r>>
BinOps == DOMAIN Precedence

\* Before `run': every nesting of two operators, and short texts of any kind.
Nested == {Bin(f, Num(1), Bin(g, Num(2), Num(3))) : f, g \in BinOps}
            \cup {Bin(f, Bin(g, Num(1), Num(2)), Num(3)) : f, g \in BinOps}
            \cup {<<"Unary", u, Bin(f, Name("x"), <<"Unary", v, Name("p")>>)>> : u, v \in UnaryOps, f \in BinOps}
            \cup {Bin(f, <<"Unary", u, Name("x")>>, <<"Member", Name("p"), "n", "->">>) : u \in UnaryOps, f \in BinOps}
            \cup {<<"Index", <<"Unary", u, Name("p")>>, Bin(f, Num(1), Num(2))>> : u \in UnaryOps, f \in BinOps}
Short == {Op("-"), Op("*"), Op("&&"), Op("="), Op("("), Op(")"), Op("["), Op("]"), Op("."), Op("<"),
          <<"name", "x">>, <<"int", 1>>}
MCTexts == {Text(e) : e \in Nested} \cup UNION {[1 .. n -> Short] : n \in 1 .. 3}
             \cup {<<Op("(")>> \o Text(e) \o <<Op(")")>> : e \in {Bin(f, Num(1), Num(2)) : f \in BinOps}}
             \cup {<<<<"int", Half>>>>, <<Op("@")>>}

Plain(E) == {<<Text(e), "none">> : e \in E}
MCQuestions ==
  Plain({Bin(op, Name("x"), Rax) : op \in BinOps} \cup {Bin(op, Rax, Name("x")) : op \in {"-", "/", "%", "<<", ">>"}})
    \cup Plain({Name("a"), Name("w"), Name("s"), Name("o"), Name("t"), Name("d"), Name("nowhere"),
                <<"Register", "st0">>, <<"Register", "none">>, <<"Unary", "-", Name("d")>>})
    \cup {<<Text(Name("a")), "x">>, <<Text(Name("a")), "z">>, <<Text(Name("w")), "c">>,
          <<Text(Name("d")), "f">>, <<Text(Name("x")), "d">>}
    \cup {<<Text(e), "s">> : e \in {Name("w"), Name("t"), Num(50), Bin("+", Name("t"), Num(20)), Name("p"), Num(100)}}

Assign(lhs, rhs) == Text(lhs) \o <<Op("=")>> \o Text(rhs)
MCAssignments ==
  {Assign(Rax, Num(n)) : n \in {0, 1, -1, -2, 17, Half - 1}}
    \cup {Assign(Rax, Bin("-", Num(-Half + 1), Num(1)))}
    \cup {Assign(Name("x"), Num(n)) : n \in {5, -7, -1, 0}}
    \cup {Assign(Name("p"), e) : e \in {<<"Unary", "&", Name("x")>>, Num(24), Num(-3)}}
    \cup {Assign(<<"Unary", "*", Name("p")>>, Num(5)), Assign(<<"Index", Name("p"), Num(-1)>>, Num(200)),
          Assign(<<"Index", Name("a"), Num(2)>>, Num(5)),
          Assign(<<"Member", Name("q"), "n", "->">>, Name("x")), Assign(<<"Member", Name("s"), "c", ".">>, Num(-1)),
          Assign(Name("q"), Num(8)), Assign(Name("a"), Num(-1)), Assign(Name("s"), Num(77)), Assign(Name("o"), Num(-1)),
          Assign(<<"Index", Name("w"), Num(2)>>, Num(1)), Assign(Name("t"), Num(0)),
          Assign(Name("d"), Name("x")), Assign(Name("d"), <<"Register", "st0">>), Assign(Name("x"), Name("d")),
          Assign(<<"Register", "st0">>, Name("x")), Assign(<<"Register", "st0">>, <<"Float", [sign |-> 0, exp |-> 32, man |-> 291]>>),
          Assign(<<"Register", "mm0">>, Num(-5)), Assign(<<"Register", "st1">>, Name("d")),
          Assign(<<"Register", "rbp">>, Num(28)), Assign(<<"Register", "eflags">>, Num(-1)),
          Assign(<<"Register", "none">>, Num(1)), Assign(Num(1), Num(1)), Text(Name("x"))}

File == <<"src", "test.c">>
Line(file, n, address) == [file |-> file, line |-> n, address |-> address]
\* f (line 3) is inlined nowhere; the loops of lines 5 and 9 are at two places; g is of another
\* file. The size of h is unknown, and no function follows it.
MCLines == <<Line(File, 3, 0), Line(File, 5, 1), Line(File, 4, 2), Line(File, 5, 3), Line(<<"lib", "g.c">>, 1, 4),
             Line(File, 9, 6), Line(File, 9, 7)>>
MCFunctions == [f |-> [entry |-> 0, size |-> 4], g |-> [entry |-> 4, size |-> 2], h |-> [entry |-> 6, size |-> 0]]
MCTargets == {[is |-> "function", name |-> n] : n \in {"f", "g", "h", "nowhere"}}
               \cup {[is |-> "line", file |-> <<"test.c">>, line |-> n] : n \in {4, 5, 6, 10}}
               \cup {[is |-> "address", address |-> n] : n \in {1, 90}}

\* The debuggee after each `set' that is accepted.
Afterwards(ctx) ==
  {LET plan == Planned(text, ctx)
   IN  IF ~plan.ok THEN ctx
       ELSE IF plan.value.loc.at = "memory"
       THEN [ctx EXCEPT !.memory = write_typed(@, plan.value.loc, plan.value.v)]
       ELSE IF Known(ctx.regs, plan.value.loc.name)
       THEN [ctx EXCEPT !.regs = write_register(@, plan.value.loc.name, plan.value.v)]
       ELSE ctx : text \in Assignments}

\* Debuggees unlike the first: bytes that are all alike or count up, registers at their ends.
Unlike == {[MCFresh EXCEPT !.memory = m, !.regs.wide.rax = x, !.regs.wide.rbp = y] :
             m \in {[k \in DOMAIN Data |-> b] : b \in {0, 3}} \cup {[k \in DOMAIN Data |-> (7 * k) % 4]},
             x \in {0, Half - 1, Word - 1}, y \in {0, 71, Half, Word - 1}}

\* The hypotheses of Prompt_proofs: the table, the functions and the targets, and the evaluator of eval.rs on
\* the first debuggee, on what any `set' makes of it, and on others.
ASSUME InScope ==
  /\ Table /\ GuessIsInside /\ Targets \subseteq Target
  /\ EvaluatorTyped({MCFresh} \cup Afterwards(MCFresh) \cup Unlike)
=============================================================================

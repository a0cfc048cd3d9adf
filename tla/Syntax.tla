------------------------------- MODULE Syntax -------------------------------
(***************************************************************************)
(* Expressions as text (src/eval.rs, lex to split_assignment). A lexeme is *)
(* what the lexer's longest match takes between blanks: <<"int", n>>,      *)
(* <<"float", f>>, <<"name", s>>, <<"register", s>> or <<"op", s>>.        *)
(***************************************************************************)
EXTENDS Registers, Sequences
LOCAL INSTANCE SequencesExt

Op(o) == <<"op", o>>

\* `&&' and `||' are the bitwise operators, and a single `=' compares.
Token(l) ==
  IF l = Op("&&") THEN Op("&") ELSE IF l = Op("||") THEN Op("|")
  ELSE IF l = Op("=") THEN Op("==") ELSE l

Operators == {"+", "-", "*", "/", "%", "^", "~", ".", "(", ")", "[", "]", "&", "&&", "|", "||",
              "=", "==", "!", "!=", "<", "<=", "<<", ">", ">=", ">>", "->"}

\* A literal is a nonnegative i64; other characters are errors.
Lexes(l) == /\ l[1] = "int" => l[2] \in 0 .. Half - 1
            /\ l[1] = "op" => l[2] \in Operators

\* The precedence of C, where comparisons bind tighter than bits.
LevelsOfC == <<{"|"}, {"^"}, {"&"}, {"==", "!="}, {"<", ">", "<=", ">="}, {"<<", ">>"},
               {"+", "-"}, {"*", "/", "%"}>>

\* The binary operators, loosest first: one function parse_* for each level.
Levels == <<{"==", "!="}, {"<", ">", "<=", ">="}, {"|"}, {"^"}, {"&"}, {"<<", ">>"},
            {"+", "-"}, {"*", "/", "%"}>>
UnaryOps == {"-", "+", "!", "~", "*", "&"}

\* Parsers take the tokens and where to begin; `at' is the first token not used.
At(ts, i) == IF i <= Len(ts) THEN ts[i] ELSE <<"end">>
IsOp(t, S) == t[1] = "op" /\ t[2] \in S
Parsed(e, i) == [ok |-> TRUE, expr |-> e, at |-> i]
Failed == [ok |-> FALSE]

RECURSIVE parse_level(_, _, _), parse_more(_, _, _), parse_unary(_, _), parse_postfix(_, _)

parse_primary(ts, i) ==
  LET t == At(ts, i)
      inner == parse_level(ts, i + 1, 1)
  IN  CASE t[1] = "int" -> Parsed(<<"Int", t[2]>>, i + 1)
        [] t[1] = "float" -> Parsed(<<"Float", t[2]>>, i + 1)
        [] t[1] = "name" -> Parsed(<<"Ident", t[2]>>, i + 1)
        [] t[1] = "register" -> Parsed(<<"Register", t[2]>>, i + 1)
        [] t = Op("(") -> IF inner.ok /\ At(ts, inner.at) = Op(")")
                          THEN Parsed(inner.expr, inner.at + 1) ELSE Failed
        [] OTHER -> Failed

\* What follows a primary, as long as it is a postfix operator.
parse_postfix(ts, base) ==
  LET t == At(ts, base.at)
      field == At(ts, base.at + 1)
      index == parse_level(ts, base.at + 1, 1)
  IN  CASE IsOp(t, {".", "->"}) ->
             IF field[1] = "name"
             THEN parse_postfix(ts, Parsed(<<"Member", base.expr, field[2], t[2]>>, base.at + 2))
             ELSE Failed
        [] t = Op("[") ->
             IF index.ok /\ At(ts, index.at) = Op("]")
             THEN parse_postfix(ts, Parsed(<<"Index", base.expr, index.expr>>, index.at + 1))
             ELSE Failed
        [] OTHER -> base

parse_unary(ts, i) ==
  LET t == At(ts, i)
      operand == parse_unary(ts, i + 1)
      primary == parse_primary(ts, i)
  IN  IF IsOp(t, UnaryOps)
      THEN IF operand.ok THEN Parsed(<<"Unary", t[2], operand.expr>>, operand.at) ELSE Failed
      ELSE IF primary.ok THEN parse_postfix(ts, primary) ELSE Failed

\* The loop of each parse_*: operators of one level associate to the left.
parse_more(ts, lhs, k) ==
  LET t == At(ts, lhs.at)
      rhs == parse_level(ts, lhs.at + 1, k + 1)
  IN  IF ~IsOp(t, Levels[k]) THEN lhs
      ELSE IF rhs.ok
      THEN parse_more(ts, Parsed(<<"Binary", t[2], lhs.expr, rhs.expr>>, rhs.at), k)
      ELSE Failed

parse_level(ts, i, k) ==
  LET lhs == parse_level(ts, i, k + 1)
  IN  IF k > Len(Levels) THEN parse_unary(ts, i)
      ELSE IF lhs.ok THEN parse_more(ts, lhs, k) ELSE Failed

\* All lexemes must be used.
parse(lexemes) ==
  LET ts == [i \in DOMAIN lexemes |-> Token(lexemes[i])]
      r == parse_level(ts, 1, 1)
  IN  IF (\E i \in DOMAIN lexemes : ~Lexes(lexemes[i])) \/ lexemes = <<>> THEN Failed
      ELSE IF r.ok /\ r.at = Len(ts) + 1 THEN r ELSE Failed

\* `set' splits at the first `=' that is not part of a comparison.
split_assignment(lexemes) ==
  LET i == SelectInSeq(lexemes, LAMBDA l : l = Op("="))
  IN  IF i = 0 THEN [ok |-> FALSE]
      ELSE [ok |-> TRUE, lhs |-> SubSeq(lexemes, 1, i - 1), rhs |-> SubSeq(lexemes, i + 1, Len(lexemes))]

(***************************************************************************)
(* How docs/03, section 9.1, writes expressions: operators in its order of *)
(* precedence, parentheses only where that order needs them.               *)
(***************************************************************************)
Precedence == [o \in UNION {{"==", "!="}, {"<", ">", "<=", ">="}, {"<<", ">>"}, {"+", "-"},
                            {"*", "/", "%"}, {"|", "^", "&"}} |->
  CASE o \in {"==", "!="} -> 1          [] o \in {"<", ">", "<=", ">="} -> 2
    [] o = "|" -> 3 [] o = "^" -> 4 [] o = "&" -> 5
    [] o \in {"<<", ">>"} -> 6 [] o \in {"+", "-"} -> 7 [] OTHER -> 8]
UnaryLevel == 9
PostfixLevel == 10

RECURSIVE Written(_, _)
\* e as an operand of something that binds as tightly as level p.
Written(e, p) ==
  LET Enclosed(s, level) == IF level < p THEN <<Op("(")>> \o s \o <<Op(")")>> ELSE s
  IN  CASE e[1] = "Int" -> <<<<"int", e[2]>>>>
        [] e[1] = "Float" -> <<<<"float", e[2]>>>>
        [] e[1] = "Ident" -> <<<<"name", e[2]>>>>
        [] e[1] = "Register" -> <<<<"register", e[2]>>>>
        [] e[1] = "Unary" -> Enclosed(<<Op(e[2])>> \o Written(e[3], UnaryLevel), UnaryLevel)
        [] e[1] = "Binary" ->
             LET q == Precedence[e[2]]
             IN  Enclosed(Written(e[3], q) \o <<Op(e[2])>> \o Written(e[4], q + 1), q)
        [] e[1] = "Member" -> Written(e[2], PostfixLevel) \o <<Op(e[4]), <<"name", e[3]>>>>
        [] e[1] = "Index" ->
             Written(e[2], PostfixLevel) \o <<Op("[")>> \o Written(e[3], 1) \o <<Op("]")>>

Text(e) == Written(e, 1)
NoParentheses(ts) == SelectSeq(ts, LAMBDA t : t \notin {Op("("), Op(")")})
=============================================================================

------------------------------- MODULE Arith -------------------------------
(***************************************************************************)
(* The integers of the expression evaluator (src/eval.rs): i64 values that *)
(* wrap, and what read_typed and write_typed (src/debugger.rs) make of the *)
(* bytes of a smaller object. A byte has Byte values and a word 8 bytes, so *)
(* every width of the code is there; the code has Byte = 256, Bits = 64.    *)
(***************************************************************************)
EXTENDS Integers, FiniteSets

CONSTANTS
  Byte,   \* the number of values of a byte
  Bits    \* the number of bits of a word

ASSUME ByteAssumption == Byte \in Nat /\ Byte >= 2 /\ Byte % 2 = 0

\* Values[n] is the number of values of n bytes.
Values ==
  LET two == Byte * Byte
      four == two * two
  IN  <<Byte, two, two * Byte, four, four * Byte, four * two, four * two * Byte, four * four>>

Word == Values[8]
ASSUME BitsAssumption == Bits \in Nat /\ 2^Bits = Word
\* The law of powers, as far as a word goes: the provers know nothing of ^.
ASSUME PowersAssumption == \A j, k \in 0 .. Bits :
  2^j \in Nat \ {0} /\ (j + k <= Bits => 2^(j + k) = 2^j * 2^k)
Half == Word \div 2
I64 == -Half .. Half - 1
U64 == 0 .. Word - 1
\* usize::MAX, for `unlimited'.
Unlimited == Word - 1

\* The value that two's complement gives n in a width with m values.
Wrap(n, m) == LET u == n % m IN IF u < m \div 2 THEN u ELSE u - m
i64(n) == Wrap(n, Word)
u64(n) == n % Word

\* Only the widths of C's integers are extended: 3, 5, 6 and 7 bytes read as they are.
sign_extend(raw, size) == IF size \in {1, 2, 4} THEN Wrap(raw, Values[size]) ELSE i64(raw)

AbsVal(n) == IF n < 0 THEN -n ELSE n
\* A quotient that rounds down.
QuotDown(l, r) == (l * (IF r < 0 THEN -1 ELSE 1)) \div AbsVal(r)

\* Division of Rust and C, toward zero; \div and % of TLA+ round down.
Quot(l, r) ==
  LET q == AbsVal(l) \div AbsVal(r)
  IN  IF (l < 0) <=> (r < 0) THEN q ELSE -q
Rem(l, r) == l - r * Quot(l, r)

BitsOf(n) == {k \in 0 .. Bits - 1 : (u64(n) \div 2^k) % 2 = 1}
\* SumBelow(S)[k] is the number whose bits are those of S below k.
SumBelow(S) ==
  LET sum[k \in 0 .. Bits] ==
        IF k = 0 THEN 0 ELSE sum[k - 1] + (IF k - 1 \in S THEN 2^(k - 1) ELSE 0)
  IN  sum
FromBits(S) == i64(SumBelow(S)[Bits])

Done(n) == [ok |-> TRUE, value |-> n]
Refuse(why) == [ok |-> FALSE, why |-> why]
Truth(b) == Done(IF b THEN 1 ELSE 0)

Bitwise == {"&", "|", "^", "<<", ">>"}

\* Shift counts are taken modulo the width (wrapping_shl, wrapping_shr) and >> keeps the sign.
eval_bitwise(op, l, r) ==
  Done(CASE op = "&" -> FromBits(BitsOf(l) \cap BitsOf(r))
         [] op = "|" -> FromBits(BitsOf(l) \cup BitsOf(r))
         [] op = "^" -> FromBits((BitsOf(l) \cup BitsOf(r)) \ (BitsOf(l) \cap BitsOf(r)))
         [] op = "<<" -> i64(l * 2^(r % Bits))
         [] op = ">>" -> l \div 2^(r % Bits))

eval_integer(op, l, r) ==
  CASE op = "+"  -> Done(i64(l + r))
    [] op = "-"  -> Done(i64(l - r))
    [] op = "*"  -> Done(i64(l * r))
    [] op = "/"  -> IF r = 0 THEN Refuse("division by zero") ELSE Done(i64(Quot(l, r)))
    [] op = "%"  -> IF r = 0 THEN Refuse("division by zero") ELSE Done(i64(Rem(l, r)))
    [] op = "==" -> Truth(l = r)
    [] op = "!=" -> Truth(l # r)
    [] op = "<"  -> Truth(l < r)
    [] op = ">"  -> Truth(l > r)
    [] op = "<=" -> Truth(l <= r)
    [] op = ">=" -> Truth(l >= r)

eval_binary(op, l, r) == IF op \in Bitwise THEN eval_bitwise(op, l, r) ELSE eval_integer(op, l, r)
-----------------------------------------------------------------------------
(* What C says of the value v of `l op r', Of(o) being the value of another operator o. *)

Same(a, b) == (a - b) % Word = 0

IsQuotient(l, r, q, rem) ==
  /\ Same(q * r + rem, l) /\ AbsVal(rem) < AbsVal(r)
  /\ rem # 0 => (rem < 0 <=> l < 0)
  /\ q \in {0, -Half} \/ (q < 0 <=> ~(l < 0 <=> r < 0))

\* Bits in both count twice in a sum, bits in one of them once; a word has all of the bits in
\* both and no other than those in one.
IsBits(op, l, r, v, and, or) ==
  /\ Same(and + or, l + r)
  /\ u64(and) <= u64(l) /\ u64(l) <= u64(or)
  /\ op = "^" => Same(v + 2 * and, l + r)

IsBinary(op, l, r, v, Of(_)) ==
  /\ v \in I64
  /\ CASE op \in {"/", "%"} -> IsQuotient(l, r, Of("/"), Of("%"))
       [] op \in {"&", "|", "^"} -> IsBits(op, l, r, v, Of("&"), Of("|"))
       [] op = "<<" -> Same(v, l * 2^(r % Bits))
       [] op = ">>" -> LET m == 2^(r % Bits) IN v * m <= l /\ l - v * m < m
       [] op = "+" -> Same(v, l + r)
       [] op = "-" -> Same(v, l - r)
       [] op = "*" -> Same(v, l * r)
       [] OTHER -> v \in {0, 1} /\ (v = 1 <=> op \in CASE l < r -> {"<", "<=", "!="}
                                                       [] l > r -> {">", ">=", "!="}
                                                       [] l = r -> {"<=", ">=", "=="})
=============================================================================
